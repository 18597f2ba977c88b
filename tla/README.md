# ShieldReduce in TLA+

A verification development for the ShieldReduce storage server
(`src/Prototype`): how clients log in, what the server stores, where, and under
which name, while clients upload, while the writer thread saves containers, and
while an offline session rewrites what earlier sessions stored; how a file is
downloaded again; and what survives a shutdown, a kill and a start.

ShieldReduce deduplicates chunks, stores a chunk that is similar to a stored
one as a *delta* of it, packs records into *containers*, and in OFFLINE
sessions turns old bases into deltas of newer ones ("backward" delta
compression). Three things must agree at all times: the fingerprint index, the
headers of the records, and the files. Most of what is stated here is about
that agreement.

## 1. Inventory

| Component | State | Operations | Interacts with |
|---|---|---|---|
| Main thread: `dbeServer` | connections, `thList` | start, accept, Ctrl-C, save and exit | starts a session thread per connection |
| Session control: `ServerOptThread`, `ClientVar`, `keyECall` | session, open container names, client locks, session keys, `con_times` | key exchange, log in, run upload / offline / download, join threads, clean up | starts the session's threads, calls the enclave |
| `DataReceiver` thread | the client's connection | receive a batch, recipe end, connection closed | ecalls; pushes the tail containers |
| `DataWriter` thread | `_inputMQ`, the open file | pop, create file, write file | reads what the receiver and the ocalls push |
| Inline path: `ecallFreqIndex`, `enclaveBase` | the batch, file recipe, backup size | deduplicate, find a similar base, code a delta, keep as base | index ocalls, container cache, container store |
| Container store: `ecallStorage` | the open base and delta container | append a record, roll the container | `Ocall_Write(Delta)Container` |
| Container cache: `ecallinContainercache` | container name -> bytes, LRU | look up, refresh, insert, evict | inline path only |
| Index ocalls: `storeOCall`, `inMemoryDatabase` | fingerprint, super-feature and delta index, `_local_tmp_map`, `skipMap`, `_local_map`, `_cold_map`, `baseMergePair` | query, insert, erase, revise, read and write container files | everything |
| Offline path: `ecallOffline` | hot container, the pair at hand, the squeeze loop | `Easy_update`, `InsertHot_container`, `Update_cold_container`, `MergeContainer` | index ocalls, files |
| Restore path: `enclaveRecvDecoder`, `ecallRecvDecoder`, `readCache` | recipe handler, container request, base query, container buffers, LRU | read a recipe batch, collect a request, fetch containers, decode, send | files, index, the client |
| Restoring client: `dataRetriever`, `restoreWriter` | message queue, counts, output file | receive, push, set done; test, pop, write | the decoder thread; each other |
| Top-k heap, count-min sketch, DEBE index: `ecallEntryHeap`, `ecallCMSketch`, `ecallDEBE` | heap of frequent fingerprints with positions, counters, sealed files | count, look up, evict, add, update, seal, reload | outside index, container store |

Hard behaviours and the properties that answer them:

* **Interleaving.** The receiver reads container files while the writer creates
  and fills them; names are drawn from one counter by three parties.
  `OneHolder`, `EntriesFound`, `Restorable`, finding *torn read*.
* **Rewriting in place.** The squeeze and merge loops rebuild the index from
  record headers while marks of other records are pending. `HeadersCurrent`,
  `ColdMarksExact`, `Tiled`.
* **Long histories.** Pairs deferred over several batches and sessions, deltas
  that refuse to move, bases that must then stay. `NoChain`, `PairsFlat`,
  `DeltasTracked`, `DeltaIndexExact`, `SimilarAreBases`.
* **Partial failure.** A client disconnects between a batch and its recipe
  end. `EntriesFound` and the run `broken`, finding *lost tail*.
* **Sessions.** Connections of one client arrive together, wait for each
  other's lock while they hold the lock of the lock set, replace each other's
  session key. `OneSessionPerClient`, `KeyOfSession`, `Served`. One that fails in
  the middle may end the server (`ConnLost`); `Served` exempts that.
* **Downloads.** A request is collected over several ecalls, with its deltas
  and their bases in two lists that only their order relates; four threads of
  two processes hand the chunks on. `RequestBounded`, `BasesInStep`,
  `SlotsRight`, `CacheCoherent`, and the refinement `DownloadFaithful`.
* **Two sizes that nothing ties together.** The read cache has a map of 64
  names and a pool of `readCacheSize_` buffers. `CacheCoherent`, finding
  *cache sizes*.
* **Stop and start.** Four files are written one after the other, and not all
  of the state is in them. `HeapBelowSketch`, `FoundOnce`, finding *restart*.
* **Stale state.** A cache nobody invalidates, a read buffer nobody clears.
  `CodedAgainstBase`, `NoStaleRead`, finding *stale cache*.
* **Waiting.** `Push` spins on a full queue, the session thread joins both
  threads, the squeeze loop advances by lengths it reads. `SessionEnds`.

`PROJECT.json` lists every hazard at its line.

## 2. Modules

| Module | Models |
|---|---|
| `ShieldStore` | constants and their assumptions, all state, data types, reading a container, `Init` |
| `InlineUpload` | session start, receiver, inline path, container store, cache, writer thread, end of an upload |
| `OfflineUpdate` | the offline pass: pairs, hot containers, squeezing, merging |
| `ShieldReduce` | both composed: `Next`, `Spec`, `FairSpec`, all properties |
| `MCShieldReduce` | the small instances |
| `RestoredFile` | what a download promises (abstract) |
| `RestoreDecoder` | one download: session, decoder, retriever and writer thread, read cache; implements `RestoredFile` |
| `ServerSession` | connections, logins, client locks, session keys, Ctrl-C |
| `EntryHeap` | the top-k heap as operators on a record |
| `TopKIndex` | DEBE deduplication with heap and sketch, shutdown, kill and start |
| `MCRestore`, `MCSession`, `MCTopK` | their small instances |
| `TypeProofs` | type correctness |
| `NameProofs` | container names are used once; without the offline pass nothing is rewritten |
| `PlacementProofs` | index, headers, marks and files agree, through squeezing and merging |
| `DeltaProofs` | bases stay bases, re-coding loses nothing, every finalised chunk can be restored |
| `SessionProofs` | sessions of a client exclude each other, and each uses its own key |
| `RestoreProofs` | requests, bases, slots and the read cache of a download |
| `DownloadProofs` | a download writes the stored file in order (step simulation of `RestoredFile`) |
| `TopKProofs` | the heap stays sound and below the sketch; a chunk is stored once, where the index says |

`InlineUpload` and `OfflineUpdate` share state only through `ShieldStore`. The
other three specifications stand beside `ShieldReduce`, each with the part of
the state its questions are about: `ServerSession` has a session's work as one
step (`serve`), which `ShieldReduce` and `RestoreDecoder` spell out;
`RestoreDecoder` assumes of the store what is proved of `ShieldReduce` (every
chunk has an entry, no base is a delta: `Restorable`, `NoChain`); `TopKIndex` spells
out the look-up that `ShieldReduce` folds into `IsNew`.
Definitions whose comment begins with *Mutant* are wrong variants of the
definition that follows them; each makes one property fail, and none is used by
`Next`.

### State and code

* A **chunk** stands for its fingerprint. Encryption, LZ4 and EDelta are
  abstracted to the sizes they produce (`CLen`, `DSize`) and to what a payload
  was coded against (`src` of a record). Decoding is right when the base the
  header names is what the payload was coded against.
* An **address** (`Addr`) is a `RecipeEntry_t`: container, offset, length and,
  for a delta, the base. Container id 0 is "no entry".
* A **container name** is `con_times` written by `CreateUUID` as seven base-36
  digits, leading zeros included, in ASCII order. Names therefore sort like
  the numbers, which is what `Neighbours` uses.
* A **file** is a set of records with positions. `Load` models
  `tmpOcallcontainer`: reading overwrites only the first `size` bytes, the rest
  is left from earlier reads.
* `phase` is where the session thread is: `recv` and `batch` in the receiver
  loop and inside `ProcessOneBatch`, `ended` after the recipe end, `drain`
  while the writer empties the queue, then `pairs`, `deltas`, `cold`, `walk`
  and `merge` in the offline pass.

* In `RestoreDecoder` a **request** (`req`) is what one round of fetching
  serves: `ids` is `idBuffer` and its length `idNum`, `map` is
  `tmpContainerMap`, `query` the pending base query, `recs` and `bases` the two
  recipe buffers of the enclave. Bytes are abstracted to the container they
  come from: `Decoded` yields the chunk if the slot holds its container and the
  base entry at hand is its own base, and `Garbage` otherwise. The capacity of
  the read cache's map (`LruMax`) and the number of its buffers (`PoolSize`) are
  unrelated, as in the code. A store past the end of `containerPool_` is
  undefined; the model stops the server there (`overrun`).
* In `ServerSession` a mutex is named after the connection that created it, and
  a session key after the connection that agreed on it.
* In `TopKIndex` the two keys of the enclave are one, named after the start
  that drew it. An index entry is stored under chunk *and* key, because the
  code looks up the fingerprint encrypted with `indexQueryKey_`; a record
  carries the key it was encrypted with. A **kill** can come between any two
  steps. It loses the memory of enclave and process and keeps the files: a
  sketch file short of rows, an empty heap file, any part of the database being
  written (a record cut off in the middle is left out). `warm` and `torn` are
  history variables for two properties.

### Grain of atomicity

One action of the session thread is one chunk of a batch, one batch look-up,
one delta moved, one record of the squeeze loop, one merge. The writer has two
actions, `fopen` and `fwrite`, because the receiver can run between them: that
is the only concurrency inside a session. The offline pass runs after both
threads were joined. Tail containers are pushed in one step; the guard asks for
room for all of them, and the writer can always make it.

In a download, one recipe entry parsed, one base of a query resolved, one
container fetched and one chunk decoded are a step each; what the four threads share (the recipe handler, the
connection, the queue, `done_`) is touched at most once per step, and the
writer's test reads `done_` and the queue in two steps. A session thread's
critical sections are cut at every lock and unlock. `TopKIndex` processes a
batch in one step (`Freqs`, `InHeap`, `Unique`, `Stored`, `HeapAfter` are the
stages of it): in the single-client build one ecall runs at a time, and the
writer thread is folded into the step (its races are `ShieldReduce`'s).

## 3. Runs

Chunk roles: `co` is a first base; `cd`, `cn`, `cp` are similar to it; `cx` is
unrelated and shares a container with `co`; `cy` is similar to `cx`. A batch of a
single similar chunk exceeds the threshold of `LocalChecker` and is deferred;
larger ones are coded inline. Sizes: header 1, base record 1 + 2, container
limit 8 (two base records), 5 (one) or 16 (several).

| Run | Instance | Shows |
|---|---|---|
| `core` | 5 chunks, 3 sessions, 4 batches, limit 8, mixed delta sizes, `FairSpec` | all invariants, through re-coding, refusal of a delta, a full hot container, squeezing and merging, and that every session ends (about 548,000 states, 2 minutes) |
| `pipeline` | 6 chunks, 2 sessions, limit 5, `FORWORD` | every chunk rolls a container: queue always near its bound, reads hit queued, half-written and finished files |
| `broken` | 5 chunks, 3 sessions, 1 early disconnect | what is left stays consistent when open containers vanish; index entries never go backwards |
| `only_forward` | 5 chunks, 3 sessions, `ONLY_FORWORD` | no entry is rewritten |
| `restore` | all recipes of up to 5 entries, 2 bases, 2 deltas, 3 containers, `FairSpec` | the download implements `RestoredFile`; the request, its slots and bases, and the read cache are right (about 288,000 states) |
| `small_pool` | recipes of up to 3 entries, a map of 2 names, a pool of 1 | violation, see findings |
| `login` | 3 connections of 2 clients, 2 files, `FairSpec` | one session per client, its own key, everybody served (about 80,000 states) |
| `topk` | 4 chunks, heap of 3, sketch 2 by 2, 4 batches, 2 uploads, 3 starts, 2 kills | heap and sketch stay sound through evictions, reloads and kills; chunks are stored once and found (about 6.0 million states, 2 minutes) |
| `restart` | the same without kills | violation, see findings |
| `stale_cache` | 5 chunks, 4 sessions, limit 16 | violation, see findings |
| `lost_tail` | 5 chunks, 2 sessions, 1 early disconnect | violation |
| `torn_read` | 6 chunks, 1 session, limit 5 | violation |

**Why the bounds are enough to be interesting.** The offline pass needs a base,
a delta of it and a replacement, in that order: three batches. A fourth lets a
later upload use what the pass left, or defer a second replacement on the same
base. Containers of two records are the smallest in which a record moves down
when its neighbour is removed; containers of one are the smallest in which
every chunk rolls. `QueueCap` 2 makes `Push` wait, `CacheSize` 1 makes every
second container evict. `MaxCid` is larger than what the sessions use: `SessionEnds`
would fail if it could stop a session.

In `restore` the limits are the smallest the assumptions allow: `Cap` 3 with a
base query of 1 lets a delta close a request with one container too many; a
recipe batch of 2 and recipes of up to 5 entries give whole and broken last
batches and requests that span two ecalls; 3 containers in a cache of 2 evict;
`NetMax` and `QueueMax` 1 make every send and every push wait. `QueryMax` < `Cap`
< `ArraySlots` are the code's 5, 16 and 50. The pool is as large as the map,
64 and 64 in the shipped configuration; `small_pool` has it otherwise. In
`login` two connections share a client, so both may find it without a mutex; the
third shows that a busy client only delays others. In `topk` the
chunks share counters two by two, so estimates are too high; a batch holds a
repeated chunk, and a heap of 3 has a parent with two children.

**Deadlock** is not checked by TLC's own test: the number of sessions is
bounded, and `stale` (a delta container that cannot be opened) is where the
model stops on purpose. `SessionEnds` is the stronger statement. The same goes
for `restore` and `login`, whose behaviours end and whose liveness properties
say how; in `topk` a server that is down may stay down.

**Fairness.** `FairSpec` has weak fairness of the session thread and of the
writer. Both are OS threads with no lock between them but the message queue,
and both loops retry at once when they find it full or empty. Fairness of
`RecipeEnd` says that the client finishes its upload: the receiver has no
timeout, so without it a silent client keeps its session open for ever. There
is no fairness of `StartSession`, `Receive` or `Disconnect`.
In `RestoreDecoder` each of the four threads has weak fairness: they spin or
block on the connection and the queue and nothing else. In `ServerSession`
each session thread and the interrupt handler have it, and a connected client
sends what the protocol asks for next; fairness of the mutexes is not assumed,
since each connection asks for a lock once. New connections, lost ones and
Ctrl-C are not fair. `TopKIndex` has no liveness property.

**Refinement.** `DownloadFaithful` is `RestoredFile!Spec` under the mapping
`stored <- recipe`, `out <- out` and `closed <- ` the writer has closed the
file, the decoder thread has seen the connection closed and the chunk count
was right. Every other step stutters. It is checked with its fairness, so it
also says that every download comes to its end. `WritesInOrder` is
`RestoredFile!Safety`, the same statement without the fairness: it has no run of
its own, and it is what is proved.

**Conditions inside properties.** `Restorable` and `CodedAgainstBase` exempt
behaviours with `staleUse` (a delta coded against the wrong bytes) and
`Restorable` those with an early disconnect: exactly the first three
findings.
`DownloadIdentical` is the statement without exemptions, and the three
violation runs refute it one cause at a time (`GarbleSmall` is `FALSE` there, so
that no counterexample depends on how the coder treats garbage).
`HeapBelowSketch` exempts behaviours in which a kill left the sketch file short
of rows beside a heap file (`torn`): the missing rows load as zeros. That
costs a miss in the heap, not data. `FoundOnce` is about processes that did not
start with an earlier heap (`~warm`); `FilesSurvive` is the statement for the
others and fails, see *restart*.

## 4. Findings

`src/Prototype/README.md:209` says of an uploaded and a downloaded file "same
chunksums mean they are identical". Five ways in which they are not:

* **Stale cache** (`stale_cache`). The in-enclave container cache is keyed by
  name and never invalidated, while the offline pass rewrites files under the
  same name. A later upload decodes the base at its new offset in the old bytes.
* **Lost tail** (`lost_tail`). The index is updated after every batch, the open
  containers leave the enclave only at the recipe end. If a client disconnects
  in between, later uploads deduplicate against chunks that no file holds.
* **Torn read** (`torn_read`). A base container counts as readable once its file
  opens, and the writer creates the file before it fills it.
* **Restart** (`restart`). `CTRLC` destroys the enclave (`dbeServer.cc:74`) and
  then calls the ecall that would write its keys to disk. The key file never
  exists, every start draws new keys, and nothing stored before the README's
  "ctrl + c" (`README.md:132`) can be found or decrypted after it. Worse, a
  reloaded heap holds plaintext fingerprints with their old addresses and still
  answers "duplicate", and container names start again at 1.
* **Cache sizes** (`small_pool`). With `readCacheSize_` below 64, a full pool makes
  `InsertToCache` overwrite the buffer of the least recent name, which
  `pruneValue` reads but does not remove; the map forgets a name only beyond
  its own 64 (`readCache.h:27`). A second request for the older container gets
  the bytes of the newer one, as for the recipe `b1, b2, b1` with a pool of one.
  With a size above 64, the map never grows to the size of the pool, so the test
  in `InsertToCache` always says that there is room: each miss takes the next
  buffer until `currentIndex_` is past the last one. `SmallPool.cfg` with
  `PoolSize = 3` shows it for `b1, b2, d1`. `README.md:71` lists the size as an
  ordinary setting.

Two remarks from reading that no run shows: chunks of the DEBE index type are
stored without the header the restore path skips
(`ecallRecvDecoder.cc:381`, `enclaveBase.cc:210`); and a request may hold one
container name more than `idBuffer` was allocated for (`clientVar.cc:173`,
`RequestBounded` shows that one is the most).

## 5. Proofs

The first sixteen theorems are about `Spec` of `ShieldReduce`, for all values of
the constants that satisfy the named assumptions of `ShieldStore`:
`ChunkAssumption` (the marks for "none" and "garbage" are not chunks),
`SizeAssumption` (the tables have their types), `ContainerAssumption` (a header
is not empty, nor is a container, and a single record fits one),
`BoundAssumption` (types of the rest).

* **`TypeCorrect`: `Spec => []TypeOK`.** `TypeOK` is not inductive alone: the
  delta sizes looked up in `MoveDelta` and `MoveBase` need the pair at hand to
  be a pair of chunks, so the invariant is `TypeInv == TypeOK /\ PairAtHand`.
  One lemma per action; the choices of `Min` and `Max` rest on `MinIn`, `MaxIn`.
* **`NamesUsedOnce`: `Spec => []OneHolder`.** `OneHolder` speaks of containers
  on their way to disk and of files. It is inductive only together with: every
  name is below `con_times` (`NamesTaken`), a session that takes chunks has
  named both containers (`OpenNamed`), names on the way are pairwise distinct
  (`NamesDistinct`), and none of them has a file before the writer opens it
  (`NoFileYet`). `NamesStep` shows once that a step which only draws new names,
  drops names, hands over open containers or saves the hot one keeps all of
  this; every action but the writer's two is an instance.
* **`ForwardOnly`: `Spec => NoRewrite`** (`NameProofs`). Needs that the offline phases are
  unreachable under `ONLY_FORWORD` and `FreshBatch`: what the snapshot of a
  batch called new is still not indexed when the batch ends.
* **`HeadersStayCurrent`, `EntriesAreFound`, `ContainersTiled`,
  `MarksStayExact`** (`PlacementProofs`): `HeadersCurrent`, `EntriesFound`,
  `Tiled` and `ColdMarksExact` for containers, chunks and passes of any number.
  None is inductive, and none can be proved without the others: squeezing
  replaces index entries by what the headers say, so the headers must be
  current; it finds the headers by adding up lengths, so the container must be
  tiled and the marks exact; a mark is exact because the entry it was made from
  was found. `PlaceInv` therefore says all of it at once, over `Live`, the
  records of all containers wherever they are (the one being squeezed as far as
  the loop has come), together with what makes it inductive: which containers
  exist in which phase (`PhaseFacts`), a lost name never returns (`Unused`, in
  `LiveFound`), the chunks of a batch are stored once each (`BatchLive`), where
  the loop of `Update_cold_container` stands (`WalkInv`: at a record, what it
  has copied is a tiled container of its own whose entries are already those of
  the index, all remaining marks lie ahead), and that no container is in two
  merge pairs (`MergeInv`). The last needs a counting argument: two pairs that
  follow each other belong to the same run of small neighbours, and their
  positions in it differ by one (`MergePairsApart`). Uniqueness of records
  (`LiveUnique`) comes from the names proved in `NameProofs`. TLC checked
  `PlaceInv` on the instances of `core`, `broken` and `pipeline` before it was
  proved.
* **`ChainsNeverForm`, `OnlyBasesOffered`, `DeltaIndexStaysExact`,
  `DeltasStayTracked`, `PairsStayFlat`** (`DeltaProofs`): `NoChain`,
  `SimilarAreBases`, `DeltaIndexExact`, `DeltasTracked` and `PairsFlat`. A base
  may become a delta only if no delta points at it afterwards, so the index of
  deltas has to be complete for every base that may be replaced, and such a base
  is one that is offered, deferred, or in a pair. `ChainInv` joins the five with:
  a base is offered only under its own keys, so that `Ocall_OFFline_updateIndex`
  takes it out everywhere (`SimilarKeyed`); the chunks deferred on a base are full, are not
  offered, and are deferred on no other base (`GroupsApart`), which makes the
  pairs flat when `Ocall_Localrevise` forms them; what a batch chose as a base is
  still offered when the batch ends (`BatchBases`); and while a pair is worked
  on, the old base is in no list, no pair and no feature, and its deltas are all
  at hand unless one was refused (`PairInv`): in that case it stays a base.
* **`StoredStaysStored`: `Spec => IndexMonotone`.** Rewriting takes entries from
  headers, so this needs the current headers of `PlaceInv`.
* **`DeltasStayDecodable`, `OfflineReadsWhatItMeans`**: `CodedAgainstBase` and
  `NoStaleRead`, from `CodeInv`. Whether re-coding reads the right bytes depends
  on which file a read opens and what an earlier read left in the buffer.
  `RecordInv`: every record, wherever its container is, has the kind of its
  container and was coded against the base in its header. `ReadInv`: the old
  and new base at hand are the ones meant. `HotInv`: a chunk that has become hot
  has a base that is not replaced again in this pass; therefore a delta to be
  re-coded is not in the hot container, which is the only delta container
  without a file then. By `EntriesFound` its file exists and holds it.
* **`FinalisedStaysRestorable`: `Spec => []Restorable`**, the end-to-end promise
  of an upload. It rests on everything above and on two small invariants: a
  chunk that a recipe names is indexed or in the running batch (`RecipeInv`), and
  between sessions the writer has nothing left (`IdleInv`). The exceptions in
  `Restorable` are the findings *lost tail* (`broken`), *stale cache* and *torn
  read* (`staleUse`).
* **`SessionsExclusive`: `Spec => []OneSessionPerClient`** (`ServerSession`, from
  `SessionAssumption`: connections have clients, "nobody" is no connection).
  Being between lock and unlock says nothing about the mutex, so the invariant
  `LockInv` adds: such a thread owns its mutex (`LockOwned`), it is the one the
  index has for the client (`LockOfClient`), who searches or inserts holds the
  set lock (`SetLockHeld`), and who is about to insert found none (`FirstLock`),
  so that an entry is never replaced. **`KeysOwn`: `Spec => []KeyOfSession`** is
  inductive with `LockInv`: another exchange for the client would be a second
  session. **`SessionTypes`: `Spec => []TypeOK`** needs that a login has named
  the file (`FileNamed`).

The download (`RestoreDecoder`) is proved from `StoreAssumption` (what the
upload leaves: entries for all chunks, no base is a delta) and `SizeAssumption`
(sizes are positive, `QueryMax < Cap < ArraySlots`; with a pool of none,
`pruneValue` would read an empty list), for recipes and queues of any length. The two sizes of the read cache are not assumed to agree. What
depends on them is a hypothesis of the theorem: `PoolCoversMap` (a buffer for
every name), `MapCoversPool` (a name for every buffer), or `SizesAgree` (both;
64 and 64 as shipped).

* **`CacheHitsRight`: `PoolCoversMap => (Spec => []CacheBytes)`,
  `PoolStaysInBounds`: `MapCoversPool => (Spec => []PoolInBounds)` and
  `CacheCoherence`: `SizesAgree => (Spec => []CacheCoherent)`**
  (`RestoreProofs`). `CacheInv` has the two arguments side by side: if the map
  drops no name before the pool is full, `nextIdx` counts the keys until the
  pool is full and is not used after; if the pool is not full before the map
  drops a name, every name is on a buffer below `nextIdx` of its own, because
  a buffer is reused in the very step in which the map drops its name.
  Neither hypothesis can be left out: see the finding *cache sizes*.
* **`RequestsBounded`, `BasesStayInStep`** hold for every two sizes,
  **`SlotsAreRight`** under `PoolCoversMap`. They are proved from `RestoreInv`,
  whose other parts are these. `HandInv`: how session thread, decoder and
  retriever hand the recipe file and the connection over, so that the head is
  read before any entry. `RequestInv`: names and bases still to be resolved
  together stay within `Cap + 1` (the capping test counts the query, so
  resolving it cannot go beyond it), deltas and bases run in step, and the
  container map, as far as it remembers, agrees with `idBuffer`. `LoopInv`: the
  first `got` buffers hold the first `got` containers of the request, if what
  comes from the cache is right, and `bidx` is the number of deltas decoded.
  `StopInv`: only a pool larger than the map can stop the server.
* **`DownloadInOrder`: `SizesAgree => (Spec => WritesInOrder)`**
  (`DownloadProofs`) is the refinement of `RestoredFile` without its fairness.
  `FlowInv` says that the chunks written, those in the message queue, in the
  message being pushed, on the connection, in the send buffer, in the request
  and in the recipe batch are, one after the other, pieces of the recipe
  (`Piece`, `Chained`), up to where the recipe handler stands; that each message
  but the last is not final; that the writer has found the job done only when
  the queue is empty and nothing can follow. `SizesAgree` is used in two places:
  no chunk becomes garbage (`DecodeEntry`), and no fetch stops the server
  (`FetchContainer`). **`DownloadTypes`: `Spec => []TypeOK`**, for every two
  sizes, collects the types from `RestoreInv` and `StreamTypes`.

The DEBE index (`TopKIndex`, `EntryHeap`) is proved from `TopKAssumption`: the
sketch has a row and a column and its columns are where the table says, the heap
holds at least two items, a container at least one chunk. Heap, sketch, batches
and the numbers of starts and kills are of any size.

* **Loops.** The sifts and the two loops over a batch are recursive functions on
  `0..n`. That such a function exists is shown for each of them (`UpRounds`,
  `DownRounds`, `StoreRounds`, `HeapRounds`); what it computes then follows from
  what one round does, by `Rounds`, an induction over a set of naturals that
  rests on the least element of a set.
* **`HeapStaysSound`: `Spec => []HeapSound`.** In the middle of a sift the heap
  is in order except around the moving element, whose item does not know its
  place either. `Sifting` says what holds there: every other item knows its
  place, every other edge is in order, and the children of the moving element
  are above its parent. A round keeps this, and it either stops or comes closer
  to the root (`UpStep`) or to the leaves (`DownStep`), so `Size` rounds are
  enough. `OverParent` and `UnderChildren` are what stopping means; when both
  hold, telling the moving element its place makes the heap sound (`PlacedOK`).
  `Pop`, `Add` and `Update` follow, then `Refreshed` and a whole batch
  (`HeapAfterOK`), then the way through the heap file (`ReloadedHeap`: what a
  start reads back is the heap that was written).
* **`HeapStaysBelowSketch`: `Spec => []HeapBelowSketch`.** A frequency enters the
  heap as an estimate, and an estimate only grows (`EstimateGrows`): the sketch
  after a batch covers what it was at every position of the batch
  (`CountedGrows`). Across a shutdown the statement must speak of the two files:
  `SketchInv` says that the heap file is below the sketch file, below the
  sketch in memory while the server runs and while the sketch file is written
  anew, and that the rows written so far are those in memory. A kill breaks it
  only between two rows and beside an old heap file, which is `torn`.
* **`TakenInOnce`: `Spec => []FoundOnce`.** `StoreInv`: every start draws a key
  larger than all in use, so that neither records nor index entries of it exist
  although container names start again; no file with records of the present key
  has the name of the open container or one not yet drawn (`NamesOK`), so that
  the file a full container overwrites, if there is one, holds old records only;
  and `IndexExact`: a record of the present key is at an address exactly if the
  outside index gives that address for it. A batch keeps `IndexExact` because
  `FirstSeen` makes the chunks it stores distinct (`StoredOK`). `ColdInv` adds
  that without an earlier heap every chunk taken in has an entry.

The three invariants are inductive only together (`TopKInv`): the addresses in
the heap are typed because the store is, and what a batch stores depends on
what the heap answers. TLC checked `TopKInv` on the instance of `topk` with
three batches before it was proved.

With this every invariant and action property of the passing runs is also
proved (`SlotsRight` and `CacheCoherent` for the sizes said above). Only
model-checked: the liveness properties and the fairness of the
refinement (`SessionEnds`, `Served`, `DownloadFaithful`), which are out of the
prover's reach.

## 6. Not modelled

* A download of one client beside an offline session of another: the client
  lock only keeps the sessions of one client apart. `RestoreDecoder` reads a
  store that does not change.
* Restart with the ShieldReduce index type: it loses the delta index and
  the pending pairs, while the fingerprint index and the super-feature index come
  back from their files (`inMemoryDatabase.cc:132`), so that they name bases
  whose deltas are forgotten; but first of all it loses the keys, as `restart`
  shows, and without them nothing stored is found or decrypted.
* A start after a kill that cut a record of the database in two, counters of
  the sketch beyond 2^32, and a heap of one (`EcallEntryHeap::Pop` would index
  an empty vector): `TopK` is at least 2.
* A second process on the same files, and signals other than SIGINT.
* The one hash prefix (161, 77, 140) that `OfflinedeltaTure` never codes as a
  delta (`ecallFreqIndex.cc:1694`): such a chunk behaves like `StoreUnique`.
* What follows a delta container that cannot be opened: the model stops in
  phase `stale`. With no early disconnect it is unreachable (`NoStaleRead`,
  proved).
* Byte-level buffer capacities (among them the 4000 hashes of `GetCold`), record
  offsets in the restore path, the MeGA index type (a baseline with the steps
  of `ecallFreqIndex`), the client's chunking and upload threads, TLS,
  attestation, the codecs, and the MultiClient copy of the tree.

## 7. Plan

1. Several sessions at a time in `ShieldReduce`, to put downloads beside the
   offline pass.
2. Kills and starts with the ShieldReduce index type, once its keys survive a
   shutdown.
