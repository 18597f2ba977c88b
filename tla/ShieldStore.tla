----------------------------- MODULE ShieldStore -----------------------------
(***************************************************************************)
(* The state that the upload path and the offline path of a ShieldReduce   *)
(* server share: the fingerprint, super-feature and delta indexes, the     *)
(* containers (inside the enclave, in the writer's queue and on disk), the *)
(* in-enclave container cache, and the bookkeeping of one session.         *)
(*                                                                         *)
(* A chunk stands for its fingerprint.  Encryption, LZ4 and the EDelta     *)
(* coder are abstracted to the sizes they produce (CLen, DSize) and to     *)
(* what a payload was encoded against (the field src of a record).         *)
(***************************************************************************)
EXTENDS Integers, FiniteSets, Sequences

CONSTANTS
    Chunks,       \* the chunks (fingerprints) clients may upload
    NoChunk,      \* no chunk: no base, no entry of a map
    Garbage,      \* the content of bytes that are not the wanted record
    Features,     \* the keys of the three super-feature maps
    SFs,          \* SFs[c]: the super-features of chunk c, in query order
    Size,         \* Size[c]: plain size of chunk c
    CLen,         \* CLen[c]: stored length of chunk c as a base chunk
    DSize,        \* DSize[c][b]: size of chunk c delta-coded against b
    GarbleSmall,  \* whether coding against garbage may give a small delta
    Hdr,          \* sizeof(RecipeEntry_t) + 4 hashes + IV of every record
    MaxContainer, \* MAX_CONTAINER_SIZE
    ThNum, ThDen, \* OFFLINE_THRESHOLD = ThNum / ThDen
    IndexType,    \* the indexType of Ecall_Init_Upload
    CacheSize,    \* containers the in-enclave cache holds
    QueueCap,     \* CONTAINER_QUEUE_SIZE
    Batches,      \* the chunk batches a client may send
    MaxCid,       \* bound: container ids
    MaxSessions,  \* bound: upload sessions
    MaxBatches,   \* bound: batches over all sessions
    MaxBroken     \* bound: sessions whose client disconnects early

ASSUME ChunkAssumption == NoChunk \notin Chunks /\ Garbage \notin Chunks /\ NoChunk # Garbage
ASSUME SizeAssumption ==
    /\ Size \in [Chunks -> Nat \ {0}] /\ CLen \in [Chunks -> Nat \ {0}]
    /\ DSize \in [Chunks -> [Chunks -> Nat \ {0}]]
    /\ SFs \in [Chunks -> Seq(Features)]
ASSUME ContainerAssumption ==
    /\ Hdr \in Nat \ {0} /\ MaxContainer \in Nat \ {0} /\ MaxCid \in Nat
    /\ \A c \in Chunks : CLen[c] <= Size[c] /\ Hdr + Size[c] < MaxContainer
ASSUME BoundAssumption ==
    /\ ThNum \in Nat /\ ThDen \in Nat \ {0}
    /\ IndexType \in {"FREQ_INDEX", "FORWORD", "ONLY_FORWORD"}
    /\ CacheSize \in Nat \ {0} /\ QueueCap \in Nat /\ QueueCap >= 2 /\ Batches \subseteq Seq(Chunks)
    /\ MaxSessions \in Nat /\ MaxBatches \in Nat /\ MaxBroken \in Nat
    /\ GarbleSmall \in BOOLEAN

VARIABLES
    fpIndex,    \* indexObj_: fingerprint -> RecipeEntry_t
    sfIndex,    \* front() of sfObj_[i][key]: super-feature -> base chunk
    deltaIndex, \* delta_index: base chunk -> its delta chunks
    localTmp,   \* _local_tmp_map: old base -> newest similar base
    skipMap,    \* skipMap: old base -> the earlier similar bases
    localMap,   \* _local_map: the (old, new) pairs of an offline pass
    file,       \* Base-Containers/ and Delta-Containers/
    queue,      \* _inputMQ: containers waiting for the DataWriter
    writing,    \* the container the DataWriter has opened a file for
    inBase,     \* _inContainer, named by _curContainer
    inDelta,    \* _deltainContainer, named by _curDeltaContainer
    nextCid,    \* con_times
    cache,      \* InContainercache, least recently used first
    ocall,      \* tmpOcallcontainer: the shared container read buffer
    phase,      \* where the session thread is
    session,    \* the session's operation, recipe and tail state
    batch,      \* the batch ProcessOneBatch works on
    backup,     \* _onlineBackupSize / _offlineCurrBackup_size
    hot,        \* hot_container of OFFLineBackward
    cold,       \* _cold_map: container -> (offset, length) to remove
    work,       \* the pair of local_basemap being processed
    walk,       \* the loop of Update_cold_container
    merges,     \* baseMergePair, a vector sorted by container
    final,      \* the chunks named by finalised file recipes
    broken,     \* history: early disconnects so far
    staleUse,   \* history: a delta was coded against a wrong buffer
    sessions, nbatches

indexVars   == <<fpIndex, sfIndex, deltaIndex>>
localVars   == <<localTmp, skipMap, localMap>>
writerVars  == <<queue, writing>>
enclaveVars == <<inBase, inDelta, nextCid>>
bufferVars  == <<cache, ocall>>
offlineVars == <<hot, cold, work, walk, merges>>
historyVars == <<final, broken, staleUse, sessions, nbatches>>
vars == <<indexVars, localVars, file, writerVars, enclaveVars, bufferVars, phase,
          session, batch, backup, offlineVars, historyVars>>

-----------------------------------------------------------------------------
(* Data types.                                                             *)

Cids == 1 .. MaxCid
ChunkOrNone == Chunks \cup {NoChunk}
Kinds == {"base", "delta"}

\* RecipeEntry_t: deltaFlag is (base # NoChunk); cid 0 stands for "no entry".
Addr == [cid : Nat, off : Int, len : Nat, base : ChunkOrNone]
NoAddr == [cid |-> 0, off |-> 0, len |-> 0, base |-> NoChunk]

\* One record of a container: its position, the fingerprint and the recipe
\* entry stored in its header, and what its payload was delta-coded against.
Rec == [pos : Int, fp : Chunks, addr : Addr, src : Chunks \cup {NoChunk, Garbage}]

\* A container: named, with the bytes used so far.
Container == [cid : Nat, recs : SUBSET Rec, size : Int]
QueuedContainer == [cid : Nat, recs : SUBSET Rec, size : Int, kind : Kinds]
EmptyContainer(cid) == [cid |-> cid, recs |-> {}, size |-> 0]

File == [kind : Kinds \cup {"none"}, recs : SUBSET Rec, size : Int]
NoFile == [kind |-> "none", recs |-> {}, size |-> 0]

\* A chunk of a batch: whether it is new, the similar base the super-feature
\* index gave (NoChunk: none) and that base's recipe entry at query time.
Entry == [fp : Chunks, new : BOOLEAN, base : ChunkOrNone, baddr : Addr]
\* A stored chunk of a batch; old is the base of a deferred (offline) pair.
Done == [fp : Chunks, addr : Addr, old : ChunkOrNone]

\* A session: its operation, the chunks of its recipe, whether the recipe
\* is complete.  A batch: the chunks to go, the chunks stored, Local_Flag.
Session == [op : {"none", "upload", "offline"}, recipe : SUBSET Chunks, tail : BOOLEAN]
NoSession == [op |-> "none", recipe |-> {}, tail |-> FALSE]
Batch == [todo : Seq(Entry), done : Seq(Done), local : BOOLEAN]
NoBatch == [todo |-> <<>>, done |-> <<>>, local |-> FALSE]

\* A cached container; the pair at hand of Easy_update with the decoded
\* contents of both bases; the loop of Update_cold_container.
Cached == [cid : Nat, buf : SUBSET Rec]
Work == [old : ChunkOrNone, new : ChunkOrNone, oldc : Chunks \cup {Garbage},
         newc : Chunks \cup {Garbage}, deltas : SUBSET Chunks, flag : BOOLEAN]
NoWork == [old |-> NoChunk, new |-> NoChunk, oldc |-> Garbage, newc |-> Garbage,
           deltas |-> {}, flag |-> TRUE]
Walk == [cid : Nat, buf : SUBSET Rec, size : Int, rest : SUBSET (Int \X Int),
         saveset : Int, newset : Int, coldset : Int, recs : SUBSET Rec]
NoWalk == [cid |-> 0, buf |-> {}, size |-> 0, rest |-> {}, saveset |-> 0,
           newset |-> 0, coldset |-> 0, recs |-> {}]

Phases == {"idle", "recv", "batch", "ended", "drain", "pairs", "deltas", "cold",
           "walk", "merge", "stale"}

-----------------------------------------------------------------------------
(* Reading containers.                                                     *)

Indexed(c) == fpIndex[c] # NoAddr
IsBase(c) == Indexed(c) /\ fpIndex[c].base = NoChunk

\* A container of this name and kind can be opened.
HasFile(k, kind) == k \in Cids /\ file[k].kind = kind

\* Reading a file into tmpOcallcontainer overwrites only its first bytes:
\* what lies beyond the size of the file is left over from earlier reads.
Load(f) == f.recs \cup {r \in ocall : r.pos >= f.size}

\* The plain base chunk that decrypting and decompressing the bytes at
\* address a of a buffer yields.
ContentAt(buf, a) ==
    IF \E r \in buf : r.pos = a.off /\ r.addr.len = a.len /\ r.addr.base = NoChunk
    THEN (CHOOSE r \in buf : r.pos = a.off /\ r.addr.len = a.len /\ r.addr.base = NoChunk).fp
    ELSE Garbage

Init ==
    /\ fpIndex = [c \in Chunks |-> NoAddr]
    /\ sfIndex = [f \in Features |-> NoChunk]
    /\ deltaIndex = [c \in Chunks |-> {}]
    /\ localTmp = [c \in Chunks |-> NoChunk]
    /\ skipMap = [c \in Chunks |-> {}]
    /\ localMap = {}
    /\ file = [k \in Cids |-> NoFile]
    /\ queue = <<>> /\ writing = <<>>
    /\ inBase = EmptyContainer(0) /\ inDelta = EmptyContainer(0)
    /\ nextCid = 1
    /\ cache = <<>> /\ ocall = {}
    /\ phase = "idle" /\ session = NoSession /\ batch = NoBatch /\ backup = 0
    /\ hot = EmptyContainer(0) /\ cold = [k \in Cids |-> {}]
    /\ work = NoWork /\ walk = NoWalk /\ merges = {}
    /\ final = {} /\ broken = 0 /\ staleUse = FALSE
    /\ sessions = 0 /\ nbatches = 0
=============================================================================
