------------------------------ MODULE TopKIndex ------------------------------
(* Deduplication with the DEBE index type: the count-min sketch and the    *)
(* top-k heap inside the enclave, the fingerprint index outside, what a    *)
(* shutdown writes, what a kill leaves, and what a start reads back.       *)
(* Frequency-aware deduplication, sealing and key handling are the same    *)
(* code in the other index types.  One session uploads at a time, and the  *)
(* writer thread, which ShieldReduce models, stores a container at once.   *)
EXTENDS Naturals, Sequences, FiniteSetsExt, EntryHeap

CONSTANTS
  Chunks,       \* chunks, also standing for their hashes
  Batches,      \* the batches a client may send, sequences of chunks
  Depth, Width, \* rows and columns of the sketch
  Column,       \* row -> chunk -> the column it counts in
  TopK,         \* topThreshold_
  ContainerMax, \* chunks per container
  MaxBatches,   \* bound on the batches of a behaviour
  MaxUploads,   \* bound on the uploads
  MaxStarts,    \* bound on the starts of the server
  MaxKills      \* bound on the kills

ASSUME TopKAssumption ==
  /\ Batches \subseteq Seq(Chunks)
  /\ Depth \in Nat \ {0} /\ Width \in Nat \ {0}
  /\ Column \in [1..Depth -> [Chunks -> 1..Width]]
  /\ TopK \in Nat \ {0, 1}
  /\ ContainerMax \in Nat \ {0}

VARIABLES
  pc,           \* where the server process is
  key,          \* enclaveKey_ and indexQueryKey_, named after the start that drew them
  sketch,       \* cmSketch_
  heap,         \* insideDedupIndex_
  outIndex,     \* fp2ChunkDB: <<chunk, key of the entry>> -> address
  conTimes,     \* con_times
  cur,          \* the session's open container, [name, body]
  recipe,       \* chunks of the session so far
  disk,         \* container files: name -> sequence of [chunk, key]
  recipes,      \* finished recipe files
  sealedSketch, \* the sketch file, a sequence of rows
  sealedHeap,   \* the heap file, a sequence of <<chunk, item>>
  sealedKey,    \* the key file, 0 when there is none
  db,           \* the file of fp2ChunkDB
  batches, uploads, starts, kills, \* bounded counters
  torn,         \* history: a kill left a sketch file short of rows beside a heap file
  warm          \* history: this process started with the heap of an earlier one

enclaveVars == <<key, sketch, heap>>
sessionVars == <<conTimes, cur, recipe>>
storeVars == <<disk, recipes>>
sealedVars == <<sealedSketch, sealedHeap, sealedKey, db>>
history == <<batches, uploads, starts, kills, torn, warm>>
vars == <<pc, enclaveVars, outIndex, sessionVars, storeVars, sealedVars, history>>

ZeroRow == [w \in 1..Width |-> 0]

NoSketch == [d \in 1..Depth |-> ZeroRow]

NoContainer == [name |-> 0, body |-> <<>>]

Init ==
  /\ pc = "down"
  /\ key = 0 /\ sketch = NoSketch /\ heap = EmptyHeap
  /\ outIndex = <<>>
  /\ conTimes = 1 /\ cur = NoContainer /\ recipe = <<>>
  /\ disk = <<>> /\ recipes = {}
  /\ sealedSketch = <<>> /\ sealedHeap = <<>> /\ sealedKey = 0 /\ db = <<>>
  /\ batches = 0 /\ uploads = 0 /\ starts = 0 /\ kills = 0
  /\ torn = FALSE /\ warm = FALSE

----------------------------------------------------------------------------
(* EcallCMSketch. *)

\* The sketch after it has counted the chunks of s.
Counted(sk, s) ==
  [d \in 1..Depth |-> [w \in 1..Width |->
     sk[d][w] + Cardinality({i \in DOMAIN s : Column[d][s[i]] = w})]]

Estimate(sk, c) == Min({sk[d][Column[d][c]] : d \in 1..Depth})

----------------------------------------------------------------------------
(* Start and shutdown. *)

\* The memory of the enclave, and that of the process, are gone.
EnclaveGone == key' = 0 /\ sketch' = NoSketch /\ heap' = EmptyHeap

ProcessGone == outIndex' = <<>> /\ conTimes' = 1 /\ cur' = NoContainer /\ recipe' = <<>>

\* Mutant: the counters stay at zero.
LoadSketchNot(rows) == NoSketch

\* Rows the file does not hold keep their zeros.
LoadSketch(rows) == [d \in 1..Depth |-> IF d \in DOMAIN rows THEN rows[d] ELSE ZeroRow]

\* Items come back in the order of the heap, each with its old position;
\* without a sketch file the heap file is not looked at.
LoadHeap(rows, items) ==
  IF rows = <<>> THEN EmptyHeap
  ELSE [at |-> [i \in DOMAIN items |-> items[i][1]],
        index |-> [c \in {items[i][1] : i \in DOMAIN items} |->
                     items[CHOOSE i \in DOMAIN items : items[i][1] = c][2]]]

\* main: the database is opened, the enclave takes the keys of the key file
\* or draws new ones, the upload object reads its sealed files, and the
\* container counter starts again.
Start ==
  /\ pc = "down" /\ starts < MaxStarts
  /\ pc' = "idle"
  /\ starts' = starts + 1
  /\ outIndex' = db
  /\ key' = IF sealedKey = 0 THEN starts' ELSE sealedKey
  /\ sketch' = LoadSketch(sealedSketch)
  /\ heap' = LoadHeap(sealedSketch, sealedHeap)
  /\ warm' = (heap' # EmptyHeap)
  /\ UNCHANGED <<sessionVars, storeVars, sealedVars, batches, uploads, kills, torn>>

\* The interrupt handler has joined the sessions and deletes the upload
\* object; PersistDedupIndex truncates the sketch file.
CtrlC ==
  /\ pc = "idle"
  /\ pc' = "sketch"
  /\ sealedSketch' = <<>>
  /\ UNCHANGED <<enclaveVars, outIndex, sessionVars, storeVars, sealedHeap, sealedKey, db, history>>

WriteSketchRow ==
  /\ pc = "sketch" /\ Len(sealedSketch) < Depth
  /\ sealedSketch' = Append(sealedSketch, sketch[Len(sealedSketch) + 1])
  /\ UNCHANGED <<pc, enclaveVars, outIndex, sessionVars, storeVars, sealedHeap, sealedKey, db, history>>

OpenHeapFile ==
  /\ pc = "sketch" /\ Len(sealedSketch) = Depth
  /\ pc' = "heap"
  /\ sealedHeap' = <<>>
  /\ UNCHANGED <<enclaveVars, outIndex, sessionVars, storeVars, sealedSketch, sealedKey, db, history>>

WriteHeapFile ==
  /\ pc = "heap"
  /\ pc' = "sealed"
  /\ sealedHeap' = [i \in DOMAIN heap.at |-> <<heap.at[i], heap.index[heap.at[i]]>>]
  /\ UNCHANGED <<enclaveVars, outIndex, sessionVars, storeVars, sealedSketch, sealedKey, db, history>>

\* sgx_destroy_enclave comes first, so the ecall that would write the key
\* file enters no enclave and returns an error nobody looks at.
DestroyEnclave ==
  /\ pc = "sealed"
  /\ pc' = "destroyed"
  /\ EnclaveGone
  /\ UNCHANGED <<outIndex, sessionVars, storeVars, sealedVars, history>>

\* The destructor of the database truncates its file ...
OpenDB ==
  /\ pc = "destroyed"
  /\ pc' = "saving"
  /\ db' = <<>>
  /\ UNCHANGED <<enclaveVars, outIndex, sessionVars, storeVars, sealedSketch, sealedHeap, sealedKey, history>>

\* ... and writes every entry.
SaveDB ==
  /\ pc = "saving"
  /\ pc' = "down"
  /\ db' = outIndex
  /\ ProcessGone
  /\ UNCHANGED <<enclaveVars, storeVars, sealedSketch, sealedHeap, sealedKey, history>>

\* The process dies: a kill, or the exit(EXIT_FAILURE) of any thread.  A
\* database being written keeps the entries already in its file.
Kill ==
  /\ pc # "down" /\ kills < MaxKills
  /\ pc' = "down"
  /\ kills' = kills + 1
  /\ torn' = (torn \/ (pc = "sketch" /\ Len(sealedSketch) < Depth /\ sealedHeap # <<>>))
  /\ IF pc = "saving"
     THEN \E S \in SUBSET DOMAIN outIndex : db' = Restrict(outIndex, S)
     ELSE db' = db
  /\ EnclaveGone /\ ProcessGone
  /\ UNCHANGED <<storeVars, sealedSketch, sealedHeap, sealedKey, batches, uploads, starts, warm>>

----------------------------------------------------------------------------
(* An upload. *)

\* InitUploadBuffer names the base and the delta container.
BeginUpload ==
  /\ pc = "idle" /\ uploads < MaxUploads
  /\ pc' = "upload"
  /\ uploads' = uploads + 1
  /\ cur' = [name |-> conTimes, body |-> <<>>]
  /\ conTimes' = conTimes + 2
  /\ recipe' = <<>>
  /\ UNCHANGED <<enclaveVars, outIndex, storeVars, sealedVars, batches, starts, kills, torn, warm>>

\* The file of a container, written over a file of that name.
Written(files, con) ==
  [n \in DOMAIN files \cup {con.name} |-> IF n = con.name THEN con.body ELSE files[n]]

\* Mutant: the address is made before the container is changed.
SaveChunkOldName(st, c) ==
  LET full == Len(st.cur.body) = ContainerMax
      open == IF full THEN [name |-> st.conTimes, body |-> <<>>] ELSE st.cur
  IN  [cur |-> [open EXCEPT !.body = Append(@, [chunk |-> c, key |-> key])],
       conTimes |-> IF full THEN st.conTimes + 1 ELSE st.conTimes,
       disk |-> IF full THEN Written(st.disk, st.cur) ELSE st.disk,
       addr |-> [d \in DOMAIN st.addr \cup {c} |->
                   IF d = c THEN <<st.cur.name, Len(open.body) + 1>> ELSE st.addr[d]]]

\* SaveChunk: a full container goes out under its name and a new one is
\* named; the address is the place in the container the chunk went to.
SaveChunk(st, c) ==
  LET full == Len(st.cur.body) = ContainerMax
      open == IF full THEN [name |-> st.conTimes, body |-> <<>>] ELSE st.cur
  IN  [cur |-> [open EXCEPT !.body = Append(@, [chunk |-> c, key |-> key])],
       conTimes |-> IF full THEN st.conTimes + 1 ELSE st.conTimes,
       disk |-> IF full THEN Written(st.disk, st.cur) ELSE st.disk,
       addr |-> [d \in DOMAIN st.addr \cup {c} |->
                   IF d = c THEN <<open.name, Len(open.body) + 1>> ELSE st.addr[d]]]

\* The heap after chunk c was seen with frequency freq at address addr.
Refreshed(h, c, freq, addr) ==
  IF ~(Size(h) < TopK \/ freq >= TopEntry(h)) THEN h
  ELSE IF Contains(h, c) THEN Update(h, c, freq)
  ELSE Add(IF Size(h) = TopK THEN Pop(h) ELSE h, c, [freq |-> freq, idx |-> 0, addr |-> addr])

\* What the sketch says of each chunk of a batch when it has counted it.
Freqs(b) == [i \in DOMAIN b |-> Estimate(Counted(sketch, SubSeq(b, 1, i)), b[i])]

\* The positions the batch's local index points to, and their last repetition.
FirstSeen(b) == {i \in DOMAIN b : \A j \in 1..(i - 1) : b[j] # b[i]}

LastSeen(b, i) == Max({j \in DOMAIN b : b[j] = b[i]})

\* DUPLICATE by the heap, and UNIQUE for heap and outside index.
MinFreq == IF Size(heap) = TopK THEN TopEntry(heap) ELSE 0

InHeap(b) == {i \in FirstSeen(b) : ~(Freqs(b)[i] < MinFreq) /\ Contains(heap, b[i])}

Unique(b) == {i \in FirstSeen(b) \ InHeap(b) : <<b[i], key>> \notin DOMAIN outIndex}

\* The unique chunks of a batch are saved one after the other.
Stored(b) ==
  LET st[i \in 0..Len(b)] ==
        IF i = 0 THEN [cur |-> cur, conTimes |-> conTimes, disk |-> disk, addr |-> <<>>]
        ELSE IF i \in Unique(b) THEN SaveChunk(st[i - 1], b[i]) ELSE st[i - 1]
  IN  st[Len(b)]

\* The address of the chunk at a position the local index points to.
AddrOf(b, i) ==
  IF i \in InHeap(b) THEN heap.index[b[i]].addr
  ELSE IF i \in Unique(b) THEN Stored(b).addr[b[i]] ELSE outIndex[<<b[i], key>>]

\* The heap takes each chunk of the batch once, with its last frequency.
HeapAfter(b) ==
  LET h[i \in 0..Len(b)] ==
        IF i = 0 THEN heap
        ELSE IF i \in FirstSeen(b) THEN Refreshed(h[i - 1], b[i], Freqs(b)[LastSeen(b, i)], AddrOf(b, i))
        ELSE h[i - 1]
  IN  h[Len(b)]

\* ProcessOneBatch, then Ocall_UpdateOutIndex.
ProcessOneBatch(b) ==
  /\ pc = "upload" /\ batches < MaxBatches
  /\ batches' = batches + 1
  /\ sketch' = Counted(sketch, b)
  /\ heap' = HeapAfter(b)
  /\ cur' = Stored(b).cur /\ conTimes' = Stored(b).conTimes /\ disk' = Stored(b).disk
  /\ outIndex' = [e \in DOMAIN outIndex \cup {<<b[i], key>> : i \in Unique(b)} |->
                    IF e \in DOMAIN outIndex THEN outIndex[e] ELSE Stored(b).addr[e[1]]]
  /\ recipe' = recipe \o b
  /\ UNCHANGED <<pc, key, recipes, sealedVars, uploads, starts, kills, torn, warm>>

\* ProcessTailBatch and the end of the session: the open container goes out
\* if it holds anything, the recipe file is closed.
EndUpload ==
  /\ pc = "upload"
  /\ pc' = "idle"
  /\ disk' = IF cur.body = <<>> THEN disk ELSE Written(disk, cur)
  /\ recipes' = recipes \cup {[key |-> key, start |-> starts, chunks |-> recipe]}
  /\ cur' = NoContainer /\ recipe' = <<>>
  /\ UNCHANGED <<enclaveVars, outIndex, conTimes, sealedVars, history>>

Next ==
  \/ Start \/ CtrlC \/ WriteSketchRow \/ OpenHeapFile \/ WriteHeapFile
  \/ DestroyEnclave \/ OpenDB \/ SaveDB \/ Kill
  \/ BeginUpload \/ EndUpload
  \/ \E b \in Batches : ProcessOneBatch(b)

Spec == Init /\ [][Next]_vars

----------------------------------------------------------------------------

Running == pc \in {"idle", "upload"}

\* The heap is what its callers take it for, whatever sequence of additions,
\* evictions, updates and reloads made it: the vector and the map hold the
\* same keys, every item knows its position, no parent is above its child,
\* and the limit is kept (EcallEntryHeap).
HeapSound ==
  /\ Size(heap) <= TopK
  /\ DOMAIN heap.index = {heap.at[i] : i \in DOMAIN heap.at}
  /\ \A i \in DOMAIN heap.at : heap.index[heap.at[i]].idx = i
  /\ \A i \in 2..Size(heap) : Freq(heap, ParentIdx(i)) <= Freq(heap, i)

\* A chunk whose estimate is below the least frequency in the heap "must not
\* exist in the heap" (ProcessOneBatch): no frequency in the heap is above
\* the estimate of its chunk.  The two come from two files after a start; of
\* all kills, only one inside the writing of the sketch can break this.
HeapBelowSketch ==
  ~torn => \A c \in DOMAIN heap.index : heap.index[c].freq <= Estimate(sketch, c)

\* The bytes at an address, in a file or in the open container.
Holds(a, c) ==
  \/ a[1] \in DOMAIN disk /\ a[2] \in DOMAIN disk[a[1]] /\ disk[a[1]][a[2]] = [chunk |-> c, key |-> key]
  \/ cur.name = a[1] /\ a[2] \in DOMAIN cur.body /\ cur.body[a[2]] = [chunk |-> c, key |-> key]

\* The address the outside index gives for c holds c.
Found(c) == <<c, key>> \in DOMAIN outIndex /\ Holds(outIndex[<<c, key>>], c)

Copies(c) ==
  {a \in (DOMAIN disk) \X (1..ContainerMax) :
      a[2] \in DOMAIN disk[a[1]] /\ disk[a[1]][a[2]] = [chunk |-> c, key |-> key]}
    \cup {<<cur.name, i>> : i \in {j \in DOMAIN cur.body : cur.body[j] = [chunk |-> c, key |-> key]}}

\* In a process that did not start with an earlier heap, every chunk it took
\* in, found in the heap, outside or nowhere, is stored exactly once, where
\* the outside index says; the heap agrees with that index.
FoundOnce ==
  Running /\ ~warm =>
    /\ \A r \in recipes : r.start = starts =>
         \A i \in DOMAIN r.chunks : Found(r.chunks[i]) /\ Cardinality(Copies(r.chunks[i])) = 1
    /\ \A i \in DOMAIN recipe : Found(recipe[i]) /\ Cardinality(Copies(recipe[i])) = 1
    /\ \A c \in DOMAIN heap.index : Found(c) /\ heap.index[c].addr = outIndex[<<c, key>>]

\* A running server can find every chunk of every file it has stored, those
\* of the time before an orderly shutdown and start included.
FilesSurvive ==
  pc = "idle" => \A r \in recipes : \A i \in DOMAIN r.chunks : Found(r.chunks[i])

=============================================================================
