---------------------------- MODULE OfflineUpdate ----------------------------
(***************************************************************************)
(* The offline path of an OFFLINE session: Ocall_Localrevise collects the  *)
(* deferred pairs, Easy_update turns every old base and its deltas into    *)
(* deltas of the new base (written to fresh "hot" delta containers),       *)
(* Update_cold_container squeezes the moved records out of the containers  *)
(* they came from, and MergeContainer joins small base containers.  All of *)
(* it runs on the session thread after the receiver and the writer ended.  *)
(***************************************************************************)
EXTENDS ShieldStore

\* The pairs of Ocall_Localrevise: the newest similar base replaces the old
\* base and every base that was deferred on the same old base before it.
RevisedPairs ==
    LET olds == {o \in Chunks : localTmp[o] # NoChunk}
    IN  {<<o, localTmp[o]>> : o \in olds}
          \cup UNION {{<<p, localTmp[o]>> : p \in skipMap[o]} : o \in olds}

\* Mutant: the deferred pairs stay for the next pass.
KeepLocal == UNCHANGED <<localTmp, skipMap>>

\* Ocall_Localrevise clears _local_tmp_map and skipMap.
ClearLocal ==
    /\ localTmp' = [o \in Chunks |-> NoChunk]
    /\ skipMap' = [o \in Chunks |-> {}]

\* Mutant: the offline pass runs whatever the index type.
AlwaysOffline == TRUE

\* Offline_Flag.
OfflineFlag == IndexType # "ONLY_FORWORD"

\* ProcessOff: Ocall_Localrevise, then OFFLineBackward::Init names a hot
\* container.
StartOffline ==
    /\ phase = "drain" /\ queue = <<>> /\ writing = <<>> /\ session.op = "offline"
    /\ OfflineFlag /\ nextCid <= MaxCid
    /\ phase' = "pairs"
    /\ localMap' = localMap \cup RevisedPairs
    /\ ClearLocal
    /\ hot' = EmptyContainer(nextCid)
    /\ nextCid' = nextCid + 1
    /\ UNCHANGED <<indexVars, file, writerVars, inBase, inDelta, bufferVars, session, batch, backup,
                   cold, work, walk, merges, historyVars>>

\* The same with Offline_Flag unset: CleanLocal_Index drops the pairs.
CleanLocalIndex ==
    /\ phase = "drain" /\ queue = <<>> /\ writing = <<>> /\ session.op = "offline"
    /\ ~OfflineFlag
    /\ phase' = "idle" /\ session' = NoSession
    /\ localMap' = {}
    /\ ClearLocal
    /\ nextCid' = nextCid + 1
    /\ backup' = 0
    /\ UNCHANGED <<indexVars, file, writerVars, inBase, inDelta, bufferVars, batch,
                   offlineVars, historyVars>>

-----------------------------------------------------------------------------
(* Easy_update, one pair at a time.                                        *)

Keys(c) == {SFs[c][i] : i \in DOMAIN SFs[c]}
\* Mutant: the old base stays in the super-feature index.
EraseNone(sf, c) == sf

\* Ocall_OFFline_updateIndex(0): erase the keys of the old base.
EraseSF(sf, c) == [f \in Features |-> IF f \in Keys(c) THEN NoChunk ELSE sf[f]]
\* Ocall_OFFline_updateIndex(1): the new base replaces every value.
ReplaceSF(sf, c) == [f \in Features |-> IF f \in Keys(c) THEN c ELSE sf[f]]

\* Mutant: the deltas of the old base stay listed under it.
KeepDeltas(o) == deltaIndex

\* QueryDeltaIndex takes the deltas of a base out of the delta index.
TakeDeltas(o) == [deltaIndex EXCEPT ![o] = {}]

\* GreeyOfflineSize (GREEDY_THRESHOLD is 0) >= _offlineCurrBackup_size, a
\* uint64_t: only for 0.
Greedy == backup = 0
BaseFileOf(c) == file[fpIndex[c].cid]
HasBaseFile(c) == HasFile(fpIndex[c].cid, "base")

\* The greedy branch: new super-features, the delta list is dropped.
SkipGreedy(o, n) ==
    /\ phase = "pairs" /\ <<o, n>> \in localMap /\ Greedy
    /\ localMap' = localMap \ {<<o, n>>}
    /\ sfIndex' = ReplaceSF(EraseSF(sfIndex, o), n)
    /\ deltaIndex' = TakeDeltas(o)
    /\ UNCHANGED <<fpIndex, localTmp, skipMap, file, writerVars, enclaveVars, bufferVars, phase,
                   session, batch, backup, offlineVars, historyVars>>

\* Ocall_OneContainer cannot open the old base's container: next pair.
SkipOldMissing(o, n) ==
    /\ phase = "pairs" /\ <<o, n>> \in localMap /\ ~Greedy
    /\ ~HasBaseFile(o)
    /\ localMap' = localMap \ {<<o, n>>}
    /\ UNCHANGED <<indexVars, localTmp, skipMap, file, writerVars, enclaveVars, bufferVars, phase,
                   session, batch, backup, offlineVars, historyVars>>

\* Nor the new base's; the old base has left the super-feature index.
SkipNewMissing(o, n) ==
    /\ phase = "pairs" /\ <<o, n>> \in localMap /\ ~Greedy
    /\ HasBaseFile(o) /\ ~HasBaseFile(n)
    /\ localMap' = localMap \ {<<o, n>>}
    /\ ocall' = Load(BaseFileOf(o))
    /\ sfIndex' = EraseSF(sfIndex, o)
    /\ UNCHANGED <<fpIndex, deltaIndex, localTmp, skipMap, file, writerVars, enclaveVars, cache,
                   phase, session, batch, backup, offlineVars, historyVars>>

\* Both containers are loaded; QueryDeltaIndex takes the deltas of the old
\* base out of the delta index.
BeginPair(o, n) ==
    LET oldbuf == Load(BaseFileOf(o))
        newbuf == BaseFileOf(n).recs \cup {r \in oldbuf : r.pos >= BaseFileOf(n).size}
    IN  /\ phase = "pairs" /\ <<o, n>> \in localMap /\ ~Greedy
        /\ HasBaseFile(o) /\ HasBaseFile(n)
        /\ phase' = "deltas"
        /\ localMap' = localMap \ {<<o, n>>}
        /\ ocall' = newbuf
        /\ sfIndex' = ReplaceSF(EraseSF(sfIndex, o), n)
        /\ deltaIndex' = TakeDeltas(o)
        /\ work' = [old |-> o, new |-> n, oldc |-> ContentAt(oldbuf, fpIndex[o]),
                    newc |-> ContentAt(newbuf, fpIndex[n]), deltas |-> deltaIndex[o], flag |-> TRUE]
        /\ UNCHANGED <<fpIndex, localTmp, skipMap, file, writerVars, enclaveVars, cache, session,
                       batch, backup, hot, cold, walk, merges, historyVars>>

\* Mutant: hot containers are saved among the base containers.
HotFileAsBase == [kind |-> "base", recs |-> hot.recs, size |-> hot.size]

\* Ocall_SavehotContainer writes to Delta-Containers/.
HotFile == [kind |-> "delta", recs |-> hot.recs, size |-> hot.size]

\* Mutant: the mark leaves out the header of the record.
ColdMarkBody(a) == <<a.off, a.len>>

\* Ocall_ColdInsert: where the record at address a was, header included.
ColdMark(a) == <<a.off, a.len + Hdr>>

\* InsertHot_container for a delta of length len against work.new, and the
\* calls that follow it: UpdateIndexStore, UpdateDeltaIndex, ColdInsert.
MoveToHot(c, len, src) ==
    LET fits == Hdr + len + hot.size < MaxContainer
        h == IF fits THEN hot ELSE EmptyContainer(nextCid)
        was == fpIndex[c]
        a == [cid |-> h.cid, off |-> h.size, len |-> len, base |-> work.new]
    IN  /\ IF fits THEN UNCHANGED <<file, nextCid>>
           ELSE /\ nextCid <= MaxCid
                /\ file' = [file EXCEPT ![hot.cid] = HotFile]
                /\ nextCid' = nextCid + 1
        /\ hot' = [h EXCEPT !.recs = @ \cup {[pos |-> h.size, fp |-> c, addr |-> a, src |-> src]},
                            !.size = @ + Hdr + len]
        /\ fpIndex' = [fpIndex EXCEPT ![c] = a]
        /\ deltaIndex' = [deltaIndex EXCEPT ![work.new] = @ \cup {c}]
        /\ cold' = [cold EXCEPT ![was.cid] = @ \cup {ColdMark(was)}]

HasDeltaFile(d) == HasFile(fpIndex[d].cid, "delta")

\* The record a delta's recipe entry points at, in the buffer just read.
RecordAt(buf, a) == {r \in buf : r.pos = a.off /\ r.addr.len = a.len}

\* Mutant: the delta is relabelled without being coded again.
RecodedNot(buf, a) == work.oldc

\* GetNew_deltachunk: decode against the old base, code against the new.
Recoded(buf, a) ==
    IF \E r \in RecordAt(buf, a) : r.src = work.oldc THEN work.newc ELSE Garbage

\* The size of what GetNew_deltachunk returns: of a chunk that was decoded
\* wrongly it may be anything.
RecodedLens(c, content) ==
    {DSize[c][work.new]} \cup (IF content = Garbage THEN {Size[c] + 1} ELSE {})

\* One delta of the old base; a delta larger than its chunk stays where it
\* is and keeps the old base a base chunk.
MoveDelta(d) ==
    LET buf == Load(file[fpIndex[d].cid])
        content == Recoded(buf, fpIndex[d])
    IN  /\ phase = "deltas" /\ d \in work.deltas /\ HasDeltaFile(d)
        /\ ocall' = buf
        /\ \E len \in RecodedLens(d, content) :
             IF len > Size[d]
             THEN /\ work' = [work EXCEPT !.deltas = @ \ {d}, !.flag = FALSE]
                  /\ UNCHANGED <<file, nextCid, hot, fpIndex, deltaIndex, cold, backup>>
             ELSE /\ work' = [work EXCEPT !.deltas = @ \ {d}]
                  /\ backup' = backup - fpIndex[d].len + len
                  /\ MoveToHot(d, len, content)
        /\ UNCHANGED <<sfIndex, localVars, writerVars, inBase, inDelta, cache, phase, session, batch,
                       walk, merges, historyVars>>

\* Ocall_OneDeltaContainer cannot open the file and says so only on stderr:
\* the caller goes on with the bytes of an earlier container.  What happens
\* from there on is not modelled.
ReadStaleDelta(d) ==
    /\ phase = "deltas" /\ d \in work.deltas /\ ~HasDeltaFile(d)
    /\ phase' = "stale"
    /\ UNCHANGED <<indexVars, localVars, file, writerVars, enclaveVars, bufferVars, session, batch,
                   backup, offlineVars, historyVars>>

\* Mutant: a delta that stayed behind does not keep the old base.
BaseMovesAnyway(len) == len <= Size[work.old]

\* delta_flag after the old base was coded against the new one.
BaseMoves(len) == len <= Size[work.old] /\ work.flag

\* After its deltas, the old base itself.  The size is accounted for even
\* when an earlier delta keeps the old base from moving.
MoveBase ==
    LET o == work.old
        len == DSize[o][work.new]
    IN  /\ phase = "deltas" /\ work.deltas = {}
        /\ phase' = "pairs"
        /\ work' = NoWork
        /\ backup' = IF len > Size[o] THEN backup ELSE backup - fpIndex[o].len + len
        /\ IF BaseMoves(len)
           THEN MoveToHot(o, len, IF work.oldc = o THEN work.newc ELSE Garbage)
           ELSE UNCHANGED <<file, nextCid, hot, fpIndex, deltaIndex, cold>>
        /\ UNCHANGED <<sfIndex, localVars, writerVars, inBase, inDelta, bufferVars, session, batch,
                       walk, merges, historyVars>>

\* All pairs done: Ocall_SavehotContainer.
SaveHot ==
    /\ phase = "pairs" /\ localMap = {}
    /\ phase' = "cold"
    /\ file' = IF hot.size = 0 THEN file
               ELSE [file EXCEPT ![hot.cid] = HotFile]
    /\ hot' = EmptyContainer(0)
    /\ UNCHANGED <<indexVars, localVars, writerVars, enclaveVars, bufferVars, session, batch, backup,
                   cold, work, walk, merges, historyVars>>

-----------------------------------------------------------------------------
(* Update_cold_container: the loop over one container, record by record.   *)

BeginCold(k) ==
    /\ phase = "cold" /\ cold[k] # {} /\ file[k].kind # "none"
    /\ phase' = "walk"
    /\ ocall' = Load(file[k])
    /\ walk' = [NoWalk EXCEPT !.cid = k, !.buf = ocall', !.size = file[k].size, !.rest = cold[k]]
    /\ cold' = [cold EXCEPT ![k] = {}]
    /\ UNCHANGED <<indexVars, localVars, file, writerVars, enclaveVars, cache, session, batch, backup,
                   hot, work, merges, historyVars>>

\* The next cold location: the one with the lowest offset.
IsNextCold(q) == q \in walk.rest /\ \A s \in walk.rest : q[1] <= s[1]

\* Mutants: the entry keeps its offset, or loses its base.
LoweredNot(a) == a
LoweredAsBase(a) == [a EXCEPT !.off = @ - walk.coldset, !.base = NoChunk]

\* The recipe entry of a record that moves down by what was removed so far.
Lowered(a) == [a EXCEPT !.off = @ - walk.coldset]

\* while (saveset < ...) copy the record at saveset and update the
\* fingerprint index.
CopyRecord(r) ==
    LET a == Lowered(r.addr)
    IN  /\ phase = "walk" /\ r \in walk.buf /\ r.pos = walk.saveset
        /\ walk.rest = {} => walk.saveset < walk.size
        /\ \A q \in walk.rest : walk.saveset < q[1]
        /\ walk' = [walk EXCEPT !.recs = @ \cup {[r EXCEPT !.pos = walk.newset, !.addr = a]},
                                !.saveset = @ + Hdr + r.addr.len, !.newset = @ + Hdr + r.addr.len]
        /\ fpIndex' = [fpIndex EXCEPT ![r.fp] = a]
        /\ UNCHANGED <<sfIndex, deltaIndex, localVars, file, writerVars, enclaveVars, bufferVars, phase,
                       session, batch, backup, hot, cold, work, merges, historyVars>>

\* The record at a cold location is passed over.
DropRecord(q) ==
    /\ phase = "walk" /\ IsNextCold(q) /\ walk.saveset >= q[1]
    /\ walk' = [walk EXCEPT !.rest = @ \ {q}, !.coldset = @ + q[2], !.saveset = @ + q[2]]
    /\ UNCHANGED <<indexVars, localVars, file, writerVars, enclaveVars, bufferVars, phase,
                   session, batch, backup, hot, cold, work, merges, historyVars>>

\* Ocall_SaveColdContainer: the file of the same kind is rewritten.
EndCold ==
    /\ phase = "walk" /\ walk.rest = {} /\ walk.saveset >= walk.size
    /\ phase' = "cold"
    /\ file' = [file EXCEPT ![walk.cid].recs = walk.recs, ![walk.cid].size = walk.size - walk.coldset]
    /\ walk' = NoWalk
    /\ UNCHANGED <<indexVars, localVars, writerVars, enclaveVars, bufferVars, session, batch, backup,
                   hot, cold, work, merges, historyVars>>

-----------------------------------------------------------------------------
(* MergeContainer: neighbouring small base containers.                     *)

BaseCids == {k \in Cids : file[k].kind = "base"}
\* Base containers that follow each other in the order of their names.
Neighbours == {q \in BaseCids \X BaseCids :
                 q[1] < q[2] /\ \A k \in BaseCids : k <= q[1] \/ k >= q[2]}
Small(q) == file[q[1]].size + file[q[2]].size < MaxContainer - 1

\* Ocall_GetMergeContainer goes over the neighbours in order and takes a
\* small pair unless it took the one before: in a run of small pairs that
\* begins at container k, every other one, starting with the first.
MergePairs ==
    {q \in Neighbours :
        \E k \in BaseCids :
            LET run == {t \in Neighbours : k <= t[1] /\ t[2] <= q[2]}
            IN  /\ \A t \in run : Small(t)
                /\ \A t \in Neighbours : t[2] = k => ~Small(t)
                /\ Cardinality(run) % 2 = 1}

GetMergeContainer ==
    /\ phase = "cold" /\ \A k \in Cids : cold[k] = {}
    /\ phase' = "merge"
    /\ merges' = MergePairs
    /\ UNCHANGED <<indexVars, localVars, file, writerVars, enclaveVars, bufferVars, session, batch,
                   backup, hot, cold, work, walk, historyVars>>

\* Mutant: the entry keeps the name of the second container.
ShiftedSameName(r, k, by) ==
    [r EXCEPT !.pos = @ + by, !.addr = [r.addr EXCEPT !.off = @ + by]]

\* A record of the second container, appended to the first.
Shifted(r, k, by) ==
    [r EXCEPT !.pos = @ + by, !.addr = [r.addr EXCEPT !.cid = k, !.off = @ + by]]

\* Ocall_GetMergePair, the loop of MergeContainer and Ocall_MergeContent
\* for the first pair q of baseMergePair.
MergePair(q) ==
    LET by == file[q[1]].size
        moved(c) == {r \in file[q[2]].recs : r.fp = c}
    IN  /\ phase = "merge" /\ q \in merges /\ \A s \in merges : q[1] <= s[1]
        /\ merges' = merges \ {q}
        /\ file' = [file EXCEPT ![q[1]].recs = @ \cup {Shifted(r, q[1], by) : r \in file[q[2]].recs},
                                ![q[1]].size = @ + file[q[2]].size,
                                ![q[2]] = NoFile]
        /\ fpIndex' = [c \in Chunks |->
                         IF moved(c) = {} THEN fpIndex[c]
                         ELSE Shifted(CHOOSE r \in moved(c) : TRUE, q[1], by).addr]
        /\ UNCHANGED <<sfIndex, deltaIndex, localVars, writerVars, enclaveVars, bufferVars, phase,
                       session, batch, backup, hot, cold, work, walk, historyVars>>

\* The OFFLINE session ends like an UPLOAD session.
EndOffline ==
    /\ phase = "merge" /\ merges = {}
    /\ phase' = "idle"
    /\ session' = NoSession
    /\ backup' = 0
    /\ UNCHANGED <<indexVars, localVars, file, writerVars, enclaveVars, bufferVars, batch,
                   offlineVars, historyVars>>

OfflinePair(o, n) == SkipGreedy(o, n) \/ SkipOldMissing(o, n) \/ SkipNewMissing(o, n) \/ BeginPair(o, n)
=============================================================================
