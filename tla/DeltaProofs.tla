----------------------------- MODULE DeltaProofs -----------------------------
(***************************************************************************)
(* Bases and deltas: a base is never itself a delta, however bases are     *)
(* replaced offline, the offline pass opens the containers it means to,    *)
(* re-coding loses nothing, and so every finalised chunk can be restored.  *)
(***************************************************************************)
EXTENDS PlacementProofs

-----------------------------------------------------------------------------
(* The invariant behind NoChain.                                           *)

\* Offered as a base of new deltas; part of a pair of the offline pass.
Offered(b) == \E f \in Features : sfIndex[f] = b
InPair(b) == \E q \in AllPairs : q[1] = b \/ q[2] = b

\* A base leaves the super-feature index by its own keys.
SimilarKeyed ==
    \A f \in Features : sfIndex[f] # NoChunk => IsBase(sfIndex[f]) /\ f \in Keys(sfIndex[f])

\* The deltas of a base that is offered or in a pair are all listed.
DeltasListed ==
    \A c \in Chunks : \A b \in Chunks :
        fpIndex[c].base = b /\ (Offered(b) \/ InPair(b)) => c \in deltaIndex[b]

\* The chunks that were deferred on an old base: full chunks that are not
\* offered, each deferred on one base, the newest kept apart.
Group(o) == skipMap[o] \cup ({localTmp[o]} \ {NoChunk})
GroupsApart ==
    \A o \in Chunks :
        /\ Group(o) # {} => localTmp[o] # NoChunk /\ Offered(o)
        /\ localTmp[o] \notin skipMap[o]
        /\ \A x \in Group(o) : IsBase(x) /\ ~Offered(x)
        /\ \A p \in Chunks : p # o => Group(o) \cap Group(p) = {}

\* The pairs of the running pass.
LocalFlat ==
    \A q \in localMap :
        /\ IsBase(q[1]) /\ IsBase(q[2])
        /\ \A s \in localMap : s[1] # q[2] /\ (s[1] = q[1] => s = q)

\* Deferred chunks wait for the pass, pairs only exist during one.
PairPhases ==
    /\ phase \notin {"pairs", "deltas", "stale"} => localMap = {}
    /\ phase \in {"pairs", "deltas", "cold", "walk", "merge", "stale"} => \A o \in Chunks : Group(o) = {}
    /\ phase # "batch" => batch.todo = <<>>

\* What a batch means to use as a base is still offered when it does.
BatchBases ==
    /\ \A i \in 1 .. Len(batch.todo) : batch.todo[i].base # NoChunk => Offered(batch.todo[i].base)
    /\ \A i \in 1 .. Len(batch.done) :
          /\ batch.done[i].addr.base # NoChunk => Offered(batch.done[i].addr.base)
          /\ batch.done[i].old # NoChunk => Offered(batch.done[i].old) /\ batch.done[i].addr.base = NoChunk

\* The pair at hand: the old base is in nobody's way any more, and its
\* deltas are at hand unless one was refused.
PairInv ==
    phase = "deltas" =>
      /\ work.old # work.new /\ IsBase(work.old) /\ IsBase(work.new)
      /\ deltaIndex[work.old] = {} /\ ~Offered(work.old)
      /\ \A q \in localMap : q[1] # work.old /\ q[2] # work.old /\ q[1] # work.new
      /\ \A c \in Chunks : fpIndex[c].base = work.old => c \in work.deltas \/ work.flag = FALSE
      /\ \A d \in work.deltas : fpIndex[d].base = work.old

ChainInv ==
    /\ SimilarKeyed /\ DeltaIndexExact /\ DeltasListed /\ NoChain
    /\ GroupsApart /\ LocalFlat /\ PairPhases /\ BatchBases /\ PairInv

-----------------------------------------------------------------------------
(* What the invariant implies.                                             *)

LEMMA IndexFacts ==
  ASSUME TypeOK
  PROVE  /\ \A c \in Chunks : /\ c # NoChunk /\ fpIndex[c] \in Addr /\ fpIndex[c].base \in ChunkOrNone
                              /\ fpIndex[c].base # NoChunk => Indexed(c) /\ fpIndex[c].base \in Chunks
                              /\ localTmp[c] \in ChunkOrNone /\ skipMap[c] \subseteq Chunks
                              /\ deltaIndex[c] \subseteq Chunks /\ Group(c) \subseteq Chunks
         /\ \A f \in Features : sfIndex[f] \in ChunkOrNone
         /\ \A q \in localMap : q[1] \in Chunks /\ q[2] \in Chunks /\ q = <<q[1], q[2]>>
  <1>1. /\ fpIndex \in [Chunks -> Addr] /\ sfIndex \in [Features -> ChunkOrNone]
        /\ deltaIndex \in [Chunks -> SUBSET Chunks] /\ localTmp \in [Chunks -> ChunkOrNone]
        /\ skipMap \in [Chunks -> SUBSET Chunks] /\ localMap \in SUBSET (Chunks \X Chunks)
        BY DEF TypeOK, IndexTypes
  <1>2. \A c \in Chunks : fpIndex[c] \in Addr /\ fpIndex[c].base \in ChunkOrNone
        BY <1>1 DEF Addr
  <1>3. NoAddr.base = NoChunk
        BY DEF NoAddr
  <1>4. \A c \in Chunks : c # NoChunk
        BY ChunkAssumption
  <1>5. \A c \in Chunks : fpIndex[c].base # NoChunk => Indexed(c) /\ fpIndex[c].base \in Chunks
        BY <1>2, <1>3 DEF Indexed, ChunkOrNone
  <1>6. \A c \in Chunks : /\ localTmp[c] \in ChunkOrNone /\ skipMap[c] \subseteq Chunks
                          /\ deltaIndex[c] \subseteq Chunks
        BY <1>1
  <1>7. \A c \in Chunks : Group(c) \subseteq Chunks
        BY <1>6 DEF Group, ChunkOrNone
  <1> QED BY <1>1, <1>2, <1>4, <1>5, <1>6, <1>7

LEMMA PairCases ==
  ASSUME NEW q \in AllPairs
  PROVE  \/ q \in localMap
         \/ \E o \in Chunks : /\ localTmp[o] # NoChunk /\ q = <<q[1], q[2]>> /\ q[2] = localTmp[o]
                              /\ q[1] = o \/ q[1] \in skipMap[o]
  <1>1. CASE q \in RevisedPairs
    <2>1. \/ \E o \in Chunks : localTmp[o] # NoChunk /\ q = <<o, localTmp[o]>>
          \/ \E o \in Chunks : localTmp[o] # NoChunk /\ \E p \in skipMap[o] : q = <<p, localTmp[o]>>
          BY <1>1 DEF RevisedPairs
    <2> QED BY <2>1
  <1> QED BY <1>1 DEF AllPairs

LEMMA PairBases ==
  ASSUME TypeOK, ChainInv, NEW q \in AllPairs
  PROVE  q[1] \in Chunks /\ q[2] \in Chunks /\ IsBase(q[1]) /\ IsBase(q[2])
  <1>1. CASE q \in localMap
        BY <1>1, IndexFacts DEF ChainInv, LocalFlat
  <1>2. ASSUME NEW o \in Chunks, localTmp[o] # NoChunk, q[2] = localTmp[o],
               q[1] = o \/ q[1] \in skipMap[o]
        PROVE  q[1] \in Chunks /\ q[2] \in Chunks /\ IsBase(q[1]) /\ IsBase(q[2])
    <2>1. q[2] \in Group(o) /\ (q[1] \in skipMap[o] => q[1] \in Group(o))
          BY <1>2 DEF Group
    <2>2. Group(o) \subseteq Chunks /\ (\A x \in Group(o) : IsBase(x)) /\ Offered(o)
          BY <2>1, IndexFacts DEF ChainInv, GroupsApart
    <2>3. IsBase(o)
          BY <2>2, IndexFacts DEF Offered, ChainInv, SimilarKeyed
    <2> QED BY <1>2, <2>1, <2>2, <2>3
  <1> QED BY <1>1, <1>2, PairCases

LEMMA ChainSimilar ==
  ASSUME ChainInv
  PROVE  SimilarAreBases
  BY DEF ChainInv, SimilarKeyed, SimilarAreBases

\* The deferred pairs form one level: an old base is offered, what was
\* deferred on it is not.
LEMMA ChainPairsFlat ==
  ASSUME TypeOK, ChainInv
  PROVE  PairsFlat
  <1>1. ASSUME NEW q \in AllPairs, NEW s \in AllPairs
        PROVE  s[1] # q[2] /\ (s[1] = q[1] => s = q)
    <2>1. CASE \E o \in Chunks : Group(o) # {}
      <3>1. localMap = {}
            BY <2>1 DEF ChainInv, PairPhases
      <3>2. PICK o \in Chunks : /\ localTmp[o] # NoChunk /\ q = <<q[1], q[2]>> /\ q[2] = localTmp[o]
                                /\ q[1] = o \/ q[1] \in skipMap[o]
            BY <3>1, PairCases
      <3>3. PICK p \in Chunks : /\ localTmp[p] # NoChunk /\ s = <<s[1], s[2]>> /\ s[2] = localTmp[p]
                                /\ s[1] = p \/ s[1] \in skipMap[p]
            BY <3>1, PairCases
      <3>4. /\ localTmp[o] \in Group(o) /\ skipMap[o] \subseteq Group(o)
            /\ localTmp[p] \in Group(p) /\ skipMap[p] \subseteq Group(p)
            BY <3>2, <3>3 DEF Group
      <3>5. /\ Offered(o) /\ Offered(p) /\ localTmp[o] \notin skipMap[o]
            /\ \A x \in Group(o) : ~Offered(x)
            /\ \A x \in Group(p) : ~Offered(x)
            /\ p # o => Group(o) \cap Group(p) = {}
            BY <3>4 DEF ChainInv, GroupsApart
      <3>6. s[1] # q[2]
            BY <3>2, <3>3, <3>4, <3>5
      <3>7. s[1] = q[1] => s = q
            BY <3>2, <3>3, <3>4, <3>5
      <3> QED BY <3>6, <3>7
    <2>2. CASE \A o \in Chunks : Group(o) = {}
      <3>1. \A o \in Chunks : localTmp[o] = NoChunk
            BY <2>2 DEF Group
      <3>2. q \in localMap /\ s \in localMap
            BY <3>1, PairCases
      <3> QED BY <3>2 DEF ChainInv, LocalFlat
    <2> QED BY <2>1, <2>2
  <1> QED BY <1>1, PairBases DEF PairsFlat

LEMMA ChainTracked ==
  ASSUME TypeOK, ChainInv
  PROVE  DeltasTracked
  <1>1. ASSUME NEW c \in Chunks, fpIndex[c].base # NoChunk, Replaceable(fpIndex[c].base)
        PROVE  c \in deltaIndex[fpIndex[c].base]
    <2> DEFINE b == fpIndex[c].base
    <2>1. b \in Chunks
          BY <1>1, IndexFacts
    <2>2. Offered(b) \/ InPair(b)
      <3>1. CASE \E i \in DOMAIN batch.todo : batch.todo[i].base = b
        <4>1. DOMAIN batch.todo = 1 .. Len(batch.todo)
              BY BatchSeqs, LenProperties
        <4> QED BY <3>1, <4>1, <1>1 DEF ChainInv, BatchBases
      <3> QED BY <3>1, <1>1 DEF Replaceable, Offered, InPair
    <2> QED BY <2>1, <2>2 DEF ChainInv, DeltasListed
  <1> QED BY <1>1 DEF DeltasTracked

LEMMA ChainInit == Init => ChainInv
  <1> SUFFICES ASSUME Init PROVE ChainInv
      OBVIOUS
  <1>1. /\ (\A c \in Chunks : fpIndex[c] = NoAddr /\ deltaIndex[c] = {} /\ localTmp[c] = NoChunk
                              /\ skipMap[c] = {})
        /\ (\A f \in Features : sfIndex[f] = NoChunk)
        /\ localMap = {} /\ phase = "idle" /\ batch = NoBatch
        BY DEF Init
  <1>2. NoAddr.base = NoChunk /\ \A c \in Chunks : c # NoChunk
        BY ChunkAssumption DEF NoAddr
  <1>3. \A c \in Chunks : Group(c) = {}
        BY <1>1 DEF Group
  <1>4. batch.todo = <<>> /\ Len(batch.todo) = 0 /\ Len(batch.done) = 0
        BY <1>1, EmptySeq DEF NoBatch
  <1>5. SimilarKeyed /\ DeltaIndexExact /\ DeltasListed /\ NoChain
        BY <1>1, <1>2 DEF SimilarKeyed, DeltaIndexExact, DeltasListed, NoChain
  <1>6. GroupsApart /\ LocalFlat /\ PairPhases /\ BatchBases /\ PairInv
        BY <1>1, <1>3, <1>4 DEF GroupsApart, LocalFlat, PairPhases, BatchBases, PairInv
  <1> QED BY <1>5, <1>6 DEF ChainInv

-----------------------------------------------------------------------------
(* Steps that leave bases and deltas alone.                                *)

SameBases == \A c \in Chunks : fpIndex'[c].base = fpIndex[c].base /\ (Indexed(c)' <=> Indexed(c))

LEMMA ChainFrame ==
  ASSUME TypeOK, ChainInv, UNCHANGED <<sfIndex, deltaIndex, localTmp, skipMap, localMap>>, SameBases,
         PairPhases', BatchBases', PairInv'
  PROVE  ChainInv'
  <1>1. \A c \in Chunks : IsBase(c)' <=> IsBase(c)
        BY DEF SameBases, IsBase
  <1>2. \A b : Offered(b)' <=> Offered(b)
        BY DEF Offered
  <1>3. AllPairs' = AllPairs /\ \A b : InPair(b)' <=> InPair(b)
        BY DEF AllPairs, RevisedPairs, InPair
  <1>4. \A o : Group(o)' = Group(o)
        BY DEF Group
  <1>5. SimilarKeyed'
    <2>1. ASSUME NEW f \in Features, NEW c \in Chunks, sfIndex[f] = c
          PROVE  IsBase(c)' /\ f \in Keys(c)
          BY <2>1, <1>1, IndexFacts DEF ChainInv, SimilarKeyed
    <2>2. ASSUME NEW f \in Features, sfIndex'[f] # NoChunk
          PROVE  IsBase(sfIndex[f])' /\ f \in Keys(sfIndex'[f])
      <3>1. PICK c \in Chunks : sfIndex[f] = c
            BY <2>2, IndexFacts DEF ChunkOrNone
      <3>2. IsBase(c)' /\ f \in Keys(c)
            BY <3>1, <2>1
      <3>3. sfIndex'[f] = c
            BY <3>1
      <3> QED BY <3>2, <3>3 DEF IsBase, Indexed
    <2> QED BY <2>2 DEF SimilarKeyed, Keys
  <1>6. DeltaIndexExact'
    <2>1. \A b \in Chunks : \A c \in deltaIndex[b] : c \in Chunks /\ fpIndex[c].base = b
          BY IndexFacts DEF ChainInv, DeltaIndexExact
    <2> QED BY <2>1 DEF DeltaIndexExact, SameBases
  <1>7. DeltasListed'
        BY <1>2, <1>3 DEF ChainInv, DeltasListed, SameBases
  <1>8. NoChain'
    <2>1. ASSUME NEW c \in Chunks, fpIndex'[c].base # NoChunk
          PROVE  IsBase(fpIndex[c].base)'
      <3>1. PICK b \in Chunks : b = fpIndex[c].base
            BY <2>1, IndexFacts DEF SameBases
      <3>2. IsBase(b)
            BY <2>1, <3>1 DEF ChainInv, NoChain, SameBases
      <3>3. IsBase(b)' /\ fpIndex'[c].base = b
            BY <3>1, <3>2, <1>1 DEF SameBases
      <3> QED BY <3>3 DEF IsBase, Indexed
    <2> QED BY <2>1 DEF NoChain
  <1>9. GroupsApart'
    <2>1. ASSUME NEW o \in Chunks
          PROVE  /\ Group(o)' # {} => localTmp'[o] # NoChunk /\ Offered(o)'
                 /\ localTmp'[o] \notin skipMap'[o]
                 /\ \A x \in Group(o)' : IsBase(x)' /\ ~Offered(x)'
                 /\ \A p \in Chunks : p # o => Group(o)' \cap Group(p)' = {}
      <3>1. Group(o) \subseteq Chunks
            BY IndexFacts
      <3>2. /\ Group(o) # {} => localTmp[o] # NoChunk /\ Offered(o)
            /\ localTmp[o] \notin skipMap[o]
            /\ \A x \in Group(o) : IsBase(x) /\ ~Offered(x)
            /\ \A p \in Chunks : p # o => Group(o) \cap Group(p) = {}
            BY DEF ChainInv, GroupsApart
      <3> QED BY <3>1, <3>2, <1>1, <1>2, <1>4
    <2> QED BY <2>1 DEF GroupsApart
  <1>10. LocalFlat'
    <2>1. ASSUME NEW q \in localMap PROVE IsBase(q[1])' /\ IsBase(q[2])'
          BY <1>1, IndexFacts DEF ChainInv, LocalFlat
    <2> QED BY <2>1 DEF ChainInv, LocalFlat
  <1> QED BY <1>5, <1>6, <1>7, <1>8, <1>9, <1>10 DEF ChainInv

\* Neither the index nor the batch nor the pair at hand changes.
LEMMA ChainStill ==
  ASSUME TypeOK, ChainInv, UNCHANGED <<indexVars, localVars, batch>>, PairPhases', PairInv'
  PROVE  ChainInv'
  <1>1. UNCHANGED <<fpIndex, sfIndex, deltaIndex, localTmp, skipMap, localMap, batch>>
        BY DEF indexVars, localVars
  <1>2. SameBases
        BY <1>1 DEF SameBases, Indexed
  <1>3. BatchBases'
        BY <1>1 DEF ChainInv, BatchBases, Offered
  <1> QED BY <1>1, <1>2, <1>3, ChainFrame

LEMMA ChainStillActions ==
  ASSUME TypeOK, ChainInv,
         \/ \E op \in {"upload", "offline"} : StartSession(op)
         \/ RecipeEnd \/ CloseSession \/ Disconnect \/ WriterOpen \/ WriterSave \/ EndUpload
         \/ \E d \in work.deltas : ReadStaleDelta(d)
         \/ SaveHot
         \/ \E k \in Cids : BeginCold(k)
         \/ \E q \in walk.rest : DropRecord(q)
         \/ EndCold \/ GetMergeContainer \/ EndOffline \/ UNCHANGED vars
  PROVE  ChainInv'
  <1>1. CASE \E op \in {"upload", "offline"} : StartSession(op)
    <2>1. phase = "idle" /\ phase' = "recv" /\ UNCHANGED <<indexVars, localVars, batch>>
          BY <1>1 DEF StartSession
    <2> QED BY <2>1, ChainStill DEF ChainInv, PairPhases, PairInv, localVars
  <1>2. CASE RecipeEnd
    <2>1. phase = "recv" /\ phase' = "ended" /\ UNCHANGED <<indexVars, localVars, batch>>
          BY <1>2 DEF RecipeEnd
    <2> QED BY <2>1, ChainStill DEF ChainInv, PairPhases, PairInv, localVars
  <1>3. CASE CloseSession
    <2>1. phase = "ended" /\ phase' = "drain" /\ UNCHANGED <<indexVars, localVars, batch>>
          BY <1>3 DEF CloseSession
    <2> QED BY <2>1, ChainStill DEF ChainInv, PairPhases, PairInv, localVars
  <1>4. CASE Disconnect
    <2>1. phase = "recv" /\ phase' = "drain" /\ UNCHANGED <<indexVars, localVars, batch>>
          BY <1>4 DEF Disconnect
    <2> QED BY <2>1, ChainStill DEF ChainInv, PairPhases, PairInv, localVars
  <1>5. CASE EndUpload
    <2>1. phase = "drain" /\ phase' = "idle" /\ UNCHANGED <<indexVars, localVars, batch>>
          BY <1>5 DEF EndUpload
    <2> QED BY <2>1, ChainStill DEF ChainInv, PairPhases, PairInv, localVars
  <1>6. CASE \E d \in work.deltas : ReadStaleDelta(d)
    <2>1. phase = "deltas" /\ phase' = "stale" /\ UNCHANGED <<indexVars, localVars, batch>>
          BY <1>6 DEF ReadStaleDelta
    <2>2. \A o : Group(o)' = Group(o)
          BY <2>1 DEF Group, localVars
    <2> QED BY <2>1, <2>2, ChainStill DEF ChainInv, PairPhases, PairInv, localVars
  <1>7. CASE SaveHot \/ (\E k \in Cids : BeginCold(k)) \/ (\E q \in walk.rest : DropRecord(q))
             \/ EndCold \/ GetMergeContainer
    <2>1. /\ phase \in {"pairs", "cold", "walk"} /\ phase' \in {"cold", "walk", "merge"} /\ localMap = {}
          /\ UNCHANGED <<indexVars, localVars, batch>>
      <3>1. CASE SaveHot
            BY <3>1 DEF SaveHot
      <3>2. CASE \E k \in Cids : BeginCold(k)
            BY <3>2 DEF BeginCold, ChainInv, PairPhases
      <3>3. CASE \E q \in walk.rest : DropRecord(q)
            BY <3>3 DEF DropRecord, ChainInv, PairPhases
      <3>4. CASE EndCold
            BY <3>4 DEF EndCold, ChainInv, PairPhases
      <3>5. CASE GetMergeContainer
            BY <3>5 DEF GetMergeContainer, ChainInv, PairPhases
      <3> QED BY <1>7, <3>1, <3>2, <3>3, <3>4, <3>5
    <2>2. \A o : Group(o)' = Group(o)
          BY <2>1 DEF Group, localVars
    <2> QED BY <2>1, <2>2, ChainStill DEF ChainInv, PairPhases, PairInv, localVars
  <1>8. CASE EndOffline
    <2>1. phase = "merge" /\ phase' = "idle" /\ UNCHANGED <<indexVars, localVars, batch>>
          BY <1>8 DEF EndOffline
    <2> QED BY <2>1, ChainStill DEF ChainInv, PairPhases, PairInv, localVars
  <1>9. CASE WriterOpen \/ WriterSave \/ UNCHANGED vars
    <2>1. UNCHANGED <<phase, indexVars, localVars, batch, work>>
          BY <1>9 DEF WriterOpen, WriterSave, vars, offlineVars
    <2>2. \A o : Group(o)' = Group(o)
          BY <2>1 DEF Group, localVars
    <2>3. PairPhases'
          BY <2>1, <2>2 DEF ChainInv, PairPhases, localVars
    <2>4. PairInv'
          BY <2>1 DEF ChainInv, PairInv, localVars, indexVars, IsBase, Indexed, Offered
    <2> QED BY <2>1, <2>3, <2>4, ChainStill
  <1> QED BY <1>1, <1>2, <1>3, <1>4, <1>5, <1>6, <1>7, <1>8, <1>9

\* Steps that move index entries without touching a base.
LEMMA CopySameBases ==
  ASSUME TypeOK, PlaceInv, NEW r \in walk.buf, CopyRecord(r)
  PROVE  SameBases
  <1>1. phase = "walk" /\ fpIndex' = [fpIndex EXCEPT ![r.fp] = Lowered(r.addr)]
        BY DEF CopyRecord
  <1>2. r \in Rec /\ fpIndex[r.fp] = r.addr /\ r.addr.cid = walk.cid
        BY CopyAtRecord
  <1>3. walk.newset \in Int /\ walk.coldset \in Int
        BY PlaceTypes
  <1>4. Lowered(r.addr).base = r.addr.base /\ Lowered(r.addr).cid = r.addr.cid
        BY <1>2, <1>3, CopiedFields
  <1>5. walk.cid # 0
        BY <1>1, WalkFacts
  <1>6. NoAddr.cid = 0
        BY DEF NoAddr
  <1>7. fpIndex \in [Chunks -> Addr]
        BY DEF TypeOK, IndexTypes
  <1>8. ASSUME NEW c \in Chunks
        PROVE  fpIndex'[c].base = fpIndex[c].base /\ (fpIndex'[c] # NoAddr <=> fpIndex[c] # NoAddr)
    <2>1. CASE c = r.fp
      <3>1. fpIndex'[c] = Lowered(r.addr) /\ fpIndex[c] = r.addr
            BY <2>1, <1>1, <1>2, <1>7
      <3> QED BY <3>1, <1>2, <1>4, <1>5, <1>6
    <2>2. CASE c # r.fp
          BY <2>2, <1>1, <1>7
    <2> QED BY <2>1, <2>2
  <1> QED BY <1>8 DEF SameBases, Indexed

LEMMA MergeSameBases ==
  ASSUME TypeOK, PlaceInv, NEW q \in merges, MergePair(q)
  PROVE  SameBases
  <1>1. q[1] \in Cids /\ q[2] \in Cids
        BY DEF TypeOK, OfflineTypes
  <1>2. /\ file[q[2]].recs \in SUBSET Rec /\ file[q[1]].size \in Int
        /\ q[1] \in Nat /\ q[1] # 0 /\ q[2] # 0
        BY <1>1, PlaceTypes
  <1>3. \A t \in file[q[2]].recs : t.addr.cid = q[2]
        BY <1>1 DEF PlaceInv, HoldersProper, Proper
  <1>4. NoAddr.cid = 0
        BY DEF NoAddr
  <1>5. ASSUME NEW c \in Chunks
        PROVE  fpIndex'[c].base = fpIndex[c].base /\ (fpIndex'[c] # NoAddr <=> fpIndex[c] # NoAddr)
    <2>1. ASSUME NEW t \in file[q[2]].recs, t.fp = c
          PROVE  fpIndex'[c].base = fpIndex[c].base /\ (fpIndex'[c] # NoAddr <=> fpIndex[c] # NoAddr)
      <3>1. fpIndex[c] = t.addr /\ fpIndex'[c] = Shifted(t, q[1], file[q[1]].size).addr
            BY <2>1, MergePairIndex
      <3>2. /\ Shifted(t, q[1], file[q[1]].size).addr.base = t.addr.base
            /\ Shifted(t, q[1], file[q[1]].size).addr.cid = q[1]
            BY <1>2, <2>1, ShiftedFields
      <3> QED BY <3>1, <3>2, <1>2, <1>3, <1>4
    <2>2. CASE \A t \in file[q[2]].recs : t.fp # c
          BY <2>2, MergePairIndex
    <2> QED BY <2>1, <2>2
  <1> QED BY <1>5 DEF SameBases, Indexed

LEMMA ChainRewrite ==
  ASSUME TypeOK, PlaceInv, ChainInv,
         (\E r \in walk.buf : CopyRecord(r)) \/ (\E q \in merges : MergePair(q))
  PROVE  ChainInv'
  <1>1. SameBases
        BY CopySameBases, MergeSameBases
  <1>2. /\ phase \in {"walk", "merge"} /\ phase' = phase
        /\ UNCHANGED <<sfIndex, deltaIndex, localTmp, skipMap, localMap, batch>>
        BY DEF CopyRecord, MergePair, localVars
  <1>3. \A o : Group(o)' = Group(o)
        BY <1>2 DEF Group
  <1>4. PairPhases' /\ PairInv' /\ BatchBases'
        BY <1>2, <1>3 DEF ChainInv, PairPhases, PairInv, BatchBases, Offered
  <1> QED BY <1>1, <1>2, <1>4, ChainFrame

-----------------------------------------------------------------------------
(* The upload path.                                                        *)

\* What the super-feature index gives is offered.
LEMMA QuerySFOffered ==
  ASSUME TypeOK, NEW c \in Chunks, QuerySF(c) # NoChunk
  PROVE  Offered(QuerySF(c))
  <1> DEFINE hits == {i \in DOMAIN SFs[c] : sfIndex[SFs[c][i]] # NoChunk}
  <1>1. SFs[c] \in Seq(Features)
        BY SizeAssumption
  <1>2. DOMAIN SFs[c] = 1 .. Len(SFs[c]) /\ Len(SFs[c]) \in Nat
        BY <1>1, LenProperties
  <1>3. hits # {} /\ QuerySF(c) = sfIndex[SFs[c][Min(hits)]]
        BY DEF QuerySF
  <1>4. hits \in SUBSET Nat
        BY <1>2
  <1>5. Min(hits) \in hits
        BY <1>3, <1>4, MinIn
  <1>6. Min(hits) \in 1 .. Len(SFs[c])
        BY <1>5, <1>2
  <1>7. SFs[c][Min(hits)] \in Features
        BY <1>1, <1>6, ElementOfSeq
  <1> QED BY <1>3, <1>7 DEF Offered

LEMMA ChainReceive ==
  ASSUME TypeOK, ChainInv, NEW b \in Batches, RecvBatch(b)
  PROVE  ChainInv'
  <1>1. /\ phase = "recv" /\ phase' = "batch" /\ batch'.todo = Entries(b) /\ batch'.done = <<>>
        /\ UNCHANGED <<fpIndex, sfIndex, deltaIndex, localTmp, skipMap, localMap>>
        BY DEF RecvBatch, indexVars, localVars
  <1>2. SameBases
        BY <1>1 DEF SameBases, Indexed
  <1>3. b \in Seq(Chunks)
        BY BoundAssumption
  <1>4. Len(b) \in Nat /\ \A i \in 1 .. Len(b) : b[i] \in Chunks
        BY <1>3, LenProperties, ElementOfSeq
  <1>5. Len(Entries(b)) = Len(b) /\ \A i \in 1 .. Len(b) : Entries(b)[i] = QueryEntry(b, i)
        BY <1>4 DEF Entries
  <1>6. ASSUME NEW i \in 1 .. Len(b), QueryEntry(b, i).base # NoChunk
        PROVE  Offered(QueryEntry(b, i).base)
    <2>1. QueryEntry(b, i).base = QuerySF(b[i])
          BY <1>6 DEF QueryEntry
    <2> QED BY <2>1, <1>4, <1>6, QuerySFOffered
  <1>7. BatchBases'
    <2>1. Len(batch'.done) = 0
          BY <1>1, EmptySeq
    <2>2. ASSUME NEW i \in 1 .. Len(batch'.todo), batch'.todo[i].base # NoChunk
          PROVE  \E f \in Features : sfIndex'[f] = batch'.todo[i].base
          BY <1>1, <1>5, <1>6, <2>2 DEF Offered
    <2> QED BY <2>1, <2>2 DEF BatchBases, Offered
  <1>8. PairPhases' /\ PairInv'
        BY <1>1 DEF ChainInv, PairPhases, PairInv
  <1> QED BY <1>1, <1>2, <1>7, <1>8, ChainFrame

\* The batch goes on with the next chunk.
LEMMA TailBases ==
  ASSUME TypeOK, BatchBases, batch.todo # <<>>
  PROVE  /\ \A i \in 1 .. Len(Tail(batch.todo)) :
              Tail(batch.todo)[i].base # NoChunk => Offered(Tail(batch.todo)[i].base)
         /\ Head(batch.todo).base # NoChunk => Offered(Head(batch.todo).base)
  <1>1. batch.todo \in Seq(Entry)
        BY BatchSeqs
  <1>2. /\ Len(batch.todo) \in Nat /\ Len(batch.todo) # 0 /\ Len(Tail(batch.todo)) = Len(batch.todo) - 1
        /\ Head(batch.todo) = batch.todo[1]
        /\ \A i \in 1 .. Len(Tail(batch.todo)) : Tail(batch.todo)[i] = batch.todo[i + 1]
        BY <1>1, HeadTailProperties, EmptySeq, LenProperties
  <1>3. \A i \in 1 .. Len(Tail(batch.todo)) : i + 1 \in 1 .. Len(batch.todo)
        BY <1>2
  <1>4. 1 \in 1 .. Len(batch.todo)
        BY <1>2
  <1> QED BY <1>2, <1>3, <1>4 DEF BatchBases

LEMMA ChainSkipDuplicate ==
  ASSUME TypeOK, ChainInv, SkipDuplicate
  PROVE  ChainInv'
  <1>1. batch \in Batch
        BY BatchSeqs
  <1>2. /\ phase = "batch" /\ phase' = "batch" /\ batch.todo # <<>>
        /\ batch'.todo = Tail(batch.todo) /\ batch'.done = batch.done
        /\ UNCHANGED <<fpIndex, sfIndex, deltaIndex, localTmp, skipMap, localMap>>
        BY <1>1 DEF SkipDuplicate, indexVars, localVars, Batch
  <1>3. SameBases
        BY <1>2 DEF SameBases, Indexed
  <1>4. BatchBases'
    <2>1. BatchBases
          BY DEF ChainInv
    <2> QED BY <1>2, <2>1, TailBases DEF BatchBases, Offered
  <1>5. PairPhases' /\ PairInv'
        BY <1>2 DEF ChainInv, PairPhases, PairInv
  <1> QED BY <1>2, <1>3, <1>4, <1>5, ChainFrame

LEMMA StoreNextBases ==
  ASSUME TypeOK, BatchBases, AtNewChunk, sfIndex' = sfIndex, NEW fp \in Chunks, NEW a \in Addr,
         NEW old \in ChunkOrNone, StoreNext(fp, a, old),
         a.base # NoChunk => Offered(a.base), old # NoChunk => Offered(old) /\ a.base = NoChunk
  PROVE  BatchBases'
  <1> DEFINE d == [fp |-> fp, addr |-> a, old |-> old]
  <1>1. batch \in Batch /\ batch.done \in Seq(Done) /\ batch.todo # <<>>
        BY BatchSeqs DEF AtNewChunk
  <1>2. batch'.todo = Tail(batch.todo) /\ batch'.done = Append(batch.done, d)
        BY <1>1 DEF StoreNext, Batch
  <1>3. d \in Done /\ d.addr = a /\ d.old = old
        BY DEF Done
  <1> HIDE DEF d
  <1>4. /\ Len(batch.done) \in Nat /\ Len(batch'.done) = Len(batch.done) + 1
        /\ \A i \in 1 .. Len(batch.done) : batch'.done[i] = batch.done[i]
        /\ batch'.done[Len(batch.done) + 1] = d
        BY <1>1, <1>2, <1>3, AppendProperties, LenProperties
  <1>5. \A i \in 1 .. Len(batch'.done) : i \in 1 .. Len(batch.done) \/ i = Len(batch.done) + 1
        BY <1>4
  <1>6. ASSUME NEW i \in 1 .. Len(batch'.done)
        PROVE  /\ batch'.done[i].addr.base # NoChunk => Offered(batch'.done[i].addr.base)
               /\ batch'.done[i].old # NoChunk =>
                    Offered(batch'.done[i].old) /\ batch'.done[i].addr.base = NoChunk
    <2>1. CASE i \in 1 .. Len(batch.done)
          BY <2>1, <1>4 DEF BatchBases
    <2>2. CASE i = Len(batch.done) + 1
          BY <2>2, <1>3, <1>4
    <2> QED BY <2>1, <2>2, <1>5
  <1>7. \A x : Offered(x) <=> \E f \in Features : sfIndex'[f] = x
        BY DEF Offered
  <1>8. \A i \in 1 .. Len(batch'.todo) : batch'.todo[i].base # NoChunk => Offered(batch'.todo[i].base)
        BY <1>1, <1>2, TailBases
  <1> QED BY <1>6, <1>7, <1>8 DEF BatchBases, Offered

LEMMA ChainStore ==
  ASSUME TypeOK, TypeOK', ChainInv, StoreNew
  PROVE  ChainInv'
  <1> DEFINE e == Head(batch.todo)
  <1>1. AtNewChunk /\ phase' = phase /\ fpIndex' = fpIndex
        BY StoreCases
  <1>2. UNCHANGED <<sfIndex, deltaIndex, localTmp, skipMap, localMap>>
        BY DEF StoreNew, StoreUnique, StoreDeferred, StoreSimilarCached, StoreSimilarLoaded,
               StoreSimilarMissing, indexVars, localVars
  <1>3. e \in Entry /\ e.fp \in Chunks /\ e.base \in ChunkOrNone /\ batch.todo # <<>> /\ phase = "batch"
        BY <1>1, AtNewChunkType DEF AtNewChunk
  <1>4. BatchBases /\ (e.base # NoChunk => Offered(e.base))
        BY <1>3, TailBases DEF ChainInv
  <1>5. inBase \in Container /\ inDelta \in Container /\ nextCid \in Nat
        BY DEF TypeOK, ContainerTypes
  <1> HIDE DEF e
  <1>6. BatchBases'
    <2>1. ASSUME NEW old \in ChunkOrNone, old = NoChunk \/ old = e.base, SavebaseChunk(e.fp, old)
          PROVE  BatchBases'
      <3> DEFINE s == SaveRecord(inBase, e.fp, CLen[e.fp], NoChunk, NoChunk)
      <3>1. CLen[e.fp] \in Nat
            BY <1>3, SizeAssumption
      <3>2. s.addr \in Addr
            BY <1>3, <1>5, <3>1, SaveRecordType DEF ChunkOrNone
      <3>3. s.addr.base = NoChunk
            BY DEF SaveRecord
      <3>4. StoreNext(e.fp, s.addr, old)
            BY <2>1 DEF SavebaseChunk
      <3> HIDE DEF s
      <3> QED BY <1>1, <1>2, <1>3, <1>4, <2>1, <3>2, <3>3, <3>4, StoreNextBases
    <2>2. ASSUME NEW len \in Nat, NEW src \in Chunks \cup {Garbage}, e.base # NoChunk,
                 SavedeltaChunk(e.fp, len, e.base, src)
          PROVE  BatchBases'
      <3> DEFINE s == SaveRecord(inDelta, e.fp, len, e.base, src)
      <3>2. s.addr \in Addr
            BY <1>3, <1>5, SaveRecordType
      <3>3. s.addr.base = e.base
            BY DEF SaveRecord
      <3>4. StoreNext(e.fp, s.addr, NoChunk)
            BY <2>2 DEF SavedeltaChunk
      <3> HIDE DEF s
      <3>5. NoChunk \in ChunkOrNone
            BY DEF ChunkOrNone
      <3> QED BY <1>1, <1>2, <1>3, <1>4, <2>2, <3>2, <3>3, <3>4, <3>5, StoreNextBases
    <2> QED BY <2>1, <2>2, StoreCases DEF e
  <1>7. SameBases
        BY <1>1 DEF SameBases, Indexed
  <1>8. PairPhases' /\ PairInv'
        BY <1>1, <1>2, <1>3 DEF ChainInv, PairPhases, PairInv
  <1> QED BY <1>2, <1>6, <1>7, <1>8, ChainFrame

\* What UpdateOutIndex does to the fingerprint index: the chunks of the batch
\* are entered, everything else stays.
LEMMA EndBatchEntries ==
  ASSUME TypeOK, PlaceInv, FreshBatch, EndBatch
  PROVE  /\ Len(batch.done) \in Nat /\ DOMAIN batch.done = 1 .. Len(batch.done)
         /\ \A i \in 1 .. Len(batch.done) :
              /\ batch.done[i].fp \in Chunks /\ batch.done[i].old \in ChunkOrNone
              /\ batch.done[i].addr.base \in ChunkOrNone /\ batch.done[i].addr # NoAddr
              /\ ~Indexed(batch.done[i].fp) /\ fpIndex'[batch.done[i].fp] = batch.done[i].addr
         /\ \A c \in Chunks : Indexed(c) => fpIndex'[c] = fpIndex[c]
         /\ \A c \in Chunks : fpIndex'[c] = fpIndex[c] \/ \E i \in 1 .. Len(batch.done) : batch.done[i].fp = c
         /\ \A i, j \in 1 .. Len(batch.done) : batch.done[i].fp = batch.done[j].fp => i = j
  <1> DEFINE n == Len(batch.done)
  <1>1. phase = "batch"
        BY DEF EndBatch
  <1>2. n \in Nat /\ DOMAIN batch.done = 1 .. n
        BY BatchSeqs, LenProperties
  <1>3. ASSUME NEW i \in 1 .. n
        PROVE  /\ batch.done[i].fp \in Chunks /\ batch.done[i].old \in ChunkOrNone
               /\ batch.done[i].addr.base \in ChunkOrNone
    <2>1. batch.done[i] \in Done
          BY BatchSeqs, ElementOfSeq
    <2> QED BY <2>1 DEF Done, Addr
  <1>4. \A c \in Chunks : fpIndex'[c] = IF DoneOf(c) = {} THEN fpIndex[c]
                                        ELSE batch.done[Min(DoneOf(c))].addr
        BY DEF EndBatch, UpdateOutIndex
  <1>5. ASSUME NEW c \in Chunks, DoneOf(c) # {}
        PROVE  Min(DoneOf(c)) \in 1 .. n /\ batch.done[Min(DoneOf(c))].fp = c
    <2>1. DoneOf(c) \in SUBSET Nat
          BY <1>2 DEF DoneOf
    <2>2. Min(DoneOf(c)) \in DoneOf(c)
          BY <1>5, <2>1, MinIn
    <2> QED BY <2>2, <1>2 DEF DoneOf
  <1>6. \A i \in 1 .. n : ~Indexed(batch.done[i].fp)
        BY <1>1 DEF FreshBatch
  <1>7. \A i, j \in 1 .. n : batch.done[i].fp = batch.done[j].fp => i = j
        BY DEF PlaceInv, BatchLive
  <1>8. ASSUME NEW i \in 1 .. n PROVE fpIndex'[batch.done[i].fp] = batch.done[i].addr
    <2> DEFINE c == batch.done[i].fp
    <2>0. c \in Chunks
          BY <1>3
    <2>1. DoneOf(c) # {}
          BY <1>2 DEF DoneOf
    <2>2. Min(DoneOf(c)) \in 1 .. n /\ batch.done[Min(DoneOf(c))].fp = c
          BY <2>0, <2>1, <1>5
    <2>3. Min(DoneOf(c)) = i
          BY <2>2, <1>7
    <2> QED BY <2>0, <2>1, <2>3, <1>4
  <1>9. ASSUME NEW i \in 1 .. n PROVE batch.done[i].addr # NoAddr
    <2>1. Stored(batch.done[i].fp, batch.done[i].addr)
          BY DEF PlaceInv, BatchLive
    <2> QED BY <2>1, LiveFacts DEF Stored, PlaceInv
  <1>10. \A c \in Chunks : fpIndex'[c] = fpIndex[c] \/ \E i \in 1 .. n : batch.done[i].fp = c
        BY <1>4, <1>5
  <1>11. \A c \in Chunks : Indexed(c) => fpIndex'[c] = fpIndex[c]
        BY <1>6, <1>10
  <1> QED BY <1>2, <1>3, <1>6, <1>7, <1>8, <1>9, <1>10, <1>11

\* What it does to the super-feature index: only new full chunks that are not
\* deferred are added, and nothing is replaced.
LEMMA EndBatchOffers ==
  ASSUME TypeOK, EndBatch
  PROVE  /\ \A f \in Features : sfIndex[f] # NoChunk => sfIndex'[f] = sfIndex[f]
         /\ \A f \in Features : \/ sfIndex'[f] = sfIndex[f]
              \/ \E i \in 1 .. Len(batch.done) :
                   /\ sfIndex'[f] = batch.done[i].fp /\ batch.done[i].addr.base = NoChunk
                   /\ batch.done[i].old = NoChunk /\ f \in Keys(batch.done[i].fp)
  <1>1. \A f \in Features : sfIndex'[f] = IF sfIndex[f] # NoChunk \/ NewBases(f) = {} THEN sfIndex[f]
                                          ELSE batch.done[Min(NewBases(f))].fp
        BY DEF EndBatch, UpdateOutIndex
  <1>2. Len(batch.done) \in Nat /\ DOMAIN batch.done = 1 .. Len(batch.done)
        BY BatchSeqs, LenProperties
  <1>3. ASSUME NEW f \in Features, NewBases(f) # {}
        PROVE  \E i \in 1 .. Len(batch.done) :
                   /\ i = Min(NewBases(f)) /\ batch.done[i].addr.base = NoChunk
                   /\ batch.done[i].old = NoChunk /\ f \in Keys(batch.done[i].fp)
    <2>1. NewBases(f) \in SUBSET Nat
          BY <1>2 DEF NewBases
    <2>2. Min(NewBases(f)) \in NewBases(f)
          BY <1>3, <2>1, MinIn
    <2>3. \A i \in NewBases(f) : /\ i \in 1 .. Len(batch.done) /\ batch.done[i].addr.base = NoChunk
                                 /\ batch.done[i].old = NoChunk /\ f \in Keys(batch.done[i].fp)
          BY <1>2 DEF NewBases, Keys
    <2> QED BY <2>2, <2>3
  <1> QED BY <1>1, <1>3

\* What LocalInsert does: the deferred chunks of the batch join the group of
\* the base they were deferred on.
DeferredFps(o) == {batch.done[i].fp : i \in DeferredOn(o)}

LEMMA EndBatchGroups ==
  ASSUME TypeOK, PlaceInv, FreshBatch, ChainInv, EndBatch, NEW o \in Chunks
  PROVE  /\ Group(o)' = Group(o) \cup DeferredFps(o)
         /\ Group(o)' # {} => localTmp'[o] # NoChunk /\ Offered(o)
         /\ localTmp'[o] \notin skipMap'[o]
         /\ \A x \in DeferredFps(o) : \E i \in 1 .. Len(batch.done) :
               x = batch.done[i].fp /\ batch.done[i].old = o /\ batch.done[i].addr.base = NoChunk
  <1> DEFINE n == Len(batch.done)
             m == Max(DeferredOn(o))
             late == batch.done[m].fp
  <1>1. n \in Nat /\ DOMAIN batch.done = 1 .. n
        BY EndBatchEntries
  <1>2. /\ \A i \in 1 .. n : batch.done[i].fp \in Chunks /\ ~Indexed(batch.done[i].fp)
        /\ \A i, j \in 1 .. n : batch.done[i].fp = batch.done[j].fp => i = j
        BY EndBatchEntries
  <1>3. DeferredOn(o) \subseteq 1 .. n /\ \A i \in DeferredOn(o) : batch.done[i].old = o
        BY <1>1 DEF DeferredOn
  <1>4. o # NoChunk /\ NoChunk \notin Chunks
        BY ChunkAssumption
  <1>5. \A i \in DeferredOn(o) : Offered(o) /\ batch.done[i].addr.base = NoChunk
        BY <1>3, <1>4 DEF ChainInv, BatchBases
  <1>6. /\ Group(o) # {} => localTmp[o] # NoChunk /\ Offered(o)
        /\ localTmp[o] \notin skipMap[o]
        /\ \A x \in Group(o) : Indexed(x)
        BY DEF ChainInv, GroupsApart, IsBase
  <1>7. /\ localTmp'[o] = IF DeferredOn(o) = {} THEN localTmp[o] ELSE late
        /\ skipMap'[o] = IF DeferredOn(o) = {} THEN skipMap[o]
                         ELSE skipMap[o] \cup ({localTmp[o]} \ {NoChunk})
                                \cup {batch.done[i].fp : i \in DeferredOn(o) \ {m}}
        BY DEF EndBatch, LocalInsert
  <1>8. DeferredOn(o) # {} => m \in DeferredOn(o)
        BY <1>1, <1>3, MaxIn
  <1> HIDE DEF m, late
  <1>9. CASE DeferredOn(o) = {}
    <2>1. DeferredFps(o) = {}
          BY <1>9 DEF DeferredFps
    <2>2. localTmp'[o] = localTmp[o] /\ skipMap'[o] = skipMap[o]
          BY <1>7, <1>9
    <2>3. Group(o)' = Group(o)
          BY <2>2 DEF Group
    <2> QED BY <1>6, <2>1, <2>2, <2>3
  <1>10. CASE DeferredOn(o) # {}
    <2>1. m \in DeferredOn(o) /\ m \in 1 .. n /\ late \in Chunks /\ late # NoChunk
          BY <1>2, <1>3, <1>4, <1>8, <1>10 DEF late
    <2>2. /\ localTmp'[o] = late
          /\ skipMap'[o] = Group(o) \cup {batch.done[i].fp : i \in DeferredOn(o) \ {m}}
          BY <1>7, <1>10 DEF Group
    <2>3. DeferredFps(o) = {batch.done[i].fp : i \in DeferredOn(o) \ {m}} \cup {late}
          BY <2>1 DEF DeferredFps, late
    <2>4. Group(o)' = skipMap'[o] \cup {late}
          BY <2>1, <2>2 DEF Group
    <2>5. late \notin Group(o)
          BY <1>2, <1>6, <2>1 DEF late
    <2>6. late \notin {batch.done[i].fp : i \in DeferredOn(o) \ {m}}
          BY <1>2, <1>3, <2>1 DEF late
    <2>7. \A x \in DeferredFps(o) : \E i \in 1 .. n :
               x = batch.done[i].fp /\ batch.done[i].old = o /\ batch.done[i].addr.base = NoChunk
          BY <1>3, <1>5 DEF DeferredFps
    <2>8. Offered(o)
          BY <1>5, <2>1
    <2> QED BY <2>1, <2>2, <2>3, <2>4, <2>5, <2>6, <2>7, <2>8
  <1> QED BY <1>9, <1>10

LEMMA ChainEndBatch ==
  ASSUME TypeOK, TypeOK', PlaceInv, FreshBatch, ChainInv, EndBatch
  PROVE  ChainInv'
  <1> DEFINE n == Len(batch.done)
  <1>1. phase = "batch" /\ phase' = "recv" /\ batch' = NoBatch /\ localMap = {} /\ localMap' = {}
        BY DEF EndBatch, ChainInv, PairPhases
  <1>2. /\ \A i \in 1 .. n : /\ batch.done[i].fp \in Chunks /\ batch.done[i].addr # NoAddr
                             /\ batch.done[i].addr.base \in ChunkOrNone
                             /\ ~Indexed(batch.done[i].fp)
                             /\ fpIndex'[batch.done[i].fp] = batch.done[i].addr
        /\ \A c \in Chunks : Indexed(c) => fpIndex'[c] = fpIndex[c]
        /\ \A c \in Chunks : fpIndex'[c] = fpIndex[c] \/ \E i \in 1 .. n : batch.done[i].fp = c
        /\ \A i, j \in 1 .. n : batch.done[i].fp = batch.done[j].fp => i = j
        /\ DOMAIN batch.done = 1 .. n
        BY EndBatchEntries
  <1> HIDE DEF n
  <1>3. \A c \in Chunks : IsBase(c) => IsBase(c)'
        BY <1>2 DEF IsBase, Indexed
  <1>4. \A b : b # NoChunk /\ Offered(b) => Offered(b)'
        BY EndBatchOffers DEF Offered
  <1>5. \A b : Offered(b)' =>
          Offered(b) \/ \E i \in 1 .. n : b = batch.done[i].fp /\ batch.done[i].old = NoChunk
        BY EndBatchOffers DEF Offered, n
  <1>6. \A b \in Chunks : Offered(b) => IsBase(b)
        BY IndexFacts DEF Offered, ChainInv, SimilarKeyed
  <1>7. \A b \in Chunks : Indexed(b) /\ Offered(b)' => Offered(b)
        BY <1>2, <1>5
  <1>8. SimilarKeyed'
    <2>1. ASSUME NEW f \in Features, sfIndex'[f] # NoChunk
          PROVE  \E c \in Chunks : sfIndex'[f] = c /\ IsBase(c)' /\ f \in Keys(c)
      <3>1. CASE sfIndex'[f] = sfIndex[f]
        <4>1. PICK c \in Chunks : sfIndex[f] = c
              BY <2>1, <3>1, IndexFacts DEF ChunkOrNone
        <4>2. IsBase(c) /\ f \in Keys(c)
              BY <2>1, <3>1, <4>1 DEF ChainInv, SimilarKeyed
        <4> QED BY <3>1, <4>1, <4>2, <1>3
      <3>2. ASSUME NEW i \in 1 .. n, sfIndex'[f] = batch.done[i].fp, batch.done[i].addr.base = NoChunk,
                   f \in Keys(batch.done[i].fp)
            PROVE  \E c \in Chunks : sfIndex'[f] = c /\ IsBase(c)' /\ f \in Keys(c)
        <4>1. PICK c \in Chunks : c = batch.done[i].fp
              BY <1>2
        <4>2. fpIndex'[c] = batch.done[i].addr
              BY <1>2, <4>1
        <4>3. IsBase(c)'
              BY <1>2, <3>2, <4>2 DEF IsBase, Indexed
        <4> QED BY <3>2, <4>1, <4>3
      <3> QED BY <3>1, <3>2, EndBatchOffers DEF n
    <2>2. ASSUME NEW f \in Features, sfIndex'[f] # NoChunk
          PROVE  IsBase(sfIndex[f])' /\ f \in Keys(sfIndex'[f])
      <3>1. PICK c \in Chunks : sfIndex'[f] = c /\ IsBase(c)' /\ f \in Keys(c)
            BY <2>1, <2>2
      <3> QED BY <3>1 DEF IsBase, Indexed
    <2> QED BY <2>2 DEF SimilarKeyed, Keys
  <1>9. \A b \in Chunks : \A c : c \in deltaIndex'[b] <=>
           c \in deltaIndex[b] \/ (c \in Chunks /\ \E i \in 1 .. n : batch.done[i].fp = c /\ batch.done[i].addr.base = b)
    <2>1. \A b \in Chunks : deltaIndex'[b] =
            deltaIndex[b] \cup {c \in Chunks : \E i \in DoneOf(c) : batch.done[i].addr.base = b}
          BY DEF EndBatch, UpdateDeltaIndex
    <2> QED BY <1>2, <2>1 DEF DoneOf
  <1>10. DeltaIndexExact'
    <2>1. ASSUME NEW b \in Chunks, NEW c \in deltaIndex'[b]
          PROVE  fpIndex'[c].base = b
      <3>1. CASE c \in deltaIndex[b]
        <4>1. c \in Chunks /\ fpIndex[c].base = b /\ b # NoChunk
              BY <3>1, IndexFacts DEF ChainInv, DeltaIndexExact
        <4>2. Indexed(c)
              BY <4>1, IndexFacts
        <4> QED BY <4>1, <4>2, <1>2
      <3>2. CASE \E i \in 1 .. n : batch.done[i].fp = c /\ batch.done[i].addr.base = b
            BY <3>2, <1>2
      <3> QED BY <3>1, <3>2, <1>9
    <2> QED BY <2>1 DEF DeltaIndexExact
  <1>11. ASSUME NEW b, InPair(b)'
         PROVE  \E o \in Chunks : Group(o)' # {} /\ (b = o \/ b \in Group(o)')
    <2>1. PICK q \in AllPairs' : q[1] = b \/ q[2] = b
          BY <1>11 DEF InPair
    <2>2. q \in RevisedPairs'
          BY <2>1, <1>1 DEF AllPairs
    <2>3. \/ \E o \in Chunks : localTmp'[o] # NoChunk /\ q = <<o, localTmp'[o]>>
          \/ \E o \in Chunks : localTmp'[o] # NoChunk /\ \E p \in skipMap'[o] : q = <<p, localTmp'[o]>>
          BY <2>2 DEF RevisedPairs
    <2>4. PICK o \in Chunks : /\ localTmp'[o] # NoChunk /\ q[2] = localTmp'[o]
                              /\ q[1] = o \/ q[1] \in skipMap'[o]
          BY <2>3
    <2>5. localTmp'[o] \in Group(o)' /\ skipMap'[o] \subseteq Group(o)'
          BY <2>4 DEF Group
    <2> QED BY <2>1, <2>4, <2>5
  <1>12. DeltasListed'
    <2>1. ASSUME NEW c \in Chunks, NEW b \in Chunks, fpIndex'[c].base = b, Offered(b)' \/ InPair(b)'
          PROVE  c \in deltaIndex'[b]
      <3>1. CASE fpIndex'[c] = fpIndex[c]
        <4>1. b # NoChunk /\ fpIndex[c].base = b
              BY <2>1, <3>1, IndexFacts
        <4>2. IsBase(b)
              BY <4>1 DEF ChainInv, NoChain
        <4>3. Offered(b)' => Offered(b)
              BY <4>2, <1>7 DEF IsBase
        <4>4. ASSUME InPair(b)' PROVE Offered(b) \/ InPair(b)
          <5>1. PICK o \in Chunks : Group(o)' # {} /\ (b = o \/ b \in Group(o)')
                BY <1>11, <4>4
          <5>2. CASE b = o
                BY <5>1, <5>2, EndBatchGroups
          <5>3. CASE b \in Group(o)'
            <6>1. b \notin DeferredFps(o)
                  BY <1>2, <4>2, EndBatchGroups DEF IsBase, n
            <6>2. b \in Group(o)
                  BY <5>3, <6>1, EndBatchGroups
            <6>3. localTmp[o] # NoChunk
                  BY <6>2 DEF ChainInv, GroupsApart
            <6>4. b = localTmp[o] \/ b \in skipMap[o]
                  BY <6>2 DEF Group
            <6>5. <<o, localTmp[o]>> \in AllPairs /\ \A p \in skipMap[o] : <<p, localTmp[o]>> \in AllPairs
                  BY <6>3 DEF AllPairs, RevisedPairs
            <6>6. CASE b = localTmp[o]
              <7>1. <<o, localTmp[o]>>[2] = b
                    BY <6>6
              <7> QED BY <6>5, <7>1 DEF InPair
            <6>7. CASE b \in skipMap[o]
              <7>1. <<b, localTmp[o]>>[1] = b
                    OBVIOUS
              <7> QED BY <6>5, <6>7, <7>1 DEF InPair
            <6> QED BY <6>4, <6>6, <6>7
          <5> QED BY <5>1, <5>2, <5>3
        <4>5. c \in deltaIndex[b]
              BY <2>1, <4>1, <4>3, <4>4 DEF ChainInv, DeltasListed
        <4> QED BY <4>5, <1>9
      <3>2. CASE \E i \in 1 .. n : batch.done[i].fp = c
        <4>1. PICK i \in 1 .. n : batch.done[i].fp = c
              BY <3>2
        <4>2. batch.done[i].addr.base = b
              BY <4>1, <1>2, <2>1
        <4> QED BY <4>1, <4>2, <1>9
      <3> QED BY <3>1, <3>2, <1>2
    <2> QED BY <2>1 DEF DeltasListed
  <1>13. NoChain'
    <2>1. ASSUME NEW c \in Chunks, NEW b, b = fpIndex'[c].base, b # NoChunk
          PROVE  b \in Chunks /\ IsBase(b)'
      <3>1. CASE fpIndex'[c] = fpIndex[c]
        <4>1. b \in Chunks /\ IsBase(b)
              BY <2>1, <3>1, IndexFacts DEF ChainInv, NoChain
        <4> QED BY <4>1, <1>3
      <3>2. CASE \E i \in 1 .. n : batch.done[i].fp = c
        <4>1. PICK i \in 1 .. n : batch.done[i].fp = c
              BY <3>2
        <4>2. batch.done[i].addr.base = b /\ b \in Chunks
              BY <4>1, <1>2, <2>1 DEF ChunkOrNone
        <4>3. Offered(b)
              BY <4>2, <2>1 DEF ChainInv, BatchBases, n
        <4> QED BY <4>2, <4>3, <1>3, <1>6
      <3> QED BY <3>1, <3>2, <1>2
    <2>2. ASSUME NEW c \in Chunks, fpIndex'[c].base # NoChunk
          PROVE  IsBase(fpIndex[c].base)'
      <3>1. PICK b : b = fpIndex'[c].base
            OBVIOUS
      <3>2. IsBase(b)'
            BY <2>1, <2>2, <3>1
      <3> QED BY <3>1, <3>2 DEF IsBase, Indexed
    <2> QED BY <2>2 DEF NoChain
  <1>14. ASSUME NEW o \in Chunks, NEW x \in Group(o)'
         PROVE  /\ x \in Chunks /\ IsBase(x)' /\ ~Offered(x)'
                /\ \A p \in Chunks : p # o => x \notin Group(p)'
    <2>1. ASSUME x \in Group(o)
          PROVE  /\ x \in Chunks /\ IsBase(x)' /\ ~Offered(x)'
                 /\ \A p \in Chunks : p # o => x \notin Group(p)'
      <3>1. x \in Chunks /\ IsBase(x) /\ ~Offered(x) /\ \A p \in Chunks : p # o => x \notin Group(p)
            BY <2>1, IndexFacts DEF ChainInv, GroupsApart
      <3>2. Indexed(x)
            BY <3>1 DEF IsBase
      <3>3. ~Offered(x)'
            BY <3>1, <3>2, <1>7
      <3>4. \A p \in Chunks : x \notin DeferredFps(p)
            BY <3>2, <1>2, EndBatchGroups DEF n
      <3>5. \A p \in Chunks : p # o => x \notin Group(p)'
            BY <3>1, <3>4, EndBatchGroups
      <3> QED BY <3>1, <3>3, <3>5, <1>3
    <2>2. ASSUME x \in DeferredFps(o)
          PROVE  /\ x \in Chunks /\ IsBase(x)' /\ ~Offered(x)'
                 /\ \A p \in Chunks : p # o => x \notin Group(p)'
      <3>1. PICK i \in 1 .. n : x = batch.done[i].fp /\ batch.done[i].old = o /\ batch.done[i].addr.base = NoChunk
            BY <2>2, EndBatchGroups DEF n
      <3>2. x \in Chunks /\ ~Indexed(x) /\ fpIndex'[x] = batch.done[i].addr /\ batch.done[i].addr # NoAddr
            BY <3>1, <1>2
      <3>3. IsBase(x)'
            BY <3>1, <3>2 DEF IsBase, Indexed
      <3>4. o # NoChunk
            BY ChunkAssumption
      <3>5. ~Offered(x)
            BY <3>2, <1>6 DEF IsBase
      <3>6. ~Offered(x)'
            BY <3>1, <3>4, <3>5, <1>2, <1>5
      <3>7. ASSUME NEW p \in Chunks, p # o PROVE x \notin Group(p)'
        <4>1. x \notin Group(p)
              BY <3>2 DEF ChainInv, GroupsApart, IsBase
        <4>2. x \notin DeferredFps(p)
          <5>1. \A y \in DeferredFps(p) : \E j \in 1 .. n : y = batch.done[j].fp /\ batch.done[j].old = p
                BY EndBatchGroups DEF n
          <5> QED BY <5>1, <3>1, <1>2, <3>7
        <4> QED BY <4>1, <4>2, EndBatchGroups
      <3> QED BY <3>2, <3>3, <3>6, <3>7
    <2>3. x \in Group(o) \/ x \in DeferredFps(o)
          BY EndBatchGroups
    <2> QED BY <2>1, <2>2, <2>3
  <1>15. GroupsApart'
    <2>1. ASSUME NEW o \in Chunks
          PROVE  /\ Group(o)' # {} => localTmp'[o] # NoChunk /\ Offered(o)'
                 /\ localTmp'[o] \notin skipMap'[o]
                 /\ \A x \in Group(o)' : IsBase(x)' /\ ~Offered(x)'
                 /\ \A p \in Chunks : p # o => Group(o)' \cap Group(p)' = {}
      <3>1. o # NoChunk
            BY ChunkAssumption
      <3>2. /\ Group(o)' # {} => localTmp'[o] # NoChunk /\ Offered(o)
            /\ localTmp'[o] \notin skipMap'[o]
            BY EndBatchGroups
      <3> QED BY <3>1, <3>2, <1>4, <1>14
    <2> QED BY <2>1 DEF GroupsApart
  <1>16. LocalFlat' /\ PairInv'
        BY <1>1 DEF LocalFlat, PairInv
  <1>17. batch'.todo = <<>> /\ Len(batch'.todo) = 0 /\ Len(batch'.done) = 0
        BY <1>1, EmptySeq DEF NoBatch
  <1>18. PairPhases' /\ BatchBases'
        BY <1>1, <1>17 DEF PairPhases, BatchBases
  <1> QED BY <1>8, <1>10, <1>12, <1>13, <1>15, <1>16, <1>18 DEF ChainInv

-----------------------------------------------------------------------------
(* The offline pass.                                                       *)

\* No deferred chunks: the pairs are those of the running pass.
LEMMA PassPairs ==
  ASSUME TypeOK, ChainInv, phase \in {"pairs", "deltas"}
  PROVE  /\ \A o \in Chunks : Group(o) = {} /\ localTmp[o] = NoChunk
         /\ RevisedPairs = {} /\ AllPairs = localMap /\ batch.todo = <<>>
  <1>1. \A o \in Chunks : Group(o) = {}
        BY DEF ChainInv, PairPhases
  <1>2. \A o \in Chunks : localTmp[o] = NoChunk
        BY <1>1 DEF Group
  <1>3. RevisedPairs = {}
        BY <1>2 DEF RevisedPairs
  <1>4. batch.todo = <<>>
        BY DEF ChainInv, PairPhases
  <1> QED BY <1>1, <1>2, <1>3, <1>4 DEF AllPairs

LEMMA ChainStartOffline ==
  ASSUME TypeOK, ChainInv, StartOffline
  PROVE  ChainInv'
  <1>1. /\ phase = "drain" /\ phase' = "pairs" /\ localMap' = localMap \cup RevisedPairs
        /\ localTmp' = [o \in Chunks |-> NoChunk] /\ skipMap' = [o \in Chunks |-> {}]
        /\ UNCHANGED <<fpIndex, sfIndex, deltaIndex, batch>>
        BY DEF StartOffline, ClearLocal, indexVars
  <1>2. localMap = {}
        BY <1>1 DEF ChainInv, PairPhases
  <1>3. \A o \in Chunks : localTmp'[o] = NoChunk /\ skipMap'[o] = {} /\ Group(o)' = {}
        BY <1>1 DEF Group
  <1>4. RevisedPairs' = {}
        BY <1>3 DEF RevisedPairs
  <1>5. AllPairs' = AllPairs
        BY <1>1, <1>4 DEF AllPairs
  <1>6. \A b : (InPair(b)' <=> InPair(b)) /\ (Offered(b)' <=> Offered(b))
        BY <1>1, <1>5 DEF InPair, Offered
  <1>7. SimilarKeyed' /\ DeltaIndexExact' /\ DeltasListed' /\ NoChain'
        BY <1>1, <1>6 DEF ChainInv, SimilarKeyed, DeltaIndexExact, DeltasListed, NoChain, IsBase, Indexed, Keys
  <1>8. GroupsApart'
        BY <1>3 DEF GroupsApart
  <1>9. LocalFlat'
    <2>1. PairsFlat
          BY ChainPairsFlat
    <2>2. localMap' = AllPairs
          BY <1>1 DEF AllPairs
    <2> QED BY <1>1, <2>1, <2>2 DEF PairsFlat, LocalFlat, IsBase, Indexed
  <1>10. PairPhases' /\ PairInv'
        BY <1>1, <1>3 DEF ChainInv, PairPhases, PairInv
  <1>11. BatchBases'
        BY <1>1, <1>6 DEF ChainInv, BatchBases
  <1> QED BY <1>7, <1>8, <1>9, <1>10, <1>11 DEF ChainInv

LEMMA ChainCleanLocalIndex ==
  ASSUME TypeOK, ChainInv, CleanLocalIndex
  PROVE  ChainInv'
  <1>1. /\ phase = "drain" /\ phase' = "idle" /\ localMap' = {}
        /\ localTmp' = [o \in Chunks |-> NoChunk] /\ skipMap' = [o \in Chunks |-> {}]
        /\ UNCHANGED <<fpIndex, sfIndex, deltaIndex, batch>>
        BY DEF CleanLocalIndex, ClearLocal, indexVars
  <1>3. \A o \in Chunks : localTmp'[o] = NoChunk /\ skipMap'[o] = {} /\ Group(o)' = {}
        BY <1>1 DEF Group
  <1>4. RevisedPairs' = {}
        BY <1>3 DEF RevisedPairs
  <1>6. \A b : ~InPair(b)' /\ (Offered(b)' <=> Offered(b))
        BY <1>1, <1>4 DEF InPair, AllPairs, Offered
  <1>7. SimilarKeyed' /\ DeltaIndexExact' /\ DeltasListed' /\ NoChain'
        BY <1>1, <1>6 DEF ChainInv, SimilarKeyed, DeltaIndexExact, DeltasListed, NoChain, IsBase, Indexed, Keys
  <1>8. GroupsApart' /\ LocalFlat'
        BY <1>1, <1>3 DEF GroupsApart, LocalFlat
  <1>10. PairPhases' /\ PairInv'
        BY <1>1 DEF ChainInv, PairPhases, PairInv
  <1>11. BatchBases'
        BY <1>1, <1>6 DEF ChainInv, BatchBases
  <1> QED BY <1>7, <1>8, <1>10, <1>11 DEF ChainInv

\* What taking a pair does to the super-feature index.
LEMMA PairOffers ==
  ASSUME TypeOK, ChainInv, NEW q \in localMap
  PROVE  /\ \A f \in Features : EraseSF(sfIndex, q[1])[f] \in {sfIndex[f], NoChunk}
         /\ \A f \in Features : EraseSF(sfIndex, q[1])[f] # q[1]
         /\ \A f \in Features :
              \/ ReplaceSF(EraseSF(sfIndex, q[1]), q[2])[f] = EraseSF(sfIndex, q[1])[f]
              \/ ReplaceSF(EraseSF(sfIndex, q[1]), q[2])[f] = q[2] /\ f \in Keys(q[2])
         /\ q[1] \in Chunks /\ q[2] \in Chunks /\ q[1] # q[2] /\ IsBase(q[1]) /\ IsBase(q[2])
  <1>1. q[1] \in Chunks /\ q[2] \in Chunks
        BY PairTypes
  <1>2. q[1] # q[2] /\ IsBase(q[1]) /\ IsBase(q[2])
        BY DEF ChainInv, LocalFlat
  <1>3. q[1] # NoChunk
        BY <1>1, ChunkAssumption
  <1>4. \A f \in Features : sfIndex[f] = q[1] => f \in Keys(q[1])
        BY <1>3 DEF ChainInv, SimilarKeyed
  <1>5. \A f \in Features : EraseSF(sfIndex, q[1])[f] = IF f \in Keys(q[1]) THEN NoChunk ELSE sfIndex[f]
        BY DEF EraseSF
  <1>6. \A f \in Features : ReplaceSF(EraseSF(sfIndex, q[1]), q[2])[f] =
                              IF f \in Keys(q[2]) THEN q[2] ELSE EraseSF(sfIndex, q[1])[f]
        BY DEF ReplaceSF
  <1> QED BY <1>1, <1>2, <1>3, <1>4, <1>5, <1>6

LEMMA ChainTakePair ==
  ASSUME TypeOK, PlaceInv, ChainInv, phase = "pairs", phase' \in {"pairs", "deltas"}, NEW q \in localMap,
         localMap' = localMap \ {q}, UNCHANGED <<fpIndex, localTmp, skipMap, batch>>,
         sfIndex' \in {sfIndex, EraseSF(sfIndex, q[1]), ReplaceSF(EraseSF(sfIndex, q[1]), q[2])},
         deltaIndex' = deltaIndex \/ (deltaIndex' = TakeDeltas(q[1]) /\ ~Offered(q[1])'),
         PairInv'
  PROVE  ChainInv'
  <1> DEFINE o == q[1]
             n == q[2]
  <1>1. o \in Chunks /\ n \in Chunks /\ o # n /\ IsBase(o) /\ IsBase(n)
        BY PairOffers
  <1>2. \A f \in Features : sfIndex'[f] \in {sfIndex[f], NoChunk} \/ (sfIndex'[f] = n /\ f \in Keys(n))
        BY PairOffers
  <1>3. /\ \A p \in Chunks : Group(p) = {} /\ localTmp[p] = NoChunk
        /\ AllPairs = localMap /\ batch.todo = <<>>
        BY PassPairs
  <1>4. \A p \in Chunks : Group(p)' = {} /\ localTmp'[p] = NoChunk
        BY <1>3 DEF Group
  <1>5. AllPairs' = localMap'
    <2>1. RevisedPairs' = {}
          BY <1>4 DEF RevisedPairs
    <2> QED BY <2>1 DEF AllPairs
  <1>6. \A c \in Chunks : IsBase(c)' <=> IsBase(c)
        BY DEF IsBase, Indexed
  <1>7. InPair(n) /\ InPair(o)
        BY <1>3 DEF InPair
  <1>8. \A b \in Chunks : Offered(b)' => Offered(b) \/ b = n
        BY <1>2, ChunkAssumption DEF Offered
  <1>9. \A b : InPair(b)' => InPair(b)
        BY <1>3, <1>5 DEF InPair
  <1>10. ~InPair(o)'
    <2>1. \A s \in localMap : s # q => s[1] # o /\ s[2] # o
          BY DEF ChainInv, LocalFlat
    <2> QED BY <2>1, <1>5 DEF InPair
  <1>11. SimilarKeyed'
    <2>1. ASSUME NEW f \in Features, sfIndex'[f] # NoChunk
          PROVE  \E c \in Chunks : sfIndex'[f] = c /\ IsBase(c) /\ f \in Keys(c)
      <3>1. CASE sfIndex'[f] = sfIndex[f]
            BY <2>1, <3>1, IndexFacts DEF ChunkOrNone, ChainInv, SimilarKeyed
      <3>2. CASE sfIndex'[f] = n /\ f \in Keys(n)
            BY <3>2, <1>1
      <3> QED BY <2>1, <3>1, <3>2, <1>2
    <2>2. ASSUME NEW f \in Features, sfIndex'[f] # NoChunk
          PROVE  IsBase(sfIndex[f])' /\ f \in Keys(sfIndex'[f])
      <3>1. PICK c \in Chunks : sfIndex'[f] = c /\ IsBase(c) /\ f \in Keys(c)
            BY <2>1, <2>2
      <3>2. IsBase(c)'
            BY <3>1, <1>6
      <3> QED BY <3>1, <3>2 DEF IsBase, Indexed
    <2> QED BY <2>2 DEF SimilarKeyed, Keys
  <1>12. \A b \in Chunks : deltaIndex'[b] = deltaIndex[b] \/ (b = o /\ deltaIndex'[b] = {} /\ ~Offered(o)')
    <2>1. deltaIndex \in [Chunks -> SUBSET Chunks]
          BY DEF TypeOK, IndexTypes
    <2>2. CASE deltaIndex' = deltaIndex
          BY <2>2
    <2>3. CASE deltaIndex' = TakeDeltas(q[1]) /\ ~Offered(q[1])'
      <3>1. ~Offered(o)'
            BY <2>3
      <3> QED BY <2>1, <2>3, <3>1, <1>1 DEF TakeDeltas
    <2> QED BY <2>2, <2>3
  <1>13. DeltaIndexExact' /\ NoChain'
    <2>1. NoChain'
          BY DEF ChainInv, NoChain, IsBase, Indexed
    <2> QED BY <2>1, <1>12 DEF ChainInv, DeltaIndexExact
  <1>14. ASSUME NEW c \in Chunks, NEW b \in Chunks, fpIndex'[c].base = b, Offered(b)' \/ InPair(b)'
         PROVE  c \in deltaIndex'[b]
    <2>1. Offered(b) \/ InPair(b)
          BY <1>7, <1>8, <1>9, <1>14
    <2>2. c \in deltaIndex[b]
          BY <2>1, <1>14 DEF ChainInv, DeltasListed
    <2>3. b = o => Offered(b)'
          BY <1>10, <1>14
    <2>4. b = o /\ Offered(b)' => Offered(o)'
          OBVIOUS
    <2> QED BY <2>2, <2>3, <2>4, <1>12
  <1>15. DeltasListed'
        BY <1>14 DEF DeltasListed
  <1>16. GroupsApart'
    <2>1. \A p \in Chunks : localTmp'[p] \notin skipMap'[p]
          BY DEF ChainInv, GroupsApart
    <2> QED BY <2>1, <1>4 DEF GroupsApart
  <1>17. LocalFlat'
        BY DEF ChainInv, LocalFlat, IsBase, Indexed
  <1>18. PairPhases'
        BY <1>3, <1>4 DEF PairPhases
  <1>19. BatchBases'
    <2>1. batch'.done = <<>> /\ batch'.todo = <<>>
          BY <1>3, OfflinePhase
    <2>2. Len(batch'.done) = 0 /\ Len(batch'.todo) = 0
          BY <2>1, EmptySeq
    <2> QED BY <2>2 DEF BatchBases
  <1> QED BY <1>11, <1>13, <1>15, <1>16, <1>17, <1>18, <1>19 DEF ChainInv

LEMMA ChainSkipPair ==
  ASSUME TypeOK, PlaceInv, ChainInv, NEW q \in localMap,
         SkipGreedy(q[1], q[2]) \/ SkipOldMissing(q[1], q[2]) \/ SkipNewMissing(q[1], q[2])
  PROVE  ChainInv'
  <1>1. q = <<q[1], q[2]>>
        BY IndexFacts
  <1>2. /\ phase = "pairs" /\ phase' = "pairs" /\ localMap' = localMap \ {q}
        /\ UNCHANGED <<fpIndex, localTmp, skipMap, batch>>
        BY <1>1 DEF SkipGreedy, SkipOldMissing, SkipNewMissing, indexVars
  <1>3. sfIndex' \in {sfIndex, EraseSF(sfIndex, q[1]), ReplaceSF(EraseSF(sfIndex, q[1]), q[2])}
        BY DEF SkipGreedy, SkipOldMissing, SkipNewMissing, indexVars
  <1>4. deltaIndex' = deltaIndex \/ (deltaIndex' = TakeDeltas(q[1]) /\ ~Offered(q[1])')
    <2>1. CASE SkipGreedy(q[1], q[2])
      <3>1. sfIndex' = ReplaceSF(EraseSF(sfIndex, q[1]), q[2]) /\ deltaIndex' = TakeDeltas(q[1])
            BY <2>1 DEF SkipGreedy
      <3>2. \A f \in Features : sfIndex'[f] # q[1]
            BY <3>1, PairOffers
      <3> QED BY <3>1, <3>2 DEF Offered
    <2> QED BY <2>1 DEF SkipOldMissing, SkipNewMissing, indexVars
  <1>5. PairInv'
        BY <1>2 DEF PairInv
  <1> QED BY <1>2, <1>3, <1>4, <1>5, ChainTakePair

LEMMA ChainBeginPair ==
  ASSUME TypeOK, TypeOK', PlaceInv, ChainInv, NEW q \in localMap, BeginPair(q[1], q[2])
  PROVE  ChainInv'
  <1>1. q = <<q[1], q[2]>> /\ q[1] \in Chunks /\ q[2] \in Chunks
        BY IndexFacts
  <1>2. /\ phase = "pairs" /\ phase' = "deltas" /\ localMap' = localMap \ {q}
        /\ sfIndex' = ReplaceSF(EraseSF(sfIndex, q[1]), q[2]) /\ deltaIndex' = TakeDeltas(q[1])
        /\ work'.old = q[1] /\ work'.new = q[2] /\ work'.deltas = deltaIndex[q[1]]
        /\ UNCHANGED <<fpIndex, localTmp, skipMap, batch>>
        BY <1>1 DEF BeginPair
  <1>3. \A f \in Features : sfIndex'[f] # q[1]
        BY <1>2, PairOffers
  <1>4. ~Offered(q[1])'
        BY <1>3 DEF Offered
  <1>5. q[1] # q[2] /\ IsBase(q[1]) /\ IsBase(q[2])
        BY PairOffers
  <1>6. deltaIndex'[q[1]] = {}
    <2>1. deltaIndex \in [Chunks -> SUBSET Chunks]
          BY DEF TypeOK, IndexTypes
    <2> QED BY <2>1, <1>1, <1>2 DEF TakeDeltas
  <1>7. \A s \in localMap' : s[1] # q[1] /\ s[2] # q[1] /\ s[1] # q[2]
        BY <1>2 DEF ChainInv, LocalFlat
  <1>8. InPair(q[1])
        BY DEF InPair, AllPairs
  <1>9. \A c \in Chunks : fpIndex[c].base = q[1] => c \in deltaIndex[q[1]]
        BY <1>1, <1>8 DEF ChainInv, DeltasListed
  <1>10. \A d \in deltaIndex[q[1]] : fpIndex[d].base = q[1]
        BY <1>1 DEF ChainInv, DeltaIndexExact
  <1>11. IsBase(q[1])' /\ IsBase(q[2])'
        BY <1>2, <1>5 DEF IsBase, Indexed
  <1>12. PairInv'
    <2> DEFINE o == q[1]
               n == q[2]
    <2>1. /\ work'.old = o /\ work'.new = n /\ o # n /\ IsBase(o)' /\ IsBase(n)'
          /\ deltaIndex'[o] = {} /\ ~Offered(o)'
          BY <1>2, <1>4, <1>5, <1>6, <1>11
    <2> HIDE DEF o, n
    <2>2. work'.old # work'.new /\ IsBase(work.old)' /\ IsBase(work.new)'
          BY <2>1 DEF IsBase, Indexed
    <2>3. deltaIndex'[work'.old] = {} /\ ~Offered(work.old)'
          BY <2>1 DEF Offered
    <2> QED BY <1>2, <1>7, <1>9, <1>10, <2>2, <2>3 DEF PairInv
  <1> QED BY <1>2, <1>4, <1>12, ChainTakePair

\* A chunk that nothing depends on becomes a delta of the new base.
LEMMA ChainMoved ==
  ASSUME TypeOK, PlaceInv, ChainInv, phase = "deltas", phase' \in {"deltas", "pairs"}, work.new \in Chunks,
         NEW c \in Chunks, NEW a, a.base = work.new, fpIndex' = [fpIndex EXCEPT ![c] = a],
         deltaIndex' = [deltaIndex EXCEPT ![work.new] = @ \cup {c}],
         UNCHANGED <<sfIndex, localTmp, skipMap, localMap, batch>>,
         c # work.new, \A x \in Chunks : fpIndex[x].base # c,
         ~Offered(c), \A q \in localMap : q[1] # c /\ q[2] # c,
         \A b \in Chunks : c \notin deltaIndex[b],
         PairInv'
  PROVE  ChainInv'
  <1> DEFINE n == work.new
  <1>1. fpIndex \in [Chunks -> Addr] /\ deltaIndex \in [Chunks -> SUBSET Chunks]
        BY DEF TypeOK, IndexTypes
  <1>2. fpIndex'[c] = a /\ \A x \in Chunks : x # c => fpIndex'[x] = fpIndex[x]
        BY <1>1
  <1>3. deltaIndex'[n] = deltaIndex[n] \cup {c} /\ \A b \in Chunks : b # n => deltaIndex'[b] = deltaIndex[b]
        BY <1>1
  <1>4. \A x \in Chunks : x # c => (IsBase(x)' <=> IsBase(x))
        BY <1>2 DEF IsBase, Indexed
  <1>5. IsBase(n) /\ n # NoChunk
        BY ChunkAssumption DEF ChainInv, PairInv
  <1>6. /\ \A p \in Chunks : Group(p) = {} /\ localTmp[p] = NoChunk
        /\ AllPairs = localMap /\ batch.todo = <<>>
        BY PassPairs
  <1>7. \A p \in Chunks : Group(p)' = {} /\ localTmp'[p] = NoChunk
        BY <1>6 DEF Group
  <1>8. AllPairs' = AllPairs
        BY DEF AllPairs, RevisedPairs
  <1>9. \A b : (Offered(b)' <=> Offered(b)) /\ (InPair(b)' <=> InPair(b))
        BY <1>8 DEF Offered, InPair
  <1> HIDE DEF n
  <1>10. SimilarKeyed'
    <2>1. ASSUME NEW f \in Features, sfIndex'[f] # NoChunk
          PROVE  IsBase(sfIndex[f])' /\ f \in Keys(sfIndex'[f])
      <3>1. PICK x \in Chunks : sfIndex[f] = x /\ IsBase(x) /\ f \in Keys(x)
            BY <2>1, IndexFacts DEF ChunkOrNone, ChainInv, SimilarKeyed
      <3>2. x # c
            BY <3>1 DEF Offered
      <3>3. IsBase(x)' /\ sfIndex'[f] = x
            BY <3>1, <3>2, <1>4
      <3> QED BY <3>1, <3>3 DEF IsBase, Indexed
    <2> QED BY <2>1 DEF SimilarKeyed, Keys
  <1>11. DeltaIndexExact'
    <2>1. ASSUME NEW b \in Chunks, NEW x \in deltaIndex'[b] PROVE fpIndex'[x].base = b
      <3>1. CASE x \in deltaIndex[b]
        <4>1. x # c /\ x \in Chunks /\ fpIndex[x].base = b
              BY <3>1, <1>1 DEF ChainInv, DeltaIndexExact
        <4> QED BY <4>1, <1>2
      <3>2. CASE x = c /\ b = n
            BY <3>2, <1>2 DEF n
      <3> QED BY <3>1, <3>2, <1>3
    <2> QED BY <2>1 DEF DeltaIndexExact
  <1>12. DeltasListed'
    <2>1. ASSUME NEW x \in Chunks, NEW b \in Chunks, fpIndex'[x].base = b, Offered(b)' \/ InPair(b)'
          PROVE  x \in deltaIndex'[b]
      <3>1. CASE x = c
            BY <3>1, <2>1, <1>2, <1>3 DEF n
      <3>2. CASE x # c
        <4>1. x \in deltaIndex[b]
              BY <3>2, <2>1, <1>2, <1>9 DEF ChainInv, DeltasListed
        <4> QED BY <4>1, <1>3
      <3> QED BY <3>1, <3>2
    <2> QED BY <2>1 DEF DeltasListed
  <1>13. NoChain'
    <2>1. ASSUME NEW x \in Chunks, NEW b, b = fpIndex'[x].base, b # NoChunk PROVE IsBase(b)'
      <3>1. CASE x = c
        <4>1. b = n /\ b # c /\ b \in Chunks
              BY <3>1, <2>1, <1>2 DEF n
        <4> QED BY <4>1, <1>4, <1>5
      <3>2. CASE x # c
        <4>1. b = fpIndex[x].base
              BY <3>2, <2>1, <1>2
        <4>2. b \in Chunks /\ IsBase(b) /\ b # c
              BY <4>1, <2>1, IndexFacts DEF ChainInv, NoChain
        <4> QED BY <4>2, <1>4
      <3> QED BY <3>1, <3>2
    <2>2. ASSUME NEW x \in Chunks, fpIndex'[x].base # NoChunk
          PROVE  IsBase(fpIndex[x].base)'
      <3>1. PICK b : b = fpIndex'[x].base
            OBVIOUS
      <3>2. IsBase(b)'
            BY <2>1, <2>2, <3>1
      <3> QED BY <3>1, <3>2 DEF IsBase, Indexed
    <2> QED BY <2>2 DEF NoChain
  <1>14. GroupsApart'
    <2>1. \A p \in Chunks : localTmp'[p] \notin skipMap'[p]
          BY DEF ChainInv, GroupsApart
    <2> QED BY <2>1, <1>7 DEF GroupsApart
  <1>15. LocalFlat'
    <2>1. ASSUME NEW q \in localMap PROVE IsBase(q[1])' /\ IsBase(q[2])'
      <3>1. q[1] \in Chunks /\ q[2] \in Chunks /\ IsBase(q[1]) /\ IsBase(q[2])
            BY IndexFacts DEF ChainInv, LocalFlat
      <3> QED BY <3>1, <1>4
    <2> QED BY <2>1 DEF ChainInv, LocalFlat
  <1>16. PairPhases'
    <2>1. phase' = "deltas" \/ phase' = "pairs"
          OBVIOUS
    <2> QED BY <2>1, <1>6, <1>7 DEF PairPhases
  <1>17. BatchBases'
    <2>1. batch'.done = <<>> /\ batch'.todo = <<>>
          BY <1>6, OfflinePhase
    <2>2. Len(batch'.done) = 0 /\ Len(batch'.todo) = 0
          BY <2>1, EmptySeq
    <2> QED BY <2>2 DEF BatchBases
  <1> QED BY <1>10, <1>11, <1>12, <1>13, <1>14, <1>15, <1>16, <1>17 DEF ChainInv

LEMMA ChainMoveDelta ==
  ASSUME TypeOK, TypeOK', PairAtHand, PlaceInv, ChainInv, NEW d \in work.deltas, MoveDelta(d)
  PROVE  ChainInv'
  <1> SUFFICES ASSUME NEW o, NEW n, o = work.old, n = work.new
               PROVE  ChainInv'
      OBVIOUS
  <1>1. /\ phase = "deltas" /\ phase' = "deltas"
        /\ UNCHANGED <<sfIndex, localTmp, skipMap, localMap, batch>>
        BY DEF MoveDelta, localVars
  <1>2. work \in Work /\ work.deltas \subseteq Chunks /\ d \in Chunks /\ o \in Chunks /\ n \in Chunks
    <2>1. work \in Work
          BY DEF TypeOK, OfflineTypes
    <2>2. work.deltas \subseteq Chunks
          BY <2>1 DEF Work
    <2> QED BY <2>1, <2>2, <1>1 DEF PairAtHand
  <1>3. work'.old = o /\ work'.new = n
        BY MoveDeltaTypes
  <1>4. /\ o # n /\ IsBase(o) /\ IsBase(n) /\ deltaIndex[o] = {} /\ ~Offered(o)
        /\ \A q \in localMap : q[1] # o /\ q[2] # o /\ q[1] # n
        /\ \A c \in Chunks : fpIndex[c].base = o => c \in work.deltas \/ work.flag = FALSE
        /\ \A c \in work.deltas : fpIndex[c].base = o
        BY <1>1 DEF ChainInv, PairInv
  <1>5. o # NoChunk /\ n # NoChunk
        BY <1>2, ChunkAssumption
  <1>6. ~IsBase(d) /\ fpIndex[d].base = o
        BY <1>4, <1>5 DEF IsBase
  <1>7. d # n /\ d # o
        BY <1>4, <1>6
  <1>8. CASE /\ work' = [work EXCEPT !.deltas = @ \ {d}, !.flag = FALSE] /\ UNCHANGED <<fpIndex, deltaIndex>>
    <2>1. work'.flag = FALSE /\ work'.deltas = work.deltas \ {d}
          BY <1>2, <1>8 DEF Work
    <2>2. SameBases
          BY <1>8 DEF SameBases, Indexed
    <2>3. PairInv'
      <3>1. IsBase(o)' /\ IsBase(n)' /\ ~Offered(o)'
            BY <1>1, <1>4, <1>8 DEF IsBase, Indexed, Offered
      <3>2. IsBase(work.old)' /\ IsBase(work.new)' /\ ~Offered(work.old)'
            BY <3>1, <1>3 DEF IsBase, Indexed, Offered
      <3> QED BY <1>1, <1>3, <1>4, <1>8, <2>1, <3>2 DEF PairInv
    <2>4. PairPhases' /\ BatchBases'
          BY <1>1 DEF ChainInv, PairPhases, BatchBases, Offered, Group
    <2> QED BY <1>1, <1>8, <2>2, <2>3, <2>4, ChainFrame
  <1>9. ASSUME work' = [work EXCEPT !.deltas = @ \ {d}],
               NEW len, NEW src, MoveToHot(d, len, src)
        PROVE  ChainInv'
    <2>1. PICK a : a.base = work.new /\ fpIndex' = [fpIndex EXCEPT ![d] = a]
      <3> DEFINE h == IF Hdr + len + hot.size < MaxContainer THEN hot ELSE EmptyContainer(nextCid)
                 a == [cid |-> h.cid, off |-> h.size, len |-> len, base |-> work.new]
      <3>1. fpIndex' = [fpIndex EXCEPT ![d] = a]
            BY <1>9 DEF MoveToHot
      <3>2. a.base = work.new
            OBVIOUS
      <3> QED BY <3>1, <3>2
    <2>2. deltaIndex' = [deltaIndex EXCEPT ![work.new] = @ \cup {d}]
          BY <1>9 DEF MoveToHot
    <2>3. work'.deltas = work.deltas \ {d} /\ work'.flag = work.flag
          BY <1>2, <1>9 DEF Work
    <2>4. fpIndex \in [Chunks -> Addr] /\ deltaIndex \in [Chunks -> SUBSET Chunks]
          BY DEF TypeOK, IndexTypes
    <2>5. fpIndex'[d] = a /\ \A x \in Chunks : x # d => fpIndex'[x] = fpIndex[x]
          BY <2>1, <2>4, <1>2
    <2>6. deltaIndex'[o] = {}
          BY <2>2, <2>4, <1>2, <1>4
    <2>7. PairInv'
      <3>1. IsBase(o)' /\ IsBase(n)' /\ ~Offered(o)'
            BY <1>1, <1>2, <1>4, <1>7, <2>5 DEF IsBase, Indexed, Offered
      <3>2. IsBase(work.old)' /\ IsBase(work.new)' /\ ~Offered(work.old)'
            BY <3>1, <1>3 DEF IsBase, Indexed, Offered
      <3>3. fpIndex'[d].base # o
            BY <2>1, <2>5, <1>4
      <3>4. \A c \in Chunks : fpIndex'[c].base = o => c \in work'.deltas \/ work'.flag = FALSE
            BY <3>3, <2>3, <2>5, <1>4
      <3>5. \A c \in work'.deltas : fpIndex'[c].base = o
            BY <2>3, <2>5, <1>2, <1>4
      <3> QED BY <1>1, <1>3, <1>4, <2>6, <3>2, <3>4, <3>5 DEF PairInv
    <2>8. \A x \in Chunks : fpIndex[x].base # d
      <3>1. d # NoChunk
            BY <1>2, ChunkAssumption
      <3> QED BY <3>1, <1>6 DEF ChainInv, NoChain
    <2>9. ~Offered(d)
      <3>1. d # NoChunk
            BY <1>2, ChunkAssumption
      <3> QED BY <3>1, <1>6 DEF Offered, ChainInv, SimilarKeyed
    <2>10. \A q \in localMap : q[1] # d /\ q[2] # d
          BY <1>6 DEF ChainInv, LocalFlat
    <2>11. \A b \in Chunks : d \notin deltaIndex[b]
          BY <1>4, <1>6 DEF ChainInv, DeltaIndexExact
    <2>12. work.new \in Chunks /\ d # work.new
          BY <1>2, <1>7
    <2> QED BY <1>1, <1>2, <2>1, <2>2, <2>7, <2>8, <2>9, <2>10, <2>11, <2>12, ChainMoved
  <1>10. \E len, src :
           \/ work' = [work EXCEPT !.deltas = @ \ {d}, !.flag = FALSE] /\ UNCHANGED <<fpIndex, deltaIndex>>
           \/ work' = [work EXCEPT !.deltas = @ \ {d}] /\ MoveToHot(d, len, src)
    <2> DEFINE buf == Load(file[fpIndex[d].cid])
               content == Recoded(buf, fpIndex[d])
    <2>1. PICK len \in RecodedLens(d, content) :
             IF len > Size[d]
             THEN /\ work' = [work EXCEPT !.deltas = @ \ {d}, !.flag = FALSE]
                  /\ UNCHANGED <<file, nextCid, hot, fpIndex, deltaIndex, cold, backup>>
             ELSE /\ work' = [work EXCEPT !.deltas = @ \ {d}]
                  /\ backup' = backup - fpIndex[d].len + len
                  /\ MoveToHot(d, len, content)
          BY DEF MoveDelta
    <2> HIDE DEF content
    <2> QED BY <2>1
  <1> QED BY <1>8, <1>9, <1>10

LEMMA ChainMoveBase ==
  ASSUME TypeOK, TypeOK', PairAtHand, PlaceInv, ChainInv, MoveBase
  PROVE  ChainInv'
  <1> DEFINE o == work.old
             n == work.new
             len == DSize[o][n]
             src == IF work.oldc = o THEN work.newc ELSE Garbage
  <1>1. /\ phase = "deltas" /\ phase' = "pairs" /\ work.deltas = {}
        /\ UNCHANGED <<sfIndex, localTmp, skipMap, localMap, batch>>
        BY DEF MoveBase, localVars
  <1>2. o \in Chunks /\ n \in Chunks
        BY <1>1 DEF PairAtHand
  <1>3. /\ o # n /\ IsBase(o) /\ IsBase(n) /\ deltaIndex[o] = {} /\ ~Offered(o)
        /\ \A q \in localMap : q[1] # o /\ q[2] # o /\ q[1] # n
        /\ \A c \in Chunks : fpIndex[c].base = o => work.flag = FALSE
        BY <1>1 DEF ChainInv, PairInv
  <1>4. PairInv'
        BY <1>1 DEF PairInv
  <1>5. \/ work.flag /\ MoveToHot(o, len, src)
        \/ UNCHANGED <<fpIndex, deltaIndex>>
        BY DEF MoveBase, BaseMoves
  <1> HIDE DEF o, n, len, src
  <1>6. CASE UNCHANGED <<fpIndex, deltaIndex>>
    <2>1. SameBases
          BY <1>6 DEF SameBases, Indexed
    <2>2. \A p : Group(p)' = Group(p)
          BY <1>1 DEF Group
    <2>3. PairPhases' /\ BatchBases'
          BY <1>1, <2>2 DEF ChainInv, PairPhases, BatchBases, Offered
    <2> QED BY <1>1, <1>4, <1>6, <2>1, <2>3, ChainFrame
  <1>7. CASE work.flag /\ MoveToHot(o, len, src)
    <2>1. PICK a : a.base = work.new /\ fpIndex' = [fpIndex EXCEPT ![o] = a]
      <3> DEFINE h == IF Hdr + len + hot.size < MaxContainer THEN hot ELSE EmptyContainer(nextCid)
                 a == [cid |-> h.cid, off |-> h.size, len |-> len, base |-> work.new]
      <3>1. fpIndex' = [fpIndex EXCEPT ![o] = a]
            BY <1>7 DEF MoveToHot
      <3>2. a.base = work.new
            OBVIOUS
      <3> QED BY <3>1, <3>2
    <2>2. deltaIndex' = [deltaIndex EXCEPT ![work.new] = @ \cup {o}]
          BY <1>7 DEF MoveToHot
    <2>3. \A x \in Chunks : fpIndex[x].base # o
          BY <1>3, <1>7
    <2>4. \A b \in Chunks : o \notin deltaIndex[b]
      <3>1. \A b \in Chunks : b # NoChunk
            BY ChunkAssumption
      <3> QED BY <3>1, <1>3 DEF ChainInv, DeltaIndexExact, IsBase
    <2>5. work.new \in Chunks /\ o # work.new
          BY <1>2, <1>3 DEF n
    <2>6. \A q \in localMap : q[1] # o /\ q[2] # o
          BY <1>3
    <2> QED BY <1>1, <1>2, <1>3, <1>4, <2>1, <2>2, <2>3, <2>4, <2>5, <2>6, ChainMoved
  <1> QED BY <1>5, <1>6, <1>7

-----------------------------------------------------------------------------
(* No step makes a base a delta of a delta.                                *)

LEMMA ChainInvNext ==
  ASSUME StoreInv, StoreInv', ChainInv, [Next]_vars
  PROVE  ChainInv'
  <1>1. /\ TypeOK /\ TypeOK' /\ PairAtHand /\ PlaceInv /\ FreshBatch
        BY DEF StoreInv, TypeInv, FwdInv
  <1>2. CASE StoreNew
        BY <1>1, <1>2, ChainStore
  <1>3. CASE Receive
        BY <1>1, <1>3, ChainReceive DEF Receive
  <1>4. CASE SkipDuplicate
        BY <1>1, <1>4, ChainSkipDuplicate
  <1>5. CASE EndBatch
        BY <1>1, <1>5, ChainEndBatch
  <1>6. CASE StartOffline
        BY <1>1, <1>6, ChainStartOffline
  <1>7. CASE CleanLocalIndex
        BY <1>1, <1>7, ChainCleanLocalIndex
  <1>8. CASE \E p \in localMap : SkipGreedy(p[1], p[2]) \/ SkipOldMissing(p[1], p[2]) \/ SkipNewMissing(p[1], p[2])
        BY <1>1, <1>8, ChainSkipPair
  <1>9. CASE \E p \in localMap : BeginPair(p[1], p[2])
        BY <1>1, <1>9, ChainBeginPair
  <1>10. CASE \E d \in work.deltas : MoveDelta(d)
        BY <1>1, <1>10, ChainMoveDelta
  <1>11. CASE MoveBase
        BY <1>1, <1>11, ChainMoveBase
  <1>12. CASE (\E r \in walk.buf : CopyRecord(r)) \/ (\E q \in merges : MergePair(q))
        BY <1>1, <1>12, ChainRewrite
  <1>13. CASE \/ \E op \in {"upload", "offline"} : StartSession(op)
              \/ RecipeEnd \/ CloseSession \/ Disconnect \/ WriterOpen \/ WriterSave \/ EndUpload
              \/ \E d \in work.deltas : ReadStaleDelta(d)
              \/ SaveHot
              \/ \E k \in Cids : BeginCold(k)
              \/ \E q \in walk.rest : DropRecord(q)
              \/ EndCold \/ GetMergeContainer \/ EndOffline \/ UNCHANGED vars
        BY <1>1, <1>13, ChainStillActions
  <1> QED BY <1>2, <1>3, <1>4, <1>5, <1>6, <1>7, <1>8, <1>9, <1>10, <1>11, <1>12, <1>13
          DEF Next, StoreNew

FlatInv == StoreInv /\ ChainInv

LEMMA FlatInvInit == Init => FlatInv
  BY StoreInvInit, ChainInit DEF FlatInv

LEMMA FlatInvNext ==
  ASSUME FlatInv, [Next]_vars
  PROVE  FlatInv'
  BY StoreInvNext, ChainInvNext DEF FlatInv

\* Restoring a delta decodes one level: UpdateIndexStore never leaves a chunk
\* coded against a chunk that is itself a delta, whatever pairs Easy_update
\* works through, whichever containers it cannot open and whichever deltas it
\* refuses.
THEOREM ChainsNeverForm == Spec => []NoChain
  <1>1. FlatInv => NoChain
        BY DEF FlatInv, ChainInv
  <1> QED BY <1>1, FlatInvInit, FlatInvNext, PTL DEF Spec

\* What InsertSF and Ocall_OFFline_updateIndex leave in the super-feature
\* index are chunks stored in full, so an upload never codes against a delta.
THEOREM OnlyBasesOffered == Spec => []SimilarAreBases
  <1>1. FlatInv => SimilarAreBases
        BY ChainSimilar DEF FlatInv
  <1> QED BY <1>1, FlatInvInit, FlatInvNext, PTL DEF Spec

\* Every chunk that UpdateDeltaIndex lists under a base is a delta of that
\* base at every later moment at which it is still listed.
THEOREM DeltaIndexStaysExact == Spec => []DeltaIndexExact
  <1>1. FlatInv => DeltaIndexExact
        BY DEF FlatInv, ChainInv
  <1> QED BY <1>1, FlatInvInit, FlatInvNext, PTL DEF Spec

\* QueryDeltaIndex finds all the deltas of a base that Easy_update may yet
\* replace: none is left behind when the base becomes a delta.
THEOREM DeltasStayTracked == Spec => []DeltasTracked
  <1>1. FlatInv => DeltasTracked
        BY ChainTracked DEF FlatInv, StoreInv, TypeInv
  <1> QED BY <1>1, FlatInvInit, FlatInvNext, PTL DEF Spec

\* The pairs that Ocall_LocalInsert collects and Ocall_Localrevise hands to
\* Easy_update form one level of full chunks, each replaced once.
THEOREM PairsStayFlat == Spec => []PairsFlat
  <1>1. FlatInv => PairsFlat
        BY ChainPairsFlat DEF FlatInv, StoreInv, TypeInv
  <1> QED BY <1>1, FlatInvInit, FlatInvNext, PTL DEF Spec

-----------------------------------------------------------------------------
(* Stored chunks stay stored.                                              *)

Rising ==
    \A c \in Chunks : Indexed(c) =>
        fpIndex'[c] # NoAddr /\ (fpIndex[c].base # NoChunk => fpIndex'[c].base # NoChunk)

LEMMA SameRising ==
  ASSUME SameBases
  PROVE  Rising
  BY DEF SameBases, Rising, Indexed

\* The offline pass moves a chunk by making it a delta of the new base.
LEMMA MoveToHotRising ==
  ASSUME TypeOK, work.new \in Chunks, NEW c \in Chunks, NEW len, NEW src, MoveToHot(c, len, src)
  PROVE  Rising
  <1> DEFINE h == IF Hdr + len + hot.size < MaxContainer THEN hot ELSE EmptyContainer(nextCid)
             a == [cid |-> h.cid, off |-> h.size, len |-> len, base |-> work.new]
  <1>1. fpIndex' = [fpIndex EXCEPT ![c] = a]
        BY DEF MoveToHot
  <1>2. a.base = work.new
        OBVIOUS
  <1> HIDE DEF a
  <1>3. fpIndex \in [Chunks -> Addr]
        BY DEF TypeOK, IndexTypes
  <1>4. work.new # NoChunk /\ NoAddr.base = NoChunk
        BY ChunkAssumption DEF NoAddr
  <1>5. fpIndex'[c] = a /\ \A x \in Chunks : x # c => fpIndex'[x] = fpIndex[x]
        BY <1>1, <1>3
  <1> QED BY <1>2, <1>4, <1>5 DEF Rising, Indexed

LEMMA RisingNext ==
  ASSUME FlatInv, FlatInv', [Next]_vars
  PROVE  Rising
  <1>1. TypeOK /\ TypeOK' /\ PairAtHand /\ PlaceInv /\ FreshBatch
        BY DEF FlatInv, StoreInv, TypeInv, FwdInv
  <1>2. CASE EndBatch
    <2>1. \A c \in Chunks : Indexed(c) => fpIndex'[c] = fpIndex[c]
          BY <1>1, <1>2, EndBatchEntries
    <2> QED BY <2>1 DEF Rising, Indexed
  <1>3. CASE StoreNew
    <2>1. fpIndex' = fpIndex
          BY <1>1, <1>3, StoreCases
    <2> QED BY <2>1 DEF Rising, Indexed
  <1>4. CASE \E d \in work.deltas : MoveDelta(d)
    <2>1. PICK d \in work.deltas : MoveDelta(d)
          BY <1>4
    <2>2. phase = "deltas"
          BY <2>1 DEF MoveDelta
    <2>3. d \in Chunks /\ work.new \in Chunks
          BY <1>1, <2>1, <2>2 DEF PairAtHand, TypeOK, OfflineTypes, Work
    <2> DEFINE content == Recoded(Load(file[fpIndex[d].cid]), fpIndex[d])
    <2>4. \E len : fpIndex' = fpIndex \/ MoveToHot(d, len, content)
          BY <2>1 DEF MoveDelta
    <2> HIDE DEF content
    <2>5. fpIndex' = fpIndex => Rising
          BY DEF Rising, Indexed
    <2> QED BY <1>1, <2>3, <2>4, <2>5, MoveToHotRising
  <1>5. CASE MoveBase
    <2>1. phase = "deltas"
          BY <1>5 DEF MoveBase
    <2>2. work.old \in Chunks /\ work.new \in Chunks
          BY <1>1, <2>1 DEF PairAtHand
    <2>3. \E len, src : fpIndex' = fpIndex \/ MoveToHot(work.old, len, src)
          BY <1>5 DEF MoveBase
    <2>4. fpIndex' = fpIndex => Rising
          BY DEF Rising, Indexed
    <2> QED BY <1>1, <2>2, <2>3, <2>4, MoveToHotRising
  <1>6. CASE (\E r \in walk.buf : CopyRecord(r)) \/ (\E q \in merges : MergePair(q))
        BY <1>1, <1>6, CopySameBases, MergeSameBases, SameRising
  <1>7. CASE \/ \E op \in {"upload", "offline"} : StartSession(op)
             \/ Receive \/ SkipDuplicate \/ RecipeEnd \/ CloseSession \/ Disconnect
             \/ WriterOpen \/ WriterSave \/ EndUpload \/ StartOffline \/ CleanLocalIndex
             \/ UNCHANGED vars
    <2>1. fpIndex' = fpIndex
          BY <1>7 DEF indexVars, vars, StartSession, Receive, SkipDuplicate, RecipeEnd,
             CloseSession, Disconnect, WriterOpen, WriterSave, EndUpload, StartOffline,
             CleanLocalIndex, RecvBatch
    <2> QED BY <2>1 DEF Rising, Indexed
  <1>8. CASE \/ \E p \in localMap : SkipGreedy(p[1], p[2])
             \/ \E p \in localMap : SkipOldMissing(p[1], p[2])
             \/ \E p \in localMap : SkipNewMissing(p[1], p[2])
             \/ \E p \in localMap : BeginPair(p[1], p[2])
             \/ \E d \in work.deltas : ReadStaleDelta(d)
             \/ SaveHot
             \/ \E k \in Cids : BeginCold(k)
             \/ \E q \in walk.rest : DropRecord(q)
             \/ EndCold \/ GetMergeContainer \/ EndOffline
    <2>1. fpIndex' = fpIndex
          BY <1>8 DEF indexVars, SkipGreedy, SkipOldMissing, SkipNewMissing, BeginPair, ReadStaleDelta,
             SaveHot, BeginCold, DropRecord, EndCold, GetMergeContainer, EndOffline
    <2> QED BY <2>1 DEF Rising, Indexed
  <1> QED BY <1>2, <1>3, <1>4, <1>5, <1>6, <1>7, <1>8 DEF Next, StoreNew

\* No step of an upload or of an offline pass drops a chunk from the
\* fingerprint index or makes a delta a full chunk again, also where
\* Update_cold_container and MergeContainer rebuild entries from headers.
THEOREM StoredStaysStored == Spec => IndexMonotone
  <1>1. FlatInv /\ [Next]_vars => FlatInv' /\ Rising
    <2> SUFFICES ASSUME FlatInv, [Next]_vars PROVE FlatInv' /\ Rising
        OBVIOUS
    <2> QED BY FlatInvNext, RisingNext
  <1>2. Rising => [\A c \in Chunks : Indexed(c) =>
          fpIndex'[c] # NoAddr /\ (fpIndex[c].base # NoChunk => fpIndex'[c].base # NoChunk)]_vars
        BY DEF Rising
  <1> QED BY <1>1, <1>2, FlatInvInit, PTL DEF Spec, IndexMonotone

-----------------------------------------------------------------------------
(* The invariants behind NoStaleRead, CodedAgainstBase and Restorable.     *)

\* Full chunks are in base containers and deltas in delta containers, and a
\* record is coded against the base it names unless a wrong buffer was used.
KindOf(a) == IF a.base = NoChunk THEN "base" ELSE "delta"
Sound(stale, r, kind) == KindOf(r.addr) = kind /\ (stale \/ r.src = r.addr.base)
AllSound(stale, recs, kind) == \A r \in recs : Sound(stale, r, kind)
RecordInv ==
    /\ AllSound(staleUse, inBase.recs, "base") /\ AllSound(staleUse, inDelta.recs, "delta")
    /\ AllSound(staleUse, hot.recs, "delta")
    /\ \A i \in 1 .. Len(queue) : AllSound(staleUse, queue[i].recs, queue[i].kind)
    /\ \A i \in 1 .. Len(writing) : AllSound(staleUse, writing[i].recs, writing[i].kind)
    /\ \A k \in Cids : AllSound(staleUse, Disk(k), file[k].kind)

\* What has become hot is not touched again in the same pass.
HotInv ==
    /\ phase \in {"pairs", "deltas"} => \A r \in hot.recs : \A q \in localMap : r.addr.base # q[1]
    /\ phase = "deltas" => \A r \in hot.recs : r.addr.base # work.old

\* The pair at hand was read right.
ReadInv == phase = "deltas" => work.oldc = work.old /\ work.newc = work.new

\* The chunks of a recipe are stored when the recipe is finalised.
RecipeInv ==
    /\ \A c \in final : Indexed(c)
    /\ \A c \in session.recipe : Indexed(c) \/ \E j \in 1 .. Len(batch.done) : batch.done[j].fp = c
    /\ \A i \in 1 .. Len(batch.todo) : ~batch.todo[i].new =>
          \/ Indexed(batch.todo[i].fp)
          \/ \E j \in 1 .. Len(batch.done) : batch.done[j].fp = batch.todo[i].fp
          \/ \E j \in 1 .. i - 1 : batch.todo[j].new /\ batch.todo[j].fp = batch.todo[i].fp

\* The writer has nothing to do between sessions.
IdleInv == phase = "idle" => queue = <<>> /\ writing = <<>>

LEMMA SoundMono ==
  ASSUME NEW s, NEW t, s => t, NEW R, NEW S, S \subseteq R, NEW kind, AllSound(s, R, kind)
  PROVE  AllSound(t, S, kind)
  BY DEF AllSound, Sound

LEMMA SoundEmpty ==
  ASSUME NEW s, NEW kind
  PROVE  AllSound(s, {}, kind) /\ \A k : AllSound(s, EmptyContainer(k).recs, kind)
  BY EmptyFields DEF AllSound

\* A record added to a container, or put in the place of another.
LEMMA SoundAdd ==
  ASSUME NEW s, NEW R, NEW kind, AllSound(s, R, kind), NEW r, Sound(s, r, kind)
  PROVE  AllSound(s, R \cup {r}, kind)
  BY DEF AllSound

LEMMA RecordInit == Init => RecordInv /\ HotInv /\ ReadInv /\ RecipeInv /\ IdleInv
  <1> SUFFICES ASSUME Init PROVE RecordInv /\ HotInv /\ ReadInv /\ RecipeInv /\ IdleInv
      OBVIOUS
  <1>1. /\ inBase = EmptyContainer(0) /\ inDelta = EmptyContainer(0) /\ hot = EmptyContainer(0)
        /\ queue = <<>> /\ writing = <<>> /\ walk = NoWalk /\ phase = "idle"
        /\ \A k \in Cids : file[k] = NoFile
        /\ final = {} /\ session = NoSession /\ batch = NoBatch
        BY DEF Init
  <1>0. session.recipe = {} /\ batch.todo = <<>>
        BY <1>1 DEF NoBatch, NoSession
  <1>2. Len(queue) = 0 /\ Len(writing) = 0 /\ Len(batch.todo) = 0 /\ session.recipe = {}
        BY <1>0, <1>1, EmptySeq
  <1>3. \A k \in Cids : Disk(k) = {}
        BY <1>1 DEF Disk, NoWalk, NoFile
  <1>4. RecordInv
    <2>1. inBase.recs = {} /\ inDelta.recs = {} /\ hot.recs = {}
          BY <1>1, EmptyFields
    <2>2. /\ AllSound(staleUse, inBase.recs, "base") /\ AllSound(staleUse, inDelta.recs, "delta")
          /\ AllSound(staleUse, hot.recs, "delta")
          BY <2>1 DEF AllSound
    <2>3. \A k \in Cids : AllSound(staleUse, Disk(k), file[k].kind)
          BY <1>3 DEF AllSound
    <2> QED BY <1>2, <2>2, <2>3 DEF RecordInv
  <1>5. HotInv /\ ReadInv /\ IdleInv
        BY <1>1 DEF HotInv, ReadInv, IdleInv
  <1>6. RecipeInv
        BY <1>1, <1>2 DEF RecipeInv
  <1> QED BY <1>4, <1>5, <1>6

-----------------------------------------------------------------------------
(* Records keep their kind and what they are coded against.                *)

\* Steps that leave every container alone.
LEMMA RecordStill ==
  ASSUME RecordInv, UNCHANGED <<inBase, inDelta, hot, queue, writing, file, walk, staleUse>>
  PROVE  RecordInv'
  <1>1. \A k : Disk(k)' = Disk(k)
        BY DEF Disk
  <1> QED BY <1>1 DEF RecordInv

\* Steps of the upload path: only the open containers and the queue change.
LEMMA RecordUpload ==
  ASSUME RecordInv, staleUse => staleUse', UNCHANGED <<hot, writing, file, walk>>,
         AllSound(staleUse', inBase'.recs, "base"), AllSound(staleUse', inDelta'.recs, "delta"),
         \A i \in 1 .. Len(queue') : AllSound(staleUse', queue'[i].recs, queue'[i].kind)
  PROVE  RecordInv'
  <1>1. \A k : Disk(k)' = Disk(k)
        BY DEF Disk
  <1>2. \A R, kind : AllSound(staleUse, R, kind) => AllSound(staleUse', R, kind)
        BY DEF AllSound, Sound
  <1> QED BY <1>1, <1>2 DEF RecordInv

\* Steps of the offline path: only files and the hot container change.
LEMMA RecordOffline ==
  ASSUME RecordInv, UNCHANGED <<inBase, inDelta, queue, writing, staleUse>>,
         AllSound(staleUse, hot'.recs, "delta"),
         \A k \in Cids : AllSound(staleUse, Disk(k)', file'[k].kind)
  PROVE  RecordInv'
  BY DEF RecordInv

\* The queue grows by a container that is sound.
LEMMA QueueSound ==
  ASSUME NEW s, NEW q \in Seq(QueuedContainer), NEW e \in QueuedContainer, AllSound(s, e.recs, e.kind),
         \A i \in 1 .. Len(q) : AllSound(s, q[i].recs, q[i].kind)
  PROVE  \A i \in 1 .. Len(Append(q, e)) : AllSound(s, Append(q, e)[i].recs, Append(q, e)[i].kind)
  <1>1. /\ Len(q) \in Nat /\ Len(Append(q, e)) = Len(q) + 1
        /\ \A i \in 1 .. Len(q) : Append(q, e)[i] = q[i]
        /\ Append(q, e)[Len(q) + 1] = e
        BY AppendProperties, LenProperties
  <1>2. \A i \in 1 .. Len(Append(q, e)) : i \in 1 .. Len(q) \/ i = Len(q) + 1
        BY <1>1
  <1> QED BY <1>1, <1>2

LEMMA SaveRecordSound ==
  ASSUME NEW c \in Container, NEW fp \in Chunks, NEW len \in Nat, NEW base \in ChunkOrNone,
         NEW src \in Chunks \cup {NoChunk, Garbage}, nextCid \in Nat,
         NEW s, s \/ src = base, NEW kind, kind = (IF base = NoChunk THEN "base" ELSE "delta"),
         AllSound(s, c.recs, kind)
  PROVE  AllSound(s, SaveRecord(c, fp, len, base, src).cont.recs, kind)
  <1> DEFINE d == Target(c, len)
             a == [cid |-> d.cid, off |-> d.size, len |-> len, base |-> base]
             r == [pos |-> d.size, fp |-> fp, addr |-> a, src |-> src]
             t == SaveRecord(c, fp, len, base, src)
  <1>1. d \in Container /\ d.recs \subseteq c.recs
        BY EmptyContainerType, EmptyFields DEF Target
  <1>2. t.cont = [d EXCEPT !.recs = @ \cup {r}, !.size = @ + Hdr + len]
        BY DEF SaveRecord, Target
  <1> HIDE DEF d
  <1>3. a.base = base
        OBVIOUS
  <1> HIDE DEF a
  <1>4. r.addr = a /\ r.src = src
        OBVIOUS
  <1> HIDE DEF r
  <1>5. t.cont.recs = d.recs \cup {r}
        BY <1>1, <1>2 DEF Container
  <1>6. Sound(s, r, kind)
        BY <1>3, <1>4 DEF Sound, KindOf
  <1>7. AllSound(s, d.recs, kind)
        BY <1>1, SoundMono
  <1> QED BY <1>5, <1>6, <1>7, SoundAdd

LEMMA WriteContainerSound ==
  ASSUME TypeOK, RecordInv, staleUse => staleUse', NEW c \in Container, NEW kind \in Kinds, NEW len,
         AllSound(staleUse, c.recs, kind), WriteContainer(c, kind, len)
  PROVE  \A i \in 1 .. Len(queue') : AllSound(staleUse', queue'[i].recs, queue'[i].kind)
  <1> DEFINE e == [cid |-> c.cid, recs |-> c.recs, size |-> c.size, kind |-> kind]
  <1>1. \A i \in 1 .. Len(queue) : AllSound(staleUse', queue[i].recs, queue[i].kind)
        BY DEF RecordInv, AllSound, Sound
  <1>2. queue \in Seq(QueuedContainer)
        BY DEF TypeOK, ContainerTypes
  <1>3. e \in QueuedContainer /\ e.recs = c.recs /\ e.kind = kind
        BY DEF Container, QueuedContainer
  <1>4. AllSound(staleUse', e.recs, e.kind)
        BY <1>3 DEF AllSound, Sound
  <1>5. queue' = queue \/ queue' = Append(queue, e)
        BY DEF WriteContainer
  <1> HIDE DEF e
  <1> QED BY <1>1, <1>2, <1>3, <1>4, <1>5, QueueSound

LEMMA RecordStore ==
  ASSUME TypeOK, TypeOK', RecordInv, StoreNew
  PROVE  RecordInv'
  <1> DEFINE e == Head(batch.todo)
  <1>1. AtNewChunk /\ UNCHANGED <<hot, writing, file>>
        BY StoreCases
  <1>2. walk' = walk
        BY DEF StoreNew, StoreUnique, StoreDeferred, StoreSimilarCached, StoreSimilarLoaded,
               StoreSimilarMissing, offlineVars
  <1>3. e.fp \in Chunks /\ e.base \in ChunkOrNone /\ NoChunk \in ChunkOrNone
        BY <1>1, AtNewChunkType
  <1>4. inBase \in Container /\ inDelta \in Container /\ nextCid \in Nat /\ staleUse \in BOOLEAN
        BY DEF TypeOK, ContainerTypes, SessionTypes
  <1>5. /\ AllSound(staleUse, inBase.recs, "base") /\ AllSound(staleUse, inDelta.recs, "delta")
        BY DEF RecordInv
  <1> HIDE DEF e
  <1>6. ASSUME NEW old, SavebaseChunk(e.fp, old)
        PROVE  RecordInv'
    <2> DEFINE s == SaveRecord(inBase, e.fp, CLen[e.fp], NoChunk, NoChunk)
    <2>1. WriteContainer(inBase, "base", CLen[e.fp]) /\ inBase' = s.cont /\ UNCHANGED <<inDelta, staleUse>>
          BY <1>6 DEF SavebaseChunk
    <2>2. CLen[e.fp] \in Nat /\ "base" \in Kinds
          BY <1>3, SizeAssumption DEF Kinds
    <2>3. AllSound(staleUse, s.cont.recs, "base")
          BY <1>3, <1>4, <1>5, <2>2, SaveRecordSound
    <2> HIDE DEF s
    <2>4. \A i \in 1 .. Len(queue') : AllSound(staleUse', queue'[i].recs, queue'[i].kind)
          BY <1>4, <1>5, <2>1, <2>2, WriteContainerSound
    <2> QED BY <1>1, <1>2, <1>5, <2>1, <2>3, <2>4, RecordUpload
  <1>7. ASSUME NEW len \in Nat, NEW src \in Chunks \cup {Garbage}, e.base # NoChunk,
               SavedeltaChunk(e.fp, len, e.base, src)
        PROVE  RecordInv'
    <2> DEFINE s == SaveRecord(inDelta, e.fp, len, e.base, src)
    <2>1. /\ WriteContainer(inDelta, "delta", len) /\ inDelta' = s.cont
          /\ staleUse' = (staleUse \/ src # e.base) /\ inBase' = inBase
          BY <1>7 DEF SavedeltaChunk
    <2>2. "delta" \in Kinds
          BY DEF Kinds
    <2>3. (staleUse => staleUse') /\ (staleUse' \/ src = e.base)
          BY <2>1
    <2>4. AllSound(staleUse', inDelta.recs, "delta") /\ AllSound(staleUse', inBase.recs, "base")
          BY <1>5, <2>3 DEF AllSound, Sound
    <2>5. AllSound(staleUse', s.cont.recs, "delta")
      <3>1. PICK stale : stale = staleUse'
            OBVIOUS
      <3>2. AllSound(stale, s.cont.recs, "delta")
            BY <1>3, <1>4, <1>7, <2>3, <2>4, <3>1, SaveRecordSound
      <3> QED BY <3>1, <3>2
    <2> HIDE DEF s
    <2>6. \A i \in 1 .. Len(queue') : AllSound(staleUse', queue'[i].recs, queue'[i].kind)
          BY <1>4, <1>5, <2>1, <2>2, <2>3, WriteContainerSound
    <2> QED BY <1>1, <1>2, <2>1, <2>3, <2>4, <2>5, <2>6, RecordUpload
  <1> QED BY <1>6, <1>7, StoreCases DEF e

LEMMA TailOfSound ==
  ASSUME NEW s, NEW q \in Seq(QueuedContainer), NEW c \in Container, NEW kind \in Kinds,
         AllSound(s, c.recs, kind), \A i \in 1 .. Len(q) : AllSound(s, q[i].recs, q[i].kind)
  PROVE  /\ q \o TailOf(c, kind) \in Seq(QueuedContainer)
         /\ \A i \in 1 .. Len(q \o TailOf(c, kind)) :
              AllSound(s, (q \o TailOf(c, kind))[i].recs, (q \o TailOf(c, kind))[i].kind)
  <1> DEFINE e == [cid |-> c.cid, recs |-> c.recs, size |-> c.size, kind |-> kind]
  <1>1. e \in QueuedContainer /\ e.recs = c.recs /\ e.kind = kind
        BY DEF Container, QueuedContainer
  <1>2. TailOf(c, kind) = IF c.size = 0 THEN <<>> ELSE <<e>>
        BY DEF TailOf
  <1> HIDE DEF e
  <1>3. CASE c.size = 0
    <2>1. q \o TailOf(c, kind) = q
          BY <1>2, <1>3, ConcatEmptySeq
    <2> QED BY <2>1
  <1>4. CASE c.size # 0
    <2>1. q \o TailOf(c, kind) = Append(q, e)
          BY <1>1, <1>2, <1>4, AppendIsConcat
    <2>2. Append(q, e) \in Seq(QueuedContainer)
          BY <1>1, AppendProperties
    <2> QED BY <2>1, <2>2, <1>1, QueueSound
  <1> QED BY <1>3, <1>4

LEMMA RecordSession ==
  ASSUME TypeOK, RecordInv,
         \/ \E op \in {"upload", "offline"} : StartSession(op)
         \/ CloseSession \/ Disconnect
  PROVE  RecordInv'
  <1>1. /\ UNCHANGED <<hot, writing, file, walk, staleUse>>
        BY DEF StartSession, CloseSession, Disconnect, writerVars, offlineVars, historyVars
  <1>2. \E j, k : inBase' = EmptyContainer(j) /\ inDelta' = EmptyContainer(k)
        BY DEF StartSession, CloseSession, Disconnect
  <1>3. AllSound(staleUse, inBase'.recs, "base") /\ AllSound(staleUse, inDelta'.recs, "delta")
        BY <1>2, SoundEmpty
  <1>4. \A i \in 1 .. Len(queue') : AllSound(staleUse, queue'[i].recs, queue'[i].kind)
    <2>1. CASE CloseSession
      <3>1. queue' = queue \o TailContainers
            BY <2>1 DEF CloseSession
      <3>2. /\ queue \in Seq(QueuedContainer) /\ inBase \in Container /\ inDelta \in Container
            /\ "base" \in Kinds /\ "delta" \in Kinds
            BY DEF TypeOK, ContainerTypes, Kinds
      <3> DEFINE t == TailOf(inBase, "base")
                 u == TailOf(inDelta, "delta")
                 p == queue \o t
      <3>0. /\ AllSound(staleUse, inBase.recs, "base")
            /\ \A i \in 1 .. Len(queue) : AllSound(staleUse, queue[i].recs, queue[i].kind)
            BY DEF RecordInv
      <3>3. p \in Seq(QueuedContainer) /\ \A i \in 1 .. Len(p) : AllSound(staleUse, p[i].recs, p[i].kind)
            BY <3>0, <3>2, TailOfSound
      <3>4. t \in Seq(QueuedContainer) /\ u \in Seq(QueuedContainer)
            BY <3>2, TailOfNames
      <3>5. queue' = p \o u
        <4>1. TailContainers = t \o u
              BY DEF TailContainers
        <4> HIDE DEF t, u
        <4>2. (queue \o t) \o u = queue \o (t \o u)
              BY <3>2, <3>4, ConcatAssociative
        <4> QED BY <3>1, <4>1, <4>2
      <3> HIDE DEF p
      <3>6. AllSound(staleUse, inDelta.recs, "delta")
            BY DEF RecordInv
      <3> QED BY <3>2, <3>3, <3>5, <3>6, TailOfSound
    <2>2. CASE ~CloseSession
      <3>1. queue' = queue
            BY <2>2 DEF StartSession, Disconnect, writerVars
      <3> QED BY <3>1 DEF RecordInv
    <2> QED BY <2>1, <2>2
  <1> QED BY <1>1, <1>3, <1>4, RecordUpload

\* With no container being squeezed, what is on disk is what the files hold.
LEMMA PlainDisk ==
  ASSUME TypeOK, walk.cid = 0, walk'.cid = 0
  PROVE  \A k \in Cids : Disk(k) = file[k].recs /\ Disk(k)' = file'[k].recs
  <1>1. \A k \in Cids : k # 0
        BY PlaceTypes
  <1> QED BY <1>1 DEF Disk

LEMMA RecordFiles ==
  ASSUME TypeOK, RecordInv, walk.cid = 0, walk' = walk, UNCHANGED <<inBase, inDelta, queue, writing, staleUse>>,
         AllSound(staleUse, hot'.recs, "delta"),
         \A k \in Cids : file'[k] = file[k] \/ AllSound(staleUse, file'[k].recs, file'[k].kind)
  PROVE  RecordInv'
  <1>1. \A k \in Cids : Disk(k) = file[k].recs /\ Disk(k)' = file'[k].recs
        BY PlainDisk
  <1>2. \A k \in Cids : AllSound(staleUse, Disk(k), file[k].kind)
        BY DEF RecordInv
  <1>3. ASSUME NEW k \in Cids PROVE AllSound(staleUse, Disk(k)', file'[k].kind)
        BY <1>1, <1>2
  <1> QED BY <1>3, RecordOffline

LEMMA RecordWriterOpen ==
  ASSUME TypeOK, PlaceInv, RecordInv, WriterOpen
  PROVE  RecordInv'
  <1> DEFINE q == Head(queue)
  <1>1. /\ writing = <<>> /\ queue # <<>> /\ writing' = <<q>> /\ queue' = Tail(queue)
        /\ file' = [file EXCEPT ![q.cid] = [kind |-> q.kind, recs |-> {}, size |-> 0]]
        /\ UNCHANGED <<walk, inBase, inDelta, hot, staleUse>>
        BY DEF WriterOpen, enclaveVars, offlineVars, historyVars
  <1>2. walk.cid = 0
        BY <1>1, WriterPhase DEF PlaceInv, PhaseFacts, NoWalk
  <1>3. queue \in Seq(QueuedContainer) /\ file \in [Cids -> File]
        BY DEF TypeOK, ContainerTypes
  <1>4. /\ Len(queue) \in Nat /\ q = queue[1] /\ 1 \in 1 .. Len(queue)
        /\ Len(queue') = Len(queue) - 1 /\ \A i \in 1 .. Len(queue') : queue'[i] = queue[i + 1]
    <2>1. Len(queue) \in Nat /\ Len(queue) # 0 /\ q = queue[1]
          BY <1>1, <1>3, LenProperties, EmptySeq
    <2>2. Len(queue') = Len(queue) - 1 /\ \A i \in 1 .. Len(queue') : queue'[i] = queue[i + 1]
          BY <1>1, <1>3, HeadTailProperties
    <2> QED BY <2>1, <2>2
  <1>5. \A i \in 1 .. Len(queue) : AllSound(staleUse, queue[i].recs, queue[i].kind)
        BY DEF RecordInv
  <1>6. \A i \in 1 .. Len(queue') : AllSound(staleUse, queue'[i].recs, queue'[i].kind)
    <2>1. \A i \in 1 .. Len(queue') : i + 1 \in 1 .. Len(queue)
          BY <1>4
    <2> QED BY <2>1, <1>4, <1>5
  <1>7. AllSound(staleUse, q.recs, q.kind)
        BY <1>4, <1>5
  <1> HIDE DEF q
  <1>8. \A i \in 1 .. Len(writing') : AllSound(staleUse, writing'[i].recs, writing'[i].kind)
    <2>1. Len(<<q>>) = 1 /\ <<q>>[1] = q
          OBVIOUS
    <2>2. \A i \in 1 .. 1 : i = 1
          OBVIOUS
    <2> QED BY <2>1, <2>2, <1>1, <1>7
  <1>9. ASSUME NEW k \in Cids PROVE AllSound(staleUse, Disk(k)', file'[k].kind)
    <2>1. Disk(k) = file[k].recs /\ Disk(k)' = file'[k].recs
          BY <1>1, <1>2, PlainDisk
    <2>2. file'[k] = file[k] \/ file'[k].recs = {}
          BY <1>1, <1>3
    <2>3. AllSound(staleUse, Disk(k), file[k].kind)
          BY DEF RecordInv
    <2> QED BY <2>1, <2>2, <2>3, SoundEmpty
  <1>10. /\ AllSound(staleUse, inBase.recs, "base") /\ AllSound(staleUse, inDelta.recs, "delta")
         /\ AllSound(staleUse, hot.recs, "delta")
         BY DEF RecordInv
  <1> QED BY <1>1, <1>6, <1>8, <1>9, <1>10 DEF RecordInv

LEMMA RecordWriterSave ==
  ASSUME TypeOK, NameInv, PlaceInv, RecordInv, WriterSave
  PROVE  RecordInv'
  <1> DEFINE q == writing[1]
  <1>1. /\ writing # <<>> /\ writing' = <<>> /\ queue' = queue
        /\ file' = [file EXCEPT ![q.cid] = [kind |-> q.kind, recs |-> q.recs, size |-> q.size]]
        /\ UNCHANGED <<walk, inBase, inDelta, hot, staleUse>>
        BY DEF WriterSave, enclaveVars, offlineVars, historyVars
  <1>2. walk.cid = 0
        BY <1>1, WriterPhase DEF PlaceInv, PhaseFacts, NoWalk
  <1>3. writing \in Seq(QueuedContainer) /\ file \in [Cids -> File]
        BY DEF TypeOK, ContainerTypes
  <1>4. 1 \in 1 .. Len(writing)
    <2>1. Len(writing) \in Nat /\ Len(writing) # 0
          BY <1>1, <1>3, LenProperties, EmptySeq
    <2> QED BY <2>1
  <1>5. AllSound(staleUse, q.recs, q.kind)
        BY <1>4 DEF RecordInv
  <1> HIDE DEF q
  <1>6. ASSUME NEW k \in Cids PROVE AllSound(staleUse, Disk(k)', file'[k].kind)
    <2>1. Disk(k) = file[k].recs /\ Disk(k)' = file'[k].recs
          BY <1>1, <1>2, PlainDisk
    <2>2. file'[k] = file[k] \/ (file'[k].recs = q.recs /\ file'[k].kind = q.kind)
          BY <1>1, <1>3
    <2>3. AllSound(staleUse, Disk(k), file[k].kind)
          BY DEF RecordInv
    <2> QED BY <2>1, <2>2, <2>3, <1>5
  <1>7. Len(writing') = 0
        BY <1>1, EmptySeq
  <1>8. \A i \in 1 .. Len(writing') : AllSound(staleUse, writing'[i].recs, writing'[i].kind)
        BY <1>7
  <1>10. /\ AllSound(staleUse, inBase.recs, "base") /\ AllSound(staleUse, inDelta.recs, "delta")
         /\ AllSound(staleUse, hot.recs, "delta")
         /\ \A i \in 1 .. Len(queue) : AllSound(staleUse, queue[i].recs, queue[i].kind)
         BY DEF RecordInv
  <1> QED BY <1>1, <1>6, <1>8, <1>10 DEF RecordInv

LEMMA RecordSaveHot ==
  ASSUME TypeOK, PlaceInv, RecordInv, SaveHot
  PROVE  RecordInv'
  <1>1. /\ phase = "pairs" /\ hot' = EmptyContainer(0)
        /\ file' = IF hot.size = 0 THEN file ELSE [file EXCEPT ![hot.cid] = HotFile]
        /\ UNCHANGED <<inBase, inDelta, queue, writing, walk, staleUse>>
        BY DEF SaveHot, writerVars, enclaveVars, historyVars
  <1>2. walk.cid = 0
        BY <1>1, OfflinePhase
  <1>3. AllSound(staleUse, hot.recs, "delta") /\ AllSound(staleUse, hot'.recs, "delta")
        BY <1>1, SoundEmpty DEF RecordInv
  <1>4. HotFile.kind = "delta" /\ HotFile.recs = hot.recs
        BY DEF HotFile
  <1>5. file \in [Cids -> File]
        BY DEF TypeOK, ContainerTypes
  <1>6. \A k \in Cids : file'[k] = file[k] \/ file'[k] = HotFile
        BY <1>1, <1>5
  <1> QED BY <1>1, <1>2, <1>3, <1>4, <1>6, RecordFiles

LEMMA RecordBeginCold ==
  ASSUME TypeOK, PlaceInv, RecordInv, NEW k \in Cids, BeginCold(k)
  PROVE  RecordInv'
  <1>1. /\ phase = "cold" /\ UNCHANGED <<file, hot, inBase, inDelta, queue, writing, staleUse>>
        /\ walk' = [NoWalk EXCEPT !.cid = k, !.buf = ocall', !.size = file[k].size, !.rest = cold[k]]
        BY DEF BeginCold, writerVars, enclaveVars, historyVars
  <1>2. walk.cid = 0
        BY <1>1, OfflinePhase
  <1>3. walk'.recs = {}
        BY <1>1 DEF NoWalk
  <1>4. ASSUME NEW j \in Cids PROVE AllSound(staleUse, Disk(j)', file'[j].kind)
    <2>1. Disk(j)' \subseteq file[j].recs
          BY <1>1, <1>3 DEF Disk
    <2>2. Disk(j) = file[j].recs
          BY <1>2, PlaceTypes DEF Disk
    <2>3. AllSound(staleUse, Disk(j), file[j].kind)
          BY DEF RecordInv
    <2> QED BY <2>1, <2>2, <2>3, <1>1 DEF AllSound
  <1>5. AllSound(staleUse, hot'.recs, "delta")
        BY <1>1 DEF RecordInv
  <1> QED BY <1>1, <1>4, <1>5, RecordOffline

LEMMA RecordDropRecord ==
  ASSUME TypeOK, PlaceInv, RecordInv, NEW q \in walk.rest, DropRecord(q)
  PROVE  RecordInv'
  <1>1. /\ phase = "walk" /\ UNCHANGED <<file, hot, inBase, inDelta, queue, writing, staleUse>>
        /\ IsNextCold(q) /\ walk.saveset >= q[1]
        /\ walk' = [walk EXCEPT !.rest = @ \ {q}, !.coldset = @ + q[2], !.saveset = @ + q[2]]
        BY DEF DropRecord, writerVars, enclaveVars, historyVars
  <1>2. /\ walk \in Walk /\ walk.saveset \in Int /\ walk.cid \in Cids /\ file[walk.cid].recs \in SUBSET Rec
        BY <1>1, PlaceTypes, WalkFacts
  <1>3. walk'.recs = walk.recs /\ walk'.cid = walk.cid /\ walk'.saveset = walk.saveset + q[2]
        BY <1>1, <1>2 DEF Walk
  <1>4. q[2] \in Int /\ q[2] >= 0
    <2>1. PICK t \in file[walk.cid].recs : q = <<t.pos, t.addr.len + Hdr>>
          BY <1>1, WalkFacts
    <2>2. t.addr.len \in Nat /\ Hdr \in Nat
          BY <2>1, <1>2, RecFields, HdrPositive
    <2> QED BY <2>1, <2>2
  <1>5. \A j \in Cids : \A r \in file[j].recs : r.pos \in Int
        BY PlaceTypes, RecFields
  <1>6. ASSUME NEW j \in Cids PROVE Disk(j)' \subseteq Disk(j)
    <2>1. \A r \in file[j].recs : r.pos >= walk'.saveset => r.pos >= walk.saveset
          BY <1>2, <1>3, <1>4, <1>5
    <2> QED BY <2>1, <1>1, <1>3 DEF Disk
  <1>7. ASSUME NEW j \in Cids PROVE AllSound(staleUse, Disk(j)', file'[j].kind)
    <2>1. AllSound(staleUse, Disk(j), file[j].kind)
          BY DEF RecordInv
    <2> QED BY <2>1, <1>1, <1>6 DEF AllSound
  <1>8. AllSound(staleUse, hot'.recs, "delta")
        BY <1>1 DEF RecordInv
  <1> QED BY <1>1, <1>7, <1>8, RecordOffline

LEMMA RecordEndCold ==
  ASSUME TypeOK, PlaceInv, RecordInv, EndCold
  PROVE  RecordInv'
  <1> DEFINE k == walk.cid
  <1>1. /\ phase = "walk" /\ walk' = NoWalk
        /\ file' = [file EXCEPT ![k].recs = walk.recs, ![k].size = walk.size - walk.coldset]
        /\ UNCHANGED <<inBase, inDelta, hot, queue, writing, staleUse>>
        BY DEF EndCold, writerVars, enclaveVars, historyVars
  <1>2. /\ k \in Cids /\ Disk(k) = walk.recs \cup {t \in file[k].recs : t.pos >= walk.saveset}
        /\ \A j \in Cids : j # k => Disk(j) = file[j].recs
        BY <1>1, WalkFacts
  <1>3. file \in [Cids -> File]
        BY DEF TypeOK, ContainerTypes
  <1>4. /\ \A j \in Cids : j # k => file'[j] = file[j]
        /\ file'[k].recs = walk.recs /\ file'[k].kind = file[k].kind
    <2>1. \A j \in Cids : j # k => file'[j] = file[j]
          BY <1>1, <1>3
    <2>2. file'[k] = [file[k] EXCEPT !.recs = walk.recs, !.size = walk.size - walk.coldset]
          BY <1>1, <1>2, <1>3
    <2>3. file[k] \in File
          BY <1>2, <1>3
    <2> QED BY <2>1, <2>2, <2>3 DEF File
  <1>5. ASSUME NEW j \in Cids PROVE AllSound(staleUse, Disk(j)', file'[j].kind)
    <2>1. Disk(j)' = file'[j].recs
      <3>1. walk'.cid = 0 /\ j # 0
            BY <1>1, PlaceTypes DEF NoWalk
      <3> QED BY <3>1 DEF Disk
    <2>2. file'[j].recs \subseteq Disk(j) /\ file'[j].kind = file[j].kind
          BY <1>2, <1>4
    <2>3. AllSound(staleUse, Disk(j), file[j].kind)
          BY DEF RecordInv
    <2> QED BY <2>1, <2>2, <2>3 DEF AllSound
  <1>6. AllSound(staleUse, hot'.recs, "delta")
        BY <1>1 DEF RecordInv
  <1> QED BY <1>1, <1>5, <1>6, RecordOffline

LEMMA RecordCopyRecord ==
  ASSUME TypeOK, PlaceInv, RecordInv, NEW r \in walk.buf, CopyRecord(r)
  PROVE  RecordInv'
  <1> DEFINE k == walk.cid
             a == Lowered(r.addr)
             n == [r EXCEPT !.pos = walk.newset, !.addr = a]
  <1>1. /\ phase = "walk" /\ UNCHANGED <<file, hot, inBase, inDelta, queue, writing, staleUse>>
        /\ walk' = [walk EXCEPT !.recs = @ \cup {n}, !.saveset = @ + Hdr + r.addr.len,
                                !.newset = @ + Hdr + r.addr.len]
        BY DEF CopyRecord, writerVars, enclaveVars, historyVars
  <1>2. /\ k \in Cids /\ walk \in Walk /\ walk.saveset \in Int /\ walk.newset \in Int /\ walk.coldset \in Int
        /\ Disk(k) = walk.recs \cup {t \in file[k].recs : t.pos >= walk.saveset}
        BY <1>1, WalkFacts, PlaceTypes
  <1>3. r \in file[k].recs /\ r \in Rec /\ r.pos = walk.saveset
        BY CopyAtRecord
  <1>4. n.addr.base = r.addr.base /\ n.src = r.src
    <2>1. n = Copied(r)
          BY DEF Copied
    <2> QED BY <2>1, <1>2, <1>3, CopiedFields
  <1>5. r.addr.len \in Nat /\ Hdr \in Nat
        BY <1>3, RecFields, HdrPositive
  <1> HIDE DEF n
  <1>6. walk'.recs = walk.recs \cup {n} /\ walk'.cid = k /\ walk'.saveset = walk.saveset + Hdr + r.addr.len
        BY <1>1, <1>2 DEF Walk
  <1>7. walk'.saveset >= walk.saveset /\ walk'.saveset \in Int
        BY <1>2, <1>5, <1>6
  <1>8. \A j \in Cids : \A t \in file[j].recs : t.pos \in Int
        BY PlaceTypes, RecFields
  <1>9. AllSound(staleUse, Disk(k), file[k].kind)
        BY <1>2 DEF RecordInv
  <1>10. r \in Disk(k)
    <2>1. r.pos >= walk.saveset
          BY <1>2, <1>3
    <2> QED BY <2>1, <1>2, <1>3
  <1>11. Sound(staleUse, n, file[k].kind)
    <2>1. Sound(staleUse, r, file[k].kind)
          BY <1>9, <1>10 DEF AllSound
    <2> QED BY <2>1, <1>4 DEF Sound, KindOf
  <1>12. ASSUME NEW j \in Cids PROVE AllSound(staleUse, Disk(j)', file'[j].kind)
    <2>1. CASE j = k
      <3>1. \A t \in file[k].recs : t.pos >= walk'.saveset => t.pos >= walk.saveset
            BY <1>2, <1>7, <1>8
      <3>2. Disk(j)' \subseteq Disk(k) \cup {n}
            BY <2>1, <3>1, <1>1, <1>2, <1>6 DEF Disk
      <3>3. AllSound(staleUse, Disk(k) \cup {n}, file[k].kind)
            BY <1>9, <1>11, SoundAdd
      <3> QED BY <2>1, <3>2, <3>3, <1>1 DEF AllSound
    <2>2. CASE j # k
      <3>1. Disk(j)' = Disk(j)
            BY <2>2, <1>1, <1>6 DEF Disk
      <3> QED BY <3>1, <1>1 DEF RecordInv
    <2> QED BY <2>1, <2>2
  <1>13. AllSound(staleUse, hot'.recs, "delta")
        BY <1>1 DEF RecordInv
  <1> QED BY <1>1, <1>12, <1>13, RecordOffline

LEMMA RecordMergePair ==
  ASSUME TypeOK, PlaceInv, RecordInv, NEW q \in merges, MergePair(q)
  PROVE  RecordInv'
  <1> DEFINE i == q[1]
             j == q[2]
             S == file[q[2]].recs
             by == file[q[1]].size
             T == {Shifted(r, q[1], file[q[1]].size) : r \in file[q[2]].recs}
  <1>1. /\ phase = "merge"
        /\ file' = [file EXCEPT ![i].recs = @ \cup T, ![i].size = @ + file[j].size, ![j] = NoFile]
        /\ UNCHANGED <<inBase, inDelta, queue, writing, hot, walk, staleUse>>
        BY DEF MergePair, writerVars, enclaveVars, historyVars
  <1>2. i \in Cids /\ j \in Cids /\ file \in [Cids -> File]
        BY DEF TypeOK, OfflineTypes, ContainerTypes
  <1>3. i # j /\ file[i].kind = "base" /\ file[j].kind = "base"
        BY <1>1 DEF PlaceInv, MergeInv
  <1>4. i \in Nat /\ S \in SUBSET Rec /\ by \in Int
        BY <1>2, PlaceTypes
  <1>5. walk.cid = 0
        BY <1>1, OfflinePhase
  <1>6. \A k \in Cids : AllSound(staleUse, file[k].recs, file[k].kind)
    <2>1. \A k \in Cids : Disk(k) = file[k].recs
          BY <1>1, <1>5, PlainDisk
    <2>2. \A k \in Cids : AllSound(staleUse, Disk(k), file[k].kind)
          BY DEF RecordInv
    <2> QED BY <2>1, <2>2
  <1>7. AllSound(staleUse, T, "base")
    <2>1. ASSUME NEW r \in S PROVE Sound(staleUse, Shifted(r, i, by), "base")
      <3>1. Sound(staleUse, r, "base")
            BY <1>2, <1>3, <1>6 DEF AllSound
      <3>2. Shifted(r, i, by).addr.base = r.addr.base /\ Shifted(r, i, by).src = r.src
            BY <1>4, ShiftedFields
      <3> QED BY <3>1, <3>2 DEF Sound, KindOf
    <2> QED BY <2>1 DEF AllSound
  <1> HIDE DEF T
  <1>8. /\ file'[i].recs = file[i].recs \cup T /\ file'[i].kind = "base" /\ file'[j] = NoFile
        /\ \A k \in Cids : k # i /\ k # j => file'[k] = file[k]
    <2>1. file[i] \in File
          BY <1>2
    <2>2. file'[i] = [file[i] EXCEPT !.recs = @ \cup T, !.size = @ + file[j].size]
          BY <1>1, <1>2, <1>3
    <2>3. file'[j] = NoFile /\ \A k \in Cids : k # i /\ k # j => file'[k] = file[k]
          BY <1>1, <1>2, <1>3
    <2> QED BY <2>1, <2>2, <2>3, <1>3 DEF File
  <1>9. NoFile.recs = {}
        BY DEF NoFile
  <1>10. ASSUME NEW k \in Cids
         PROVE  file'[k] = file[k] \/ AllSound(staleUse, file'[k].recs, file'[k].kind)
    <2>1. CASE k = i
      <3>1. AllSound(staleUse, file[i].recs, "base")
            BY <1>2, <1>3, <1>6
      <3> QED BY <2>1, <3>1, <1>7, <1>8 DEF AllSound
    <2>2. CASE k = j
          BY <2>2, <1>8, <1>9, SoundEmpty
    <2> QED BY <2>1, <2>2, <1>8
  <1>11. AllSound(staleUse, hot'.recs, "delta")
        BY <1>1 DEF RecordInv
  <1> QED BY <1>1, <1>5, <1>10, <1>11, RecordFiles

\* InsertHot_container with a delta that was coded against the new base.
LEMMA MovedRecords ==
  ASSUME TypeOK, TypeOK', NameInv, PlaceInv, RecordInv, phase = "deltas",
         NEW c \in Chunks, NEW len \in Nat, NEW src \in Chunks \cup {Garbage}, work.new \in Chunks,
         len <= Size[c], MoveToHot(c, len, src), UNCHANGED <<inBase, inDelta, queue, writing, walk, staleUse>>,
         staleUse \/ src = work.new
  PROVE  RecordInv' /\ \A t \in hot'.recs : t \in hot.recs \/ t.addr.base = work.new
  <1>1. PICK r \in Rec :
           /\ Grows(Target(hot, len), hot', r) /\ r.src = src /\ r.addr.base = work.new
           /\ \A k \in Cids : \/ file'[k] = file[k]
                              \/ file'[k].kind = "delta" /\ file'[k].recs = hot.recs
        BY MoveToHotGrows
  <1>2. hot'.recs \subseteq hot.recs \cup {r}
    <2>1. Target(hot, len).recs \subseteq hot.recs
          BY EmptyFields DEF Target
    <2> QED BY <2>1, <1>1 DEF Grows
  <1>3. work.new # NoChunk
        BY ChunkAssumption
  <1>4. Sound(staleUse, r, "delta")
        BY <1>1, <1>3 DEF Sound, KindOf
  <1>5. AllSound(staleUse, hot.recs, "delta")
        BY DEF RecordInv
  <1>6. AllSound(staleUse, hot'.recs, "delta")
        BY <1>2, <1>4, <1>5 DEF AllSound
  <1>7. walk.cid = 0
        BY OfflinePhase
  <1>8. \A k \in Cids : file'[k] = file[k] \/ AllSound(staleUse, file'[k].recs, file'[k].kind)
        BY <1>1, <1>5
  <1>9. RecordInv'
        BY <1>6, <1>7, <1>8, RecordFiles
  <1> QED BY <1>1, <1>2, <1>9

\* GetNew_deltachunk decodes a delta against the old base it was coded with.
LEMMA RecodedRight ==
  ASSUME TypeOK, PairAtHand, NameInv, PlaceInv, ChainInv, RecordInv, ReadInv, phase = "deltas", ~staleUse,
         NEW d \in work.deltas, HasDeltaFile(d)
  PROVE  Recoded(Load(file[fpIndex[d].cid]), fpIndex[d]) = work.new
  <1> DEFINE k == fpIndex[d].cid
             buf == Load(file[fpIndex[d].cid])
  <1>1. d \in Chunks
        BY DEF TypeOK, OfflineTypes, Work
  <1>2. k \in Cids /\ file[k].kind = "delta"
        BY DEF HasDeltaFile, HasFile
  <1>3. PICK r \in file[k].recs : r.fp = d /\ r.addr = fpIndex[d] /\ r.pos = fpIndex[d].off
        BY <1>1, <1>2, EntryOnDisk
  <1>4. Disk(k) = file[k].recs
        BY <1>2, DiskIsFile DEF PlaceInv
  <1>5. AllSound(staleUse, Disk(k), file[k].kind)
        BY <1>2 DEF RecordInv
  <1>6. r.src = r.addr.base
    <2>1. Sound(staleUse, r, file[k].kind)
          BY <1>3, <1>4, <1>5 DEF AllSound
    <2> QED BY <2>1 DEF Sound
  <1>7. fpIndex[d].base = work.old
        BY DEF ChainInv, PairInv
  <1>8. work.oldc = work.old /\ work.newc = work.new
        BY DEF ReadInv
  <1>9. r \in RecordAt(buf, fpIndex[d])
    <2>1. r \in buf
          BY <1>3 DEF Load
    <2> QED BY <2>1, <1>3 DEF RecordAt
  <1>10. r.src = work.oldc
        BY <1>3, <1>6, <1>7, <1>8
  <1> QED BY <1>8, <1>9, <1>10 DEF Recoded

\* What has become hot is not touched again.
LEMMA HotMoved ==
  ASSUME TypeOK, PairAtHand, ChainInv, HotInv, phase = "deltas", localMap' = localMap,
         phase' = "deltas" => work'.old = work.old,
         \A t \in hot'.recs : t \in hot.recs \/ t.addr.base = work.new
  PROVE  HotInv'
  <1>1. work.old # work.new /\ \A q \in localMap : q[1] # work.new
        BY DEF ChainInv, PairInv
  <1>2. /\ \A t \in hot.recs : \A q \in localMap : t.addr.base # q[1]
        /\ \A t \in hot.recs : t.addr.base # work.old
        BY DEF HotInv
  <1> QED BY <1>1, <1>2 DEF HotInv

LEMMA RecordMoveDelta ==
  ASSUME TypeOK, TypeOK', PairAtHand, NameInv, PlaceInv, ChainInv, RecordInv, HotInv, ReadInv,
         NEW d \in work.deltas, MoveDelta(d)
  PROVE  RecordInv' /\ HotInv' /\ ReadInv'
  <1> DEFINE content == Recoded(Load(file[fpIndex[d].cid]), fpIndex[d])
  <1>1. /\ phase = "deltas" /\ phase' = "deltas" /\ HasDeltaFile(d)
        /\ UNCHANGED <<inBase, inDelta, queue, writing, walk, localMap, staleUse>>
        BY DEF MoveDelta, writerVars, historyVars, localVars
  <1>2. PICK len \in RecodedLens(d, content) :
           \/ UNCHANGED <<file, hot>> /\ work' = [work EXCEPT !.deltas = @ \ {d}, !.flag = FALSE]
           \/ /\ ~(len > Size[d]) /\ MoveToHot(d, len, content)
              /\ work' = [work EXCEPT !.deltas = @ \ {d}]
        BY DEF MoveDelta
  <1>3. d \in Chunks /\ work \in Work /\ work.new \in Chunks
        BY <1>1 DEF TypeOK, OfflineTypes, Work, PairAtHand
  <1>4. content \in Chunks \cup {Garbage}
        BY <1>3, RecodedType
  <1>5. len \in Nat /\ Size[d] \in Nat
    <2>1. DSize[d][work.new] \in Nat /\ Size[d] \in Nat
          BY <1>3, SizeAssumption
    <2> QED BY <2>1 DEF RecodedLens
  <1>6. /\ work'.old = work.old /\ work'.new = work.new
        /\ work'.oldc = work.oldc /\ work'.newc = work.newc
        BY <1>2, <1>3 DEF Work
  <1>7. ReadInv'
        BY <1>1, <1>6 DEF ReadInv
  <1>8. staleUse \/ content = work.new
        BY <1>1, RecodedRight
  <1> HIDE DEF content
  <1>9. CASE UNCHANGED <<file, hot>>
    <2>1. RecordInv'
          BY <1>1, <1>9, RecordStill
    <2>2. HotInv'
          BY <1>1, <1>6, <1>9, HotMoved
    <2> QED BY <2>1, <2>2, <1>7
  <1>10. CASE ~(len > Size[d]) /\ MoveToHot(d, len, content)
    <2>1. len <= Size[d]
          BY <1>5, <1>10
    <2>2. RecordInv' /\ \A t \in hot'.recs : t \in hot.recs \/ t.addr.base = work.new
          BY <2>1, <1>1, <1>3, <1>4, <1>5, <1>8, <1>10, MovedRecords
    <2>3. HotInv'
          BY <2>2, <1>1, <1>6, HotMoved
    <2> QED BY <2>2, <2>3, <1>7
  <1> QED BY <1>2, <1>9, <1>10

LEMMA RecordMoveBase ==
  ASSUME TypeOK, TypeOK', PairAtHand, NameInv, PlaceInv, ChainInv, RecordInv, HotInv, ReadInv, MoveBase
  PROVE  RecordInv' /\ HotInv' /\ ReadInv'
  <1> DEFINE o == work.old
             len == DSize[o][work.new]
             content == IF work.oldc = o THEN work.newc ELSE Garbage
  <1>1. /\ phase = "deltas" /\ phase' = "pairs"
        /\ UNCHANGED <<inBase, inDelta, queue, writing, walk, localMap, staleUse>>
        /\ \/ BaseMoves(len) /\ MoveToHot(o, len, content)
           \/ UNCHANGED <<file, hot>>
        BY DEF MoveBase, writerVars, historyVars, localVars
  <1>2. work \in Work /\ o \in Chunks /\ work.new \in Chunks
        BY <1>1 DEF TypeOK, OfflineTypes, PairAtHand
  <1>3. content = work.new
        BY <1>1 DEF ReadInv
  <1>4. len \in Nat
        BY <1>2, SizeAssumption
  <1>5. ReadInv'
        BY <1>1 DEF ReadInv
  <1> HIDE DEF content, len
  <1>6. CASE BaseMoves(len) /\ MoveToHot(o, len, content)
    <2>1. len <= Size[o]
          BY <1>6 DEF BaseMoves
    <2>2. content \in Chunks \cup {Garbage}
          BY <1>2, <1>3
    <2>3. RecordInv' /\ \A t \in hot'.recs : t \in hot.recs \/ t.addr.base = work.new
          BY <2>1, <2>2, <1>1, <1>2, <1>3, <1>4, <1>6, MovedRecords
    <2>4. HotInv'
          BY <2>3, <1>1, HotMoved
    <2> QED BY <2>3, <2>4, <1>5
  <1>7. CASE UNCHANGED <<file, hot>>
    <2>1. RecordInv'
          BY <1>1, <1>7, RecordStill
    <2>2. HotInv'
          BY <1>1, <1>7, HotMoved
    <2> QED BY <2>1, <2>2, <1>5
  <1> QED BY <1>1, <1>6, <1>7

\* Easy_update finds the base it looks for in the container it has read: what
\* an earlier read left in the buffer lies behind the end of the container.
LEMMA ContentRight ==
  ASSUME TypeOK, NameInv, PlaceInv, phase = "pairs", NEW c \in Chunks, IsBase(c), HasBaseFile(c),
         NEW buf, BaseFileOf(c).recs \subseteq buf,
         \A r \in buf : r \in BaseFileOf(c).recs \/ r.pos >= BaseFileOf(c).size
  PROVE  ContentAt(buf, fpIndex[c]) = c
  <1> DEFINE k == fpIndex[c].cid
             F == file[fpIndex[c].cid].recs
             a == fpIndex[c]
             At(r) == r.pos = a.off /\ r.addr.len = a.len /\ r.addr.base = NoChunk
  <1>1. k \in Cids /\ file[k].kind = "base" /\ BaseFileOf(c).recs = F /\ BaseFileOf(c).size = file[k].size
        BY DEF HasBaseFile, HasFile, BaseFileOf
  <1>2. PICK e \in F : e.fp = c /\ e.addr = a /\ e.pos = a.off
        BY <1>1, EntryOnDisk
  <1>3. F \in SUBSET Rec /\ file[k].size \in Int /\ Proper(k, F, file[k].size)
        BY <1>1, PlaceTypes DEF PlaceInv, HoldersProper
  <1>4. /\ e.pos \in Int /\ e.pos < file[k].size
        /\ \A r \in F : r.pos = e.pos => r = e
        BY <1>2, <1>3, ProperFacts
  <1>5. e \in buf /\ At(e)
        BY <1>1, <1>2 DEF IsBase
  <1>6. \A r \in buf : At(r) => r = e
    <2>1. ASSUME NEW r \in buf, At(r) PROVE r = e
      <3>1. r.pos = e.pos
            BY <2>1, <1>2
      <3>2. ~(r.pos >= file[k].size)
            BY <3>1, <1>3, <1>4
      <3> QED BY <3>1, <3>2, <1>1, <1>4
    <2> QED BY <2>1
  <1>7. (CHOOSE r \in buf : At(r)) = e
        BY <1>5, <1>6
  <1>8. ContentAt(buf, a) = (CHOOSE r \in buf : At(r)).fp
        BY <1>5 DEF ContentAt
  <1> QED BY <1>2, <1>7, <1>8

LEMMA RecordBeginPair ==
  ASSUME TypeOK, NameInv, PlaceInv, ChainInv, RecordInv, HotInv, NEW q \in localMap, BeginPair(q[1], q[2])
  PROVE  RecordInv' /\ HotInv' /\ ReadInv'
  <1> SUFFICES ASSUME NEW o, NEW n, o = q[1], n = q[2]
               PROVE  RecordInv' /\ HotInv' /\ ReadInv'
      OBVIOUS
  <1> DEFINE oldbuf == Load(BaseFileOf(o))
             newbuf == BaseFileOf(n).recs \cup {r \in oldbuf : r.pos >= BaseFileOf(n).size}
  <1>1. /\ phase = "pairs" /\ phase' = "deltas" /\ localMap' = localMap \ {<<o, n>>}
        /\ HasBaseFile(o) /\ HasBaseFile(n)
        /\ UNCHANGED <<file, hot, inBase, inDelta, queue, writing, walk, staleUse>>
        BY DEF BeginPair, writerVars, enclaveVars, historyVars
  <1>2. /\ work'.old = o /\ work'.new = n
        /\ work'.oldc = ContentAt(oldbuf, fpIndex[o]) /\ work'.newc = ContentAt(newbuf, fpIndex[n])
        BY DEF BeginPair
  <1>3. o \in Chunks /\ n \in Chunks /\ IsBase(o) /\ IsBase(n)
        BY IndexFacts DEF ChainInv, LocalFlat
  <1>4. work'.oldc = o
    <2>1. /\ BaseFileOf(o).recs \subseteq oldbuf
          /\ \A r \in oldbuf : r \in BaseFileOf(o).recs \/ r.pos >= BaseFileOf(o).size
          BY DEF Load
    <2> HIDE DEF oldbuf
    <2> QED BY <2>1, <1>1, <1>2, <1>3, ContentRight
  <1>5. work'.newc = n
    <2>1. /\ BaseFileOf(n).recs \subseteq newbuf
          /\ \A r \in newbuf : r \in BaseFileOf(n).recs \/ r.pos >= BaseFileOf(n).size
          OBVIOUS
    <2> HIDE DEF newbuf
    <2> QED BY <2>1, <1>1, <1>2, <1>3, ContentRight
  <1>6. ReadInv'
        BY <1>2, <1>4, <1>5 DEF ReadInv
  <1>7. RecordInv'
        BY <1>1, RecordStill
  <1>8. HotInv'
        BY <1>1, <1>2 DEF HotInv
  <1> QED BY <1>6, <1>7, <1>8

\* What the offline pass re-codes it reads and codes right.
CodeInv == RecordInv /\ HotInv /\ ReadInv

\* Outside the loop over the pairs nothing is said about it.
LEMMA OtherPhases ==
  ASSUME phase' \notin {"pairs", "deltas"}
  PROVE  HotInv' /\ ReadInv'
  BY DEF HotInv, ReadInv

LEMMA CodeUpload ==
  ASSUME TypeOK, TypeOK', NameInv, PlaceInv, CodeInv,
         \/ \E op \in {"upload", "offline"} : StartSession(op)
         \/ Receive \/ SkipDuplicate \/ StoreNew \/ EndBatch \/ RecipeEnd \/ CloseSession \/ Disconnect
         \/ WriterOpen \/ WriterSave \/ EndUpload
  PROVE  CodeInv'
  <1>1. RecordInv
        BY DEF CodeInv
  <1>2. CASE StoreNew
    <2>1. phase' = "batch"
          BY <1>2, StoreCases DEF AtNewChunk
    <2> QED BY <1>1, <1>2, <2>1, RecordStore, OtherPhases DEF CodeInv
  <1>3. CASE (\E op \in {"upload", "offline"} : StartSession(op)) \/ CloseSession \/ Disconnect
    <2>1. phase' \notin {"pairs", "deltas"}
          BY <1>3 DEF StartSession, CloseSession, Disconnect
    <2> QED BY <1>1, <1>3, <2>1, RecordSession, OtherPhases DEF CodeInv
  <1>4. CASE WriterOpen \/ WriterSave
    <2>1. phase' = phase
          BY <1>4 DEF WriterOpen, WriterSave
    <2>2. queue # <<>> \/ writing # <<>>
          BY <1>4 DEF WriterOpen, WriterSave
    <2>3. phase' \notin {"pairs", "deltas"}
          BY <2>1, <2>2, WriterPhase DEF PlaceInv
    <2> QED BY <1>1, <1>4, <2>3, RecordWriterOpen, RecordWriterSave, OtherPhases DEF CodeInv
  <1>5. CASE Receive \/ SkipDuplicate \/ EndBatch \/ RecipeEnd \/ EndUpload
    <2>1. /\ phase' \notin {"pairs", "deltas"}
          /\ UNCHANGED <<inBase, inDelta, hot, queue, writing, file, walk, staleUse>>
          BY <1>5 DEF Receive, RecvBatch, SkipDuplicate, EndBatch, RecipeEnd, EndUpload, writerVars,
             enclaveVars, offlineVars, historyVars
    <2> QED BY <1>1, <2>1, RecordStill, OtherPhases DEF CodeInv
  <1> QED BY <1>2, <1>3, <1>4, <1>5

LEMMA CodePairs ==
  ASSUME TypeOK, TypeOK', PairAtHand, NameInv, PlaceInv, ChainInv, CodeInv,
         \/ StartOffline \/ CleanLocalIndex
         \/ \E p \in localMap : SkipGreedy(p[1], p[2]) \/ SkipOldMissing(p[1], p[2]) \/ SkipNewMissing(p[1], p[2])
         \/ \E p \in localMap : BeginPair(p[1], p[2])
         \/ \E d \in work.deltas : MoveDelta(d)
         \/ \E d \in work.deltas : ReadStaleDelta(d)
         \/ MoveBase \/ SaveHot
  PROVE  CodeInv'
  <1>1. RecordInv /\ HotInv /\ ReadInv
        BY DEF CodeInv
  <1>2. CASE StartOffline
    <2>1. /\ phase' = "pairs" /\ hot' = EmptyContainer(nextCid)
          /\ UNCHANGED <<inBase, inDelta, queue, writing, file, walk, staleUse>>
          BY <1>2 DEF StartOffline, writerVars, historyVars
    <2>2. hot'.recs = {} /\ AllSound(staleUse, hot'.recs, "delta")
          BY <2>1, EmptyFields, SoundEmpty
    <2>3. \A k : Disk(k)' = Disk(k)
          BY <2>1 DEF Disk
    <2>4. RecordInv'
          BY <1>1, <2>1, <2>2, <2>3 DEF RecordInv
    <2>5. HotInv' /\ ReadInv'
          BY <2>1, <2>2 DEF HotInv, ReadInv
    <2> QED BY <2>4, <2>5 DEF CodeInv
  <1>3. CASE \E p \in localMap : SkipGreedy(p[1], p[2]) \/ SkipOldMissing(p[1], p[2]) \/ SkipNewMissing(p[1], p[2])
    <2>1. /\ phase = "pairs" /\ phase' = "pairs" /\ localMap' \subseteq localMap
          /\ UNCHANGED <<inBase, inDelta, hot, queue, writing, file, walk, staleUse>>
          BY <1>3 DEF SkipGreedy, SkipOldMissing, SkipNewMissing, writerVars, enclaveVars, offlineVars,
             historyVars
    <2>2. HotInv' /\ ReadInv'
          BY <1>1, <2>1 DEF HotInv, ReadInv
    <2> QED BY <1>1, <2>1, <2>2, RecordStill DEF CodeInv
  <1>4. CASE \E p \in localMap : BeginPair(p[1], p[2])
        BY <1>1, <1>4, RecordBeginPair DEF CodeInv
  <1>5. CASE \E d \in work.deltas : MoveDelta(d)
        BY <1>1, <1>5, RecordMoveDelta DEF CodeInv
  <1>6. CASE MoveBase
        BY <1>1, <1>6, RecordMoveBase DEF CodeInv
  <1>7. CASE SaveHot
    <2>1. phase' = "cold"
          BY <1>7 DEF SaveHot
    <2> QED BY <1>1, <1>7, <2>1, RecordSaveHot, OtherPhases DEF CodeInv
  <1>8. CASE CleanLocalIndex \/ \E d \in work.deltas : ReadStaleDelta(d)
    <2>1. /\ phase' \notin {"pairs", "deltas"}
          /\ UNCHANGED <<inBase, inDelta, hot, queue, writing, file, walk, staleUse>>
          BY <1>8 DEF CleanLocalIndex, ReadStaleDelta, writerVars, enclaveVars, offlineVars, historyVars
    <2> QED BY <1>1, <2>1, RecordStill, OtherPhases DEF CodeInv
  <1> QED BY <1>2, <1>3, <1>4, <1>5, <1>6, <1>7, <1>8

LEMMA CodeCold ==
  ASSUME TypeOK, PlaceInv, CodeInv,
         \/ \E k \in Cids : BeginCold(k)
         \/ \E r \in walk.buf : CopyRecord(r)
         \/ \E q \in walk.rest : DropRecord(q)
         \/ EndCold \/ GetMergeContainer
         \/ \E q \in merges : MergePair(q)
         \/ EndOffline
  PROVE  CodeInv'
  <1>1. RecordInv
        BY DEF CodeInv
  <1>2. phase' \notin {"pairs", "deltas"}
        BY DEF BeginCold, CopyRecord, DropRecord, EndCold, GetMergeContainer, MergePair, EndOffline
  <1>3. CASE \E k \in Cids : BeginCold(k)
        BY <1>1, <1>2, <1>3, RecordBeginCold, OtherPhases DEF CodeInv
  <1>4. CASE \E r \in walk.buf : CopyRecord(r)
        BY <1>1, <1>2, <1>4, RecordCopyRecord, OtherPhases DEF CodeInv
  <1>5. CASE \E q \in walk.rest : DropRecord(q)
        BY <1>1, <1>2, <1>5, RecordDropRecord, OtherPhases DEF CodeInv
  <1>6. CASE EndCold
        BY <1>1, <1>2, <1>6, RecordEndCold, OtherPhases DEF CodeInv
  <1>7. CASE \E q \in merges : MergePair(q)
        BY <1>1, <1>2, <1>7, RecordMergePair, OtherPhases DEF CodeInv
  <1>8. CASE GetMergeContainer \/ EndOffline
    <2>1. UNCHANGED <<inBase, inDelta, hot, queue, writing, file, walk, staleUse>>
          BY <1>8 DEF GetMergeContainer, EndOffline, writerVars, enclaveVars, offlineVars, historyVars
    <2> QED BY <1>1, <1>2, <2>1, RecordStill, OtherPhases DEF CodeInv
  <1> QED BY <1>3, <1>4, <1>5, <1>6, <1>7, <1>8

LEMMA CodeInvNext ==
  ASSUME FlatInv, FlatInv', CodeInv, [Next]_vars
  PROVE  CodeInv'
  <1>1. TypeOK /\ TypeOK' /\ PairAtHand /\ NameInv /\ PlaceInv /\ ChainInv
        BY DEF FlatInv, StoreInv, TypeInv
  <1>2. CASE UNCHANGED vars
    <2>1. UNCHANGED <<inBase, inDelta, hot, queue, writing, file, walk, staleUse, phase, work, localMap>>
          BY <1>2 DEF vars, writerVars, enclaveVars, offlineVars, historyVars, localVars
    <2>2. RecordInv'
          BY <2>1, RecordStill DEF CodeInv
    <2>3. HotInv' /\ ReadInv'
          BY <2>1 DEF CodeInv, HotInv, ReadInv
    <2> QED BY <2>2, <2>3 DEF CodeInv
  <1>3. CASE \/ \E op \in {"upload", "offline"} : StartSession(op)
             \/ Receive \/ SkipDuplicate \/ StoreNew \/ EndBatch \/ RecipeEnd \/ CloseSession \/ Disconnect
             \/ WriterOpen \/ WriterSave \/ EndUpload
        BY <1>1, <1>3, CodeUpload
  <1>4. CASE \/ StartOffline \/ CleanLocalIndex
             \/ \E p \in localMap : SkipGreedy(p[1], p[2]) \/ SkipOldMissing(p[1], p[2]) \/ SkipNewMissing(p[1], p[2])
             \/ \E p \in localMap : BeginPair(p[1], p[2])
             \/ \E d \in work.deltas : MoveDelta(d)
             \/ \E d \in work.deltas : ReadStaleDelta(d)
             \/ MoveBase \/ SaveHot
        BY <1>1, <1>4, CodePairs
  <1>5. CASE \/ \E k \in Cids : BeginCold(k)
             \/ \E r \in walk.buf : CopyRecord(r)
             \/ \E q \in walk.rest : DropRecord(q)
             \/ EndCold \/ GetMergeContainer
             \/ \E q \in merges : MergePair(q)
             \/ EndOffline
        BY <1>1, <1>5, CodeCold
  <1> QED BY <1>2, <1>3, <1>4, <1>5 DEF Next, StoreNew

-----------------------------------------------------------------------------
(* CodedAgainstBase and NoStaleRead.                                       *)

LEMMA LiveSound ==
  ASSUME RecordInv, ~staleUse, NEW r \in Live
  PROVE  r.src = r.addr.base
  <1>1. \A R, kind : AllSound(staleUse, R, kind) => \A t \in R : t.src = t.addr.base
        BY DEF AllSound, Sound
  <1>2. CASE r \in WayRecs
    <2>1. PICK g \in OnTheWay : r \in g.recs
          BY <1>2 DEF WayRecs
    <2>2. CASE g \in {inBase, inDelta, hot}
          BY <2>1, <2>2, <1>1 DEF RecordInv
    <2>3. CASE \E i \in 1 .. Len(queue) : g = AsContainer(queue[i])
      <3>1. PICK i \in 1 .. Len(queue) : g = AsContainer(queue[i])
            BY <2>3
      <3>2. r \in queue[i].recs
            BY <2>1, <3>1 DEF AsContainer
      <3>3. AllSound(staleUse, queue[i].recs, queue[i].kind)
            BY <3>1 DEF RecordInv
      <3> QED BY <3>2, <3>3, <1>1
    <2>4. CASE \E i \in 1 .. Len(writing) : g = AsContainer(writing[i])
      <3>1. PICK i \in 1 .. Len(writing) : g = AsContainer(writing[i])
            BY <2>4
      <3>2. r \in writing[i].recs
            BY <2>1, <3>1 DEF AsContainer
      <3>3. AllSound(staleUse, writing[i].recs, writing[i].kind)
            BY <3>1 DEF RecordInv
      <3> QED BY <3>2, <3>3, <1>1
    <2> QED BY <2>1, <2>2, <2>3, <2>4 DEF OnTheWay, Way
  <1>3. CASE r \in DiskRecs
    <2>1. PICK k \in Cids : r \in Disk(k)
          BY <1>3 DEF DiskRecs
    <2>2. AllSound(staleUse, Disk(k), file[k].kind)
          BY <2>1 DEF RecordInv
    <2> QED BY <2>1, <2>2, <1>1
  <1> QED BY <1>2, <1>3 DEF Live

\* Whatever upload, offline pass and container rewriting have made of a
\* chunk, the bytes in its record were coded against the base that the header
\* names, as long as no inline delta was coded against a wrong buffer:
\* GetNew_deltachunk always has the right old and new base in its hands, also
\* where Ocall_OneContainer leaves bytes of earlier containers in the buffer.
THEOREM DeltasStayDecodable == Spec => []CodedAgainstBase
  <1>1. Init => FlatInv /\ CodeInv
        BY FlatInvInit, RecordInit DEF CodeInv
  <1>2. FlatInv /\ CodeInv /\ [Next]_vars => (FlatInv /\ CodeInv)'
    <2> SUFFICES ASSUME FlatInv, CodeInv, [Next]_vars PROVE FlatInv' /\ CodeInv'
        OBVIOUS
    <2> QED BY FlatInvNext, CodeInvNext
  <1>3. FlatInv /\ CodeInv => CodedAgainstBase
    <2> SUFFICES ASSUME FlatInv, CodeInv, ~staleUse, NEW k \in Cids, NEW r \in Held(k)
                 PROVE  r.src = r.addr.base
        BY DEF CodedAgainstBase
    <2>1. r \in Live
          BY HeldIsLive DEF FlatInv, StoreInv, TypeInv, PlaceInv
    <2> QED BY <2>1, LiveSound DEF CodeInv
  <1> QED BY <1>1, <1>2, <1>3, PTL DEF Spec

\* A delta of the pair at hand is in a delta container on disk.
LEMMA DeltaFileThere ==
  ASSUME TypeOK, PairAtHand, PlaceInv, ChainInv, CodeInv, phase = "deltas", broken = 0, NEW d \in work.deltas
  PROVE  HasDeltaFile(d)
  <1>1. d \in Chunks
        BY DEF TypeOK, OfflineTypes, Work
  <1>2. fpIndex[d].base = work.old /\ IsBase(work.old)
        BY DEF ChainInv, PairInv
  <1>3. fpIndex[d].base # NoChunk /\ Indexed(d)
    <2>1. work.old # NoChunk
          BY ChunkAssumption DEF PairAtHand
    <2> QED BY <2>1, <1>1, <1>2, IndexFacts
  <1>4. PICK r \in Live : r.fp = d /\ r.addr = fpIndex[d]
    <2>1. ~(broken > 0)
          OBVIOUS
    <2> QED BY <2>1, <1>1, <1>3 DEF PlaceInv, LiveFound, Stored
  <1>5. r \notin WayRecs
    <2>1. OnTheWay = {EmptyContainer(0), hot}
          BY OfflinePhase
    <2>2. r \notin hot.recs
          BY <1>2, <1>4 DEF CodeInv, HotInv
    <2> QED BY <2>1, <2>2, EmptyFields DEF WayRecs
  <1>6. PICK k \in Cids : r \in Disk(k)
        BY <1>4, <1>5 DEF Live, DiskRecs
  <1>7. r.addr.cid = k
        BY <1>6, DiskFacts DEF PlaceInv
  <1>8. file[k].kind = "delta"
    <2>1. AllSound(staleUse, Disk(k), file[k].kind)
          BY <1>6 DEF CodeInv, RecordInv
    <2>2. KindOf(r.addr) = file[k].kind
          BY <2>1, <1>6 DEF AllSound, Sound
    <2> QED BY <2>2, <1>3, <1>4 DEF KindOf
  <1> QED BY <1>4, <1>6, <1>7, <1>8 DEF HasDeltaFile, HasFile

\* Only ReadStaleDelta reads a delta container that is not there.
LEMMA StaleStep ==
  ASSUME TypeOK, TypeOK', [Next]_vars, phase' = "stale"
  PROVE  \/ phase = "stale" /\ broken' = broken
         \/ \E d \in work.deltas : ReadStaleDelta(d)
  <1>1. CASE StoreNew
    <2>1. phase' = "batch"
          BY <1>1, StoreCases DEF AtNewChunk
    <2> QED BY <2>1
  <1>2. CASE \/ \E op \in {"upload", "offline"} : StartSession(op)
             \/ Receive \/ SkipDuplicate \/ EndBatch \/ RecipeEnd \/ CloseSession \/ Disconnect
             \/ EndUpload \/ StartOffline \/ CleanLocalIndex
    <2>1. phase' # "stale"
          BY <1>2 DEF StartSession, Receive, RecvBatch, SkipDuplicate, EndBatch, RecipeEnd, CloseSession,
             Disconnect, EndUpload, StartOffline, CleanLocalIndex
    <2> QED BY <2>1
  <1>3. CASE \/ \E p \in localMap : SkipGreedy(p[1], p[2])
             \/ \E p \in localMap : SkipOldMissing(p[1], p[2])
             \/ \E p \in localMap : SkipNewMissing(p[1], p[2])
             \/ \E p \in localMap : BeginPair(p[1], p[2])
             \/ \E d \in work.deltas : MoveDelta(d)
             \/ MoveBase \/ SaveHot
             \/ \E k \in Cids : BeginCold(k)
             \/ \E r \in walk.buf : CopyRecord(r)
             \/ \E q \in walk.rest : DropRecord(q)
             \/ EndCold \/ GetMergeContainer
             \/ \E q \in merges : MergePair(q)
             \/ EndOffline
    <2>1. phase' # "stale"
          BY <1>3 DEF SkipGreedy, SkipOldMissing, SkipNewMissing, BeginPair, MoveDelta, MoveBase, SaveHot,
             BeginCold, CopyRecord, DropRecord, EndCold, GetMergeContainer, MergePair, EndOffline
    <2> QED BY <2>1
  <1>4. CASE WriterOpen \/ WriterSave \/ UNCHANGED vars
    <2>1. phase' = phase /\ broken' = broken
          BY <1>4 DEF WriterOpen, WriterSave, vars, historyVars
    <2> QED BY <2>1
  <1>5. CASE \E d \in work.deltas : ReadStaleDelta(d)
        BY <1>5
  <1> QED BY <1>1, <1>2, <1>3, <1>4, <1>5 DEF Next, StoreNew

\* Ocall_OneDeltaContainer never fails to open the container of a delta that
\* Easy_update re-codes, as long as every client ends its session: each delta
\* of the old base is in a delta container that has been written, not in the
\* open hot container and not in a container that was merged or never saved.
THEOREM OfflineReadsWhatItMeans == Spec => []NoStaleRead
  <1> DEFINE Inv == FlatInv /\ CodeInv /\ NoStaleRead
  <1>1. Init => Inv
    <2>1. Init => NoStaleRead
          BY DEF Init, NoStaleRead
    <2> QED BY <2>1, FlatInvInit, RecordInit DEF CodeInv
  <1>2. Inv /\ [Next]_vars => Inv'
    <2> SUFFICES ASSUME FlatInv, CodeInv, NoStaleRead, [Next]_vars
                 PROVE  FlatInv' /\ CodeInv' /\ NoStaleRead'
        OBVIOUS
    <2>1. FlatInv' /\ CodeInv'
          BY FlatInvNext, CodeInvNext
    <2>2. TypeOK /\ TypeOK' /\ PairAtHand /\ PlaceInv /\ ChainInv
          BY <2>1 DEF FlatInv, StoreInv, TypeInv
    <2>3. ASSUME phase' = "stale" PROVE broken' # 0
      <3>1. CASE phase = "stale" /\ broken' = broken
            BY <3>1 DEF NoStaleRead
      <3>2. CASE \E d \in work.deltas : ReadStaleDelta(d)
        <4>1. PICK d \in work.deltas : ReadStaleDelta(d)
              BY <3>2
        <4>2. phase = "deltas" /\ ~HasDeltaFile(d) /\ broken' = broken
              BY <4>1 DEF ReadStaleDelta, historyVars
        <4> QED BY <4>1, <4>2, <2>2, DeltaFileThere
      <3> QED BY <2>2, <2>3, <3>1, <3>2, StaleStep
    <2>4. NoStaleRead'
          BY <2>3 DEF NoStaleRead
    <2> QED BY <2>1, <2>4
  <1>3. Inv => NoStaleRead
        OBVIOUS
  <1> QED BY <1>1, <1>2, <1>3, PTL DEF Spec

-----------------------------------------------------------------------------
(* Restorable.                                                             *)

LEMMA BatchFps ==
  ASSUME TypeOK
  PROVE  /\ Len(batch.todo) \in Nat /\ Len(batch.done) \in Nat
         /\ \A i \in 1 .. Len(batch.todo) : batch.todo[i] \in Entry /\ batch.todo[i].fp \in Chunks
         /\ \A i \in 1 .. Len(batch.done) : batch.done[i] \in Done /\ batch.done[i].fp \in Chunks
         /\ session \in Session /\ session.recipe \subseteq Chunks /\ final \subseteq Chunks
  <1>1. batch.todo \in Seq(Entry) /\ batch.done \in Seq(Done)
        BY BatchSeqs
  <1>2. /\ Len(batch.todo) \in Nat /\ Len(batch.done) \in Nat
        /\ \A i \in 1 .. Len(batch.todo) : batch.todo[i] \in Entry
        /\ \A i \in 1 .. Len(batch.done) : batch.done[i] \in Done
        BY <1>1, LenProperties, ElementOfSeq
  <1>3. session \in Session /\ final \subseteq Chunks
        BY DEF TypeOK, SessionTypes
  <1> QED BY <1>2, <1>3 DEF Entry, Done, Session

\* Steps that neither finalise a recipe nor work on a batch.
LEMMA RecipeFrame ==
  ASSUME TypeOK, RecipeInv, Rising, UNCHANGED <<final, batch>>, session'.recipe \subseteq session.recipe
  PROVE  RecipeInv'
  <1>1. \A c \in Chunks : Indexed(c) => Indexed(c)'
        BY DEF Rising, Indexed
  <1>2. \A c \in final' : Indexed(c)'
        BY <1>1, BatchFps DEF RecipeInv
  <1>3. \A c \in session'.recipe : Indexed(c)' \/ \E j \in 1 .. Len(batch'.done) : batch'.done[j].fp = c
    <2>1. ASSUME NEW c \in session'.recipe
          PROVE  Indexed(c)' \/ \E j \in 1 .. Len(batch.done) : batch.done[j].fp = c
      <3>1. c \in Chunks
            BY BatchFps
      <3> QED BY <3>1, <1>1 DEF RecipeInv
    <2> QED BY <2>1
  <1>4. ASSUME NEW i \in 1 .. Len(batch'.todo), ~batch'.todo[i].new
        PROVE  \/ Indexed(batch.todo[i].fp)'
               \/ \E j \in 1 .. Len(batch'.done) : batch'.done[j].fp = batch'.todo[i].fp
               \/ \E j \in 1 .. i - 1 : batch'.todo[j].new /\ batch'.todo[j].fp = batch'.todo[i].fp
    <2>1. \/ Indexed(batch.todo[i].fp)
          \/ \E j \in 1 .. Len(batch.done) : batch.done[j].fp = batch.todo[i].fp
          \/ \E j \in 1 .. i - 1 : batch.todo[j].new /\ batch.todo[j].fp = batch.todo[i].fp
          BY <1>4 DEF RecipeInv
    <2>2. batch.todo[i].fp \in Chunks
          BY <1>4, BatchFps
    <2>3. Indexed(batch.todo[i].fp) => Indexed(batch.todo[i].fp)'
          BY <2>2 DEF Rising, Indexed
    <2> QED BY <2>1, <2>3
  <1> QED BY <1>2, <1>3, <1>4 DEF RecipeInv

\* ProcessOneBatch goes on with the next chunk.
LEMMA RecipeTail ==
  ASSUME TypeOK, RecipeInv, UNCHANGED <<fpIndex, final>>, batch.todo # <<>>,
         batch'.todo = Tail(batch.todo), session'.recipe = session.recipe \cup {Head(batch.todo).fp},
         \A j \in 1 .. Len(batch.done) : \E i \in 1 .. Len(batch'.done) : batch'.done[i].fp = batch.done[j].fp,
         Head(batch.todo).new => \E i \in 1 .. Len(batch'.done) : batch'.done[i].fp = Head(batch.todo).fp
  PROVE  RecipeInv'
  <1> DEFINE S(c) == \E j \in 1 .. Len(batch.done) : batch.done[j].fp = c
             T(c) == \E j \in 1 .. Len(batch'.done) : batch'.done[j].fp = c
             h == Head(batch.todo)
  <1>1. batch.todo \in Seq(Entry)
        BY BatchSeqs
  <1>2. /\ Len(batch.todo) \in Nat /\ Len(batch.todo) # 0 /\ Len(batch'.todo) = Len(batch.todo) - 1
        /\ h = batch.todo[1]
        /\ \A i \in 1 .. Len(batch'.todo) : batch'.todo[i] = batch.todo[i + 1]
        BY <1>1, HeadTailProperties, EmptySeq, LenProperties
  <1>3. \A c : S(c) => T(c)
        OBVIOUS
  <1>4. h.new => T(h.fp)
        OBVIOUS
  <1>5. \A c : Indexed(c)' <=> Indexed(c)
        BY DEF Indexed
  <1> HIDE DEF h
  <1>6. /\ \A c \in final : Indexed(c)
        /\ \A c \in session.recipe : Indexed(c) \/ S(c)
        /\ \A i \in 1 .. Len(batch.todo) : ~batch.todo[i].new =>
              \/ Indexed(batch.todo[i].fp) \/ S(batch.todo[i].fp)
              \/ \E j \in 1 .. i - 1 : batch.todo[j].new /\ batch.todo[j].fp = batch.todo[i].fp
        BY DEF RecipeInv
  <1> HIDE DEF S, T
  <1>7. Indexed(h.fp) \/ T(h.fp)
    <2>1. CASE ~h.new
      <3>1. 1 \in 1 .. Len(batch.todo) /\ 1 .. 1 - 1 = {}
            BY <1>2
      <3>2. \/ Indexed(batch.todo[1].fp) \/ S(batch.todo[1].fp)
            \/ \E j \in 1 .. 1 - 1 : batch.todo[j].new /\ batch.todo[j].fp = batch.todo[1].fp
            BY <2>1, <3>1, <1>2, <1>6
      <3> QED BY <3>1, <3>2, <1>2, <1>3
    <2> QED BY <2>1, <1>4
  <1>8. \A c \in session'.recipe : Indexed(c) \/ T(c)
        BY <1>3, <1>6, <1>7 DEF h
  <1>9. ASSUME NEW i \in 1 .. Len(batch'.todo), ~batch'.todo[i].new
        PROVE  \/ Indexed(batch'.todo[i].fp) \/ T(batch'.todo[i].fp)
               \/ \E j \in 1 .. i - 1 : batch'.todo[j].new /\ batch'.todo[j].fp = batch'.todo[i].fp
    <2> DEFINE c == batch'.todo[i].fp
    <2>1. i + 1 \in 1 .. Len(batch.todo) /\ batch'.todo[i] = batch.todo[i + 1]
          BY <1>2
    <2>2. \/ Indexed(c) \/ S(c)
          \/ \E j \in 1 .. (i + 1) - 1 : batch.todo[j].new /\ batch.todo[j].fp = c
          BY <1>9, <2>1, <1>6
    <2>3. ASSUME NEW j \in 1 .. (i + 1) - 1, batch.todo[j].new, batch.todo[j].fp = c
          PROVE  T(c) \/ \E m \in 1 .. i - 1 : batch'.todo[m].new /\ batch'.todo[m].fp = c
      <3>1. CASE j = 1
            BY <2>3, <3>1, <1>2, <1>4
      <3>2. CASE j # 1
        <4>1. j - 1 \in 1 .. i - 1 /\ j - 1 \in 1 .. Len(batch'.todo) /\ (j - 1) + 1 = j
              BY <2>3, <3>2, <1>2
        <4>2. batch'.todo[j - 1] = batch.todo[j]
              BY <4>1, <1>2
        <4> QED BY <2>3, <4>1, <4>2
      <3> QED BY <3>1, <3>2
    <2> HIDE DEF c
    <2>4. Indexed(c) \/ T(c) \/ \E m \in 1 .. i - 1 : batch'.todo[m].new /\ batch'.todo[m].fp = c
          BY <2>2, <2>3, <1>3
    <2> QED BY <2>4 DEF c
  <1> QED BY <1>5, <1>6, <1>8, <1>9 DEF RecipeInv, T, Indexed

LEMMA RecipeStore ==
  ASSUME TypeOK, TypeOK', RecipeInv, StoreNew
  PROVE  RecipeInv'
  <1> DEFINE e == Head(batch.todo)
  <1>1. AtNewChunk /\ fpIndex' = fpIndex
        BY StoreCases
  <1>2. final' = final
        BY DEF StoreNew, StoreUnique, StoreDeferred, StoreSimilarCached, StoreSimilarLoaded, StoreSimilarMissing
  <1>3. /\ batch \in Batch /\ batch.todo # <<>> /\ batch.done \in Seq(Done) /\ e.fp \in Chunks
        /\ session \in Session
        BY <1>1, AtNewChunkType, BatchSeqs, BatchFps
  <1> HIDE DEF e
  <1>4. ASSUME NEW a, NEW old, StoreNext(e.fp, a, old)
        PROVE  RecipeInv'
    <2> DEFINE d == [fp |-> e.fp, addr |-> a, old |-> old]
    <2>1. /\ batch'.todo = Tail(batch.todo) /\ batch'.done = Append(batch.done, d)
          /\ session'.recipe = session.recipe \cup {e.fp}
          BY <1>3, <1>4 DEF StoreNext, AddToRecipe, Batch, Session
    <2>2. d.fp = e.fp
          OBVIOUS
    <2> HIDE DEF d
    <2>3. /\ Len(batch.done) \in Nat /\ Len(batch'.done) = Len(batch.done) + 1
          /\ \A i \in 1 .. Len(batch.done) : batch'.done[i] = batch.done[i]
          /\ batch'.done[Len(batch.done) + 1] = d
      <3>1. Len(batch.done) \in Nat /\ DOMAIN batch.done = 1 .. Len(batch.done)
            BY <1>3, LenProperties
      <3> QED BY <1>3, <2>1, <3>1, AppendProperties
    <2>4. \A i \in 1 .. Len(batch.done) : i \in 1 .. Len(batch'.done)
          BY <2>3
    <2>5. Len(batch.done) + 1 \in 1 .. Len(batch'.done)
          BY <2>3
    <2>6. \A j \in 1 .. Len(batch.done) : \E i \in 1 .. Len(batch'.done) : batch'.done[i].fp = batch.done[j].fp
          BY <2>3, <2>4
    <2>7. \E i \in 1 .. Len(batch'.done) : batch'.done[i].fp = e.fp
          BY <2>2, <2>3, <2>5
    <2> QED BY <1>1, <1>2, <1>3, <2>1, <2>6, <2>7, RecipeTail DEF e
  <1>5. \E a, old : StoreNext(e.fp, a, old)
        BY StoreCases DEF e, SavebaseChunk, SavedeltaChunk
  <1> QED BY <1>4, <1>5

\* A chunk of a new batch that is not new is stored or comes again.
LEMMA RecipeReceive ==
  ASSUME TypeOK, PlaceInv, RecipeInv, NEW b \in Batches, RecvBatch(b)
  PROVE  RecipeInv'
  <1>1. /\ phase = "recv" /\ batch'.todo = Entries(b) /\ batch'.done = <<>>
        /\ UNCHANGED <<fpIndex, session, final>>
        BY DEF RecvBatch, indexVars
  <1>2. b \in Seq(Chunks) /\ Len(b) \in Nat
        BY BoundAssumption, LenProperties
  <1>3. Len(Entries(b)) = Len(b) /\ \A i \in 1 .. Len(b) : Entries(b)[i] = QueryEntry(b, i)
        BY <1>2 DEF Entries
  <1>4. \A i \in 1 .. Len(b) : QueryEntry(b, i).fp = b[i] /\ (QueryEntry(b, i).new <=> IsNew(b, i))
        BY DEF QueryEntry
  <1>5. Len(batch.done) = 0 /\ Len(batch'.done) = 0
        BY <1>1, EmptySeq DEF PlaceInv, PhaseFacts
  <1>6. ASSUME NEW i \in 1 .. Len(b), ~IsNew(b, i), ~Indexed(b[i])
        PROVE  \E j \in 1 .. i - 1 : IsNew(b, j) /\ b[j] = b[i]
    <2> DEFINE same == {j \in 1 .. i - 1 : b[j] = b[i]}
    <2>1. same # {} /\ same \in SUBSET Nat
          BY <1>6 DEF IsNew
    <2>2. Min(same) \in same /\ \A y \in same : Min(same) <= y
          BY <2>1, MinIn
    <2>3. PICK m \in 1 .. i - 1 : b[m] = b[i] /\ \A y \in same : m <= y
          BY <2>2
    <2>4. \A j \in 1 .. m - 1 : b[j] # b[m]
      <3>1. ASSUME NEW j \in 1 .. m - 1, b[j] = b[m] PROVE FALSE
        <4>1. j \in 1 .. i - 1 /\ ~(m <= j)
              BY <1>2
        <4> QED BY <2>3, <3>1, <4>1
      <3> QED BY <3>1
    <2>5. IsNew(b, m)
          BY <2>3, <2>4, <1>6 DEF IsNew
    <2> QED BY <2>3, <2>5
  <1>7. ASSUME NEW i \in 1 .. Len(batch'.todo), ~batch'.todo[i].new
        PROVE  \/ Indexed(batch'.todo[i].fp)
               \/ \E j \in 1 .. i - 1 : batch'.todo[j].new /\ batch'.todo[j].fp = batch'.todo[i].fp
    <2>1. i \in 1 .. Len(b) /\ batch'.todo[i].fp = b[i] /\ ~IsNew(b, i)
          BY <1>7, <1>1, <1>3, <1>4
    <2>2. CASE ~Indexed(b[i])
      <3>1. PICK j \in 1 .. i - 1 : IsNew(b, j) /\ b[j] = b[i]
            BY <2>1, <2>2, <1>6
      <3>2. j \in 1 .. Len(b)
            BY <2>1, <1>2
      <3>3. batch'.todo[j].new /\ batch'.todo[j].fp = b[j]
            BY <3>1, <3>2, <1>1, <1>3, <1>4
      <3> QED BY <2>1, <3>1, <3>3
    <2> QED BY <2>1, <2>2
  <1>8. \A c : Indexed(c)' <=> Indexed(c)
        BY <1>1 DEF Indexed
  <1>9. (\A c \in final : Indexed(c)) /\ \A c \in session.recipe : Indexed(c)
        BY <1>5 DEF RecipeInv
  <1> QED BY <1>1, <1>7, <1>8, <1>9 DEF RecipeInv, Indexed

LEMMA RecipeInvNext ==
  ASSUME FlatInv, FlatInv', RecipeInv, [Next]_vars
  PROVE  RecipeInv'
  <1>1. TypeOK /\ TypeOK' /\ PlaceInv /\ FreshBatch
        BY DEF FlatInv, StoreInv, TypeInv, FwdInv
  <1>2. Rising
        BY RisingNext
  <1>3. CASE StoreNew
        BY <1>1, <1>3, RecipeStore
  <1>4. CASE Receive
        BY <1>1, <1>4, RecipeReceive DEF Receive
  <1>5. CASE SkipDuplicate
    <2>1. batch \in Batch /\ session \in Session
          BY <1>1, BatchSeqs, BatchFps
    <2>2. /\ batch.todo # <<>> /\ ~Head(batch.todo).new
          /\ batch'.todo = Tail(batch.todo) /\ batch'.done = batch.done
          /\ session'.recipe = session.recipe \cup {Head(batch.todo).fp} /\ UNCHANGED <<fpIndex, final>>
          BY <1>5, <2>1 DEF SkipDuplicate, AddToRecipe, Batch, Session, indexVars, historyVars
    <2> QED BY <1>1, <2>2, RecipeTail
  <1>6. CASE EndBatch
    <2>1. /\ batch' = NoBatch /\ UNCHANGED <<session, final>>
          BY <1>6 DEF EndBatch, historyVars
    <2>2. Len(batch'.todo) = 0
          BY <2>1, EmptySeq DEF NoBatch
    <2>3. \A c \in Chunks : Indexed(c) => Indexed(c)'
          BY <1>2 DEF Rising, Indexed
    <2>4. \A i \in 1 .. Len(batch.done) : fpIndex'[batch.done[i].fp] # NoAddr
          BY <1>1, <1>6, EndBatchEntries
    <2>5. \A c \in session.recipe : Indexed(c)'
          BY <1>1, <2>3, <2>4, BatchFps DEF RecipeInv, Indexed
    <2>6. \A c \in final : Indexed(c)'
          BY <1>1, <2>3, BatchFps DEF RecipeInv
    <2> QED BY <2>1, <2>2, <2>5, <2>6 DEF RecipeInv
  <1>7. CASE RecipeEnd
    <2>1. /\ phase = "recv" /\ final' = final \cup session.recipe /\ UNCHANGED <<fpIndex, batch>>
          /\ session' = [session EXCEPT !.tail = TRUE]
          BY <1>7 DEF RecipeEnd, indexVars
    <2>2. session'.recipe = session.recipe
          BY <2>1, <1>1, BatchFps DEF Session
    <2>3. Len(batch.done) = 0
          BY <1>1, <2>1, EmptySeq DEF PlaceInv, PhaseFacts
    <2>4. \A c \in session.recipe : Indexed(c)
          BY <2>3 DEF RecipeInv
    <2>5. \A c : Indexed(c)' <=> Indexed(c)
          BY <2>1 DEF Indexed
    <2>6. \A c \in final' : Indexed(c)'
          BY <2>1, <2>4, <2>5 DEF RecipeInv
    <2>7. \A i \in 1 .. Len(batch'.todo) : Indexed(batch.todo[i].fp)' <=> Indexed(batch.todo[i].fp)
          BY <2>1 DEF Indexed
    <2> QED BY <2>1, <2>2, <2>4, <2>5, <2>6, <2>7 DEF RecipeInv
  <1>8. CASE \/ \E op \in {"upload", "offline"} : StartSession(op)
             \/ EndUpload \/ CleanLocalIndex \/ EndOffline
    <2>1. UNCHANGED <<final, batch>> /\ session'.recipe = {}
          BY <1>8 DEF StartSession, EndUpload, CleanLocalIndex, EndOffline, NoSession, historyVars
    <2> QED BY <1>1, <1>2, <2>1, RecipeFrame
  <1>9. CASE \/ CloseSession \/ Disconnect \/ WriterOpen \/ WriterSave \/ StartOffline \/ UNCHANGED vars
    <2>1. UNCHANGED <<final, batch, session>>
          BY <1>9 DEF CloseSession, Disconnect, WriterOpen, WriterSave, StartOffline, vars, historyVars
    <2> QED BY <1>1, <1>2, <2>1, RecipeFrame
  <1>10. CASE \/ \E p \in localMap : SkipGreedy(p[1], p[2])
              \/ \E p \in localMap : SkipOldMissing(p[1], p[2])
              \/ \E p \in localMap : SkipNewMissing(p[1], p[2])
              \/ \E p \in localMap : BeginPair(p[1], p[2])
              \/ \E d \in work.deltas : MoveDelta(d)
              \/ \E d \in work.deltas : ReadStaleDelta(d)
              \/ MoveBase \/ SaveHot
              \/ \E k \in Cids : BeginCold(k)
              \/ \E r \in walk.buf : CopyRecord(r)
              \/ \E q \in walk.rest : DropRecord(q)
              \/ EndCold \/ GetMergeContainer
              \/ \E q \in merges : MergePair(q)
    <2>1. UNCHANGED <<final, batch, session>>
          BY <1>10 DEF SkipGreedy, SkipOldMissing, SkipNewMissing, BeginPair, MoveDelta, ReadStaleDelta,
             MoveBase, SaveHot, BeginCold, CopyRecord, DropRecord, EndCold, GetMergeContainer, MergePair,
             historyVars
    <2> QED BY <1>1, <1>2, <2>1, RecipeFrame
  <1> QED BY <1>3, <1>4, <1>5, <1>6, <1>7, <1>8, <1>9, <1>10 DEF Next, StoreNew

LEMMA IdleInvNext ==
  ASSUME FlatInv, FlatInv', IdleInv, [Next]_vars
  PROVE  IdleInv'
  <1>1. TypeOK /\ TypeOK' /\ PlaceInv
        BY DEF FlatInv, StoreInv, TypeInv
  <1>2. CASE StoreNew
    <2>1. phase' = "batch"
          BY <1>1, <1>2, StoreCases DEF AtNewChunk
    <2> QED BY <2>1 DEF IdleInv
  <1>3. CASE EndUpload \/ CleanLocalIndex
    <2>1. queue' = <<>> /\ writing' = <<>>
          BY <1>3 DEF EndUpload, CleanLocalIndex, writerVars
    <2> QED BY <2>1 DEF IdleInv
  <1>4. CASE EndOffline
    <2>1. phase = "merge" /\ UNCHANGED <<queue, writing>>
          BY <1>4 DEF EndOffline, writerVars
    <2> QED BY <1>1, <2>1, OfflinePhase DEF IdleInv
  <1>5. CASE WriterOpen \/ WriterSave \/ UNCHANGED vars
    <2>1. phase' = phase /\ (phase = "idle" => UNCHANGED <<queue, writing>>)
          BY <1>5 DEF WriterOpen, WriterSave, vars, writerVars, IdleInv
    <2> QED BY <2>1 DEF IdleInv
  <1>6. CASE \/ \E op \in {"upload", "offline"} : StartSession(op)
             \/ Receive \/ SkipDuplicate \/ EndBatch \/ RecipeEnd \/ CloseSession \/ Disconnect \/ StartOffline
    <2>1. phase' # "idle"
          BY <1>6 DEF StartSession, Receive, RecvBatch, SkipDuplicate, EndBatch, RecipeEnd, CloseSession,
             Disconnect, StartOffline
    <2> QED BY <2>1 DEF IdleInv
  <1>7. CASE \/ \E p \in localMap : SkipGreedy(p[1], p[2])
             \/ \E p \in localMap : SkipOldMissing(p[1], p[2])
             \/ \E p \in localMap : SkipNewMissing(p[1], p[2])
             \/ \E p \in localMap : BeginPair(p[1], p[2])
             \/ \E d \in work.deltas : MoveDelta(d)
             \/ \E d \in work.deltas : ReadStaleDelta(d)
             \/ MoveBase \/ SaveHot
             \/ \E k \in Cids : BeginCold(k)
             \/ \E r \in walk.buf : CopyRecord(r)
             \/ \E q \in walk.rest : DropRecord(q)
             \/ EndCold \/ GetMergeContainer
             \/ \E q \in merges : MergePair(q)
    <2>1. phase' # "idle"
          BY <1>7 DEF SkipGreedy, SkipOldMissing, SkipNewMissing, BeginPair, MoveDelta, ReadStaleDelta,
             MoveBase, SaveHot, BeginCold, CopyRecord, DropRecord, EndCold, GetMergeContainer, MergePair
    <2> QED BY <2>1 DEF IdleInv
  <1> QED BY <1>2, <1>3, <1>4, <1>5, <1>6, <1>7 DEF Next, StoreNew

\* Between sessions a stored chunk is in a file of its kind.
LEMMA IdleOnDisk ==
  ASSUME FlatInv, CodeInv, IdleInv, phase = "idle", ~staleUse, broken = 0, NEW c \in Chunks, Indexed(c)
  PROVE  OnDisk(c)
  <1>1. TypeOK /\ PlaceInv
        BY DEF FlatInv, StoreInv, TypeInv
  <1>2. PICK r \in Live : r.fp = c /\ r.addr = fpIndex[c]
    <2>1. ~(broken > 0)
          OBVIOUS
    <2> QED BY <2>1, <1>1 DEF PlaceInv, LiveFound, Stored
  <1>3. r \notin WayRecs
    <2>1. /\ inBase = EmptyContainer(0) /\ inDelta = EmptyContainer(0) /\ hot = EmptyContainer(0)
          /\ queue = <<>> /\ writing = <<>>
          BY <1>1 DEF PlaceInv, PhaseFacts, IdleInv
    <2>2. OnTheWay = Way(EmptyContainer(0), EmptyContainer(0), EmptyContainer(0), <<>>, <<>>)
          BY <2>1 DEF OnTheWay
    <2>3. OnTheWay = {EmptyContainer(0)}
          BY <2>2, WayEmpty
    <2> QED BY <2>3, EmptyFields DEF WayRecs
  <1>4. PICK k \in Cids : r \in Disk(k)
        BY <1>2, <1>3 DEF Live, DiskRecs
  <1>5. Disk(k) = file[k].recs /\ r.addr.cid = k /\ r.addr.off = r.pos
        BY <1>1, <1>4, DiskIsFile, DiskFacts DEF PlaceInv
  <1>6. KindOf(r.addr) = file[k].kind /\ r.src = r.addr.base
    <2>1. AllSound(staleUse, Disk(k), file[k].kind)
          BY <1>4 DEF CodeInv, RecordInv
    <2> QED BY <2>1, <1>4 DEF AllSound, Sound
  <1>7. r \in file[fpIndex[c].cid].recs /\ r.pos = fpIndex[c].off /\ r.src = fpIndex[c].base
        BY <1>2, <1>4, <1>5, <1>6
  <1> QED BY <1>2, <1>4, <1>5, <1>6, <1>7 DEF OnDisk, KindOf

\* The promise of the system: between sessions, every chunk that a finalised
\* file recipe names is on disk, and if it is a delta so is its base, each in
\* a container of its kind, at its place, coded against the base the index
\* names.  It holds after any number of uploads and offline passes, whatever
\* Easy_update, Update_cold_container and MergeContainer have done with the
\* containers, unless a client disconnected early or an inline delta was
\* coded against a wrong buffer.
THEOREM FinalisedStaysRestorable == Spec => []Restorable
  <1> DEFINE Inv == FlatInv /\ CodeInv /\ RecipeInv /\ IdleInv
  <1>1. Init => Inv
        BY FlatInvInit, RecordInit DEF CodeInv
  <1>2. Inv /\ [Next]_vars => Inv'
    <2> SUFFICES ASSUME FlatInv, CodeInv, RecipeInv, IdleInv, [Next]_vars
                 PROVE  FlatInv' /\ CodeInv' /\ RecipeInv' /\ IdleInv'
        OBVIOUS
    <2>1. FlatInv'
          BY FlatInvNext
    <2> QED BY <2>1, CodeInvNext, RecipeInvNext, IdleInvNext
  <1>3. Inv => Restorable
    <2> SUFFICES ASSUME FlatInv, CodeInv, RecipeInv, IdleInv, phase = "idle", ~staleUse, broken = 0,
                        NEW c \in final
                 PROVE  Restores(c)
        BY DEF Restorable
    <2>1. TypeOK /\ ChainInv
          BY DEF FlatInv, StoreInv, TypeInv
    <2>2. c \in Chunks /\ Indexed(c)
          BY <2>1, BatchFps DEF RecipeInv
    <2>3. OnDisk(c)
          BY <2>2, IdleOnDisk
    <2>4. ASSUME fpIndex[c].base # NoChunk PROVE OnDisk(fpIndex[c].base)
      <3>1. fpIndex[c].base \in Chunks /\ Indexed(fpIndex[c].base)
            BY <2>1, <2>2, <2>4, IndexFacts DEF ChainInv, NoChain, IsBase
      <3> QED BY <3>1, IdleOnDisk
    <2> QED BY <2>3, <2>4 DEF Restores
  <1> QED BY <1>1, <1>2, <1>3, PTL DEF Spec
=============================================================================
