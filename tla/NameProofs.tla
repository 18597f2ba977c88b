------------------------------ MODULE NameProofs ------------------------------
(***************************************************************************)
(* What a session does with the shared state: container names are used     *)
(* once (OneHolder), and without the offline pass an index entry is final  *)
(* (NoRewrite).                                                            *)
(***************************************************************************)
EXTENDS TypeProofs

\* Names below con_times, and none of them is zero once it is handed over.
NamesTaken ==
    /\ nextCid > 0
    /\ inBase.cid < nextCid /\ inDelta.cid < nextCid /\ hot.cid < nextCid
    /\ \A i \in 1 .. Len(queue) : 0 < queue[i].cid /\ queue[i].cid < nextCid
    /\ \A i \in 1 .. Len(writing) : 0 < writing[i].cid /\ writing[i].cid < nextCid
    /\ \A k \in Cids : file[k].kind # "none" => k < nextCid

\* A session that takes chunks has named both of its containers.
OpenNamed == phase \in {"recv", "batch", "ended"} => inBase.cid # 0 /\ inDelta.cid # 0

\* No two containers that are on their way to disk share a name.
NamesDistinct ==
    /\ inBase.cid # 0 => inBase.cid # inDelta.cid /\ inBase.cid # hot.cid
    /\ inDelta.cid # 0 => inDelta.cid # hot.cid
    /\ \A i \in 1 .. Len(queue) :
        /\ queue[i].cid # inBase.cid /\ queue[i].cid # inDelta.cid /\ queue[i].cid # hot.cid
        /\ \A j \in 1 .. Len(queue) : queue[i].cid = queue[j].cid => i = j
        /\ \A j \in 1 .. Len(writing) : queue[i].cid # writing[j].cid
    /\ Len(writing) <= 1
    /\ \A j \in 1 .. Len(writing) :
        writing[j].cid # inBase.cid /\ writing[j].cid # inDelta.cid /\ writing[j].cid # hot.cid

\* What is not yet opened by the writer has no file.
Unwritten(k) == k \in Cids => file[k].kind = "none"
NoFileYet ==
    /\ Unwritten(inBase.cid) /\ Unwritten(inDelta.cid) /\ Unwritten(hot.cid)
    /\ \A i \in 1 .. Len(queue) : Unwritten(queue[i].cid)

NameInv == NamesTaken /\ OpenNamed /\ NamesDistinct /\ NoFileYet

-----------------------------------------------------------------------------
(* OneHolder follows, and the initial state satisfies the invariant.       *)

LEMMA QueueDomain ==
  ASSUME TypeOK
  PROVE  /\ Len(queue) \in Nat /\ DOMAIN queue = 1 .. Len(queue)
         /\ Len(writing) \in Nat /\ DOMAIN writing = 1 .. Len(writing)
         /\ \A i \in 1 .. Len(queue) : queue[i] \in QueuedContainer /\ queue[i].cid \in Nat
         /\ \A i \in 1 .. Len(writing) : writing[i] \in QueuedContainer /\ writing[i].cid \in Nat
         /\ nextCid \in Nat /\ inBase.cid \in Nat /\ inDelta.cid \in Nat /\ hot.cid \in Nat
  <1>1. /\ queue \in Seq(QueuedContainer) /\ writing \in Seq(QueuedContainer) /\ nextCid \in Nat
        /\ inBase \in Container /\ inDelta \in Container /\ hot \in Container
        BY DEF TypeOK, ContainerTypes
  <1>2. /\ \A i \in 1 .. Len(queue) : queue[i] \in QueuedContainer
        /\ \A i \in 1 .. Len(writing) : writing[i] \in QueuedContainer
        BY <1>1, ElementOfSeq
  <1>3. \A c \in QueuedContainer : c.cid \in Nat
        BY DEF QueuedContainer
  <1>4. inBase.cid \in Nat /\ inDelta.cid \in Nat /\ hot.cid \in Nat
        BY <1>1 DEF Container
  <1> QED BY <1>1, <1>2, <1>3, <1>4, LenProperties

LEMMA NameInvOneHolder ==
  ASSUME TypeOK, NameInv
  PROVE  OneHolder
  <1> DEFINE open == {inBase, inDelta, hot}
             queued == {queue[i] : i \in DOMAIN queue}
  <1>1. ASSUME NEW h \in open \cup queued
        PROVE  h.cid \in Cids => file[h.cid].kind = "none"
    <2>1. CASE h \in open
          BY <2>1 DEF NameInv, NoFileYet, Unwritten
    <2>2. CASE h \in queued
          BY <2>2, QueueDomain DEF NameInv, NoFileYet, Unwritten
    <2> QED BY <1>1, <2>1, <2>2
  <1>2. \A i, j \in DOMAIN queue : queue[i].cid = queue[j].cid => i = j
        BY QueueDomain DEF NameInv, NamesDistinct
  <1>3. ASSUME NEW g \in open \cup {AsContainer(q) : q \in Queued},
               NEW h \in open \cup {AsContainer(q) : q \in Queued}, g.cid = h.cid, g.cid # 0
        PROVE  g = h
    <2>1. \A q : AsContainer(q).cid = q.cid
          BY DEF AsContainer
    <2>2. CASE g \in open /\ h \in open
          BY <1>3, <2>2 DEF NameInv, NamesDistinct
    <2>3. ASSUME NEW u \in open, NEW q \in Queued PROVE u.cid # q.cid
          BY <2>3, QueueDomain DEF NameInv, NamesDistinct, Queued
    <2>4. ASSUME NEW p \in Queued, NEW q \in Queued, p.cid = q.cid PROVE p = q
      <3>1. CASE (\E i \in DOMAIN queue : p = queue[i]) /\ (\E i \in DOMAIN queue : q = queue[i])
            BY <1>2, <2>4, <3>1
      <3>2. CASE (\E i \in DOMAIN queue : p = queue[i]) /\ (\E i \in DOMAIN writing : q = writing[i])
            BY <2>4, <3>2, QueueDomain DEF NameInv, NamesDistinct
      <3>3. CASE (\E i \in DOMAIN writing : p = writing[i]) /\ (\E i \in DOMAIN queue : q = queue[i])
            BY <2>4, <3>3, QueueDomain DEF NameInv, NamesDistinct
      <3>4. CASE (\E i \in DOMAIN writing : p = writing[i]) /\ (\E i \in DOMAIN writing : q = writing[i])
            BY <3>4, QueueDomain DEF NameInv, NamesDistinct
      <3> QED BY <2>4, <3>1, <3>2, <3>3, <3>4 DEF Queued
    <2>5. CASE g \in open /\ h \notin open
          BY <1>3, <2>1, <2>3, <2>5
    <2>6. CASE g \notin open /\ h \in open
          BY <1>3, <2>1, <2>3, <2>6
    <2>7. CASE g \notin open /\ h \notin open
      <3>1. PICK p \in Queued, q \in Queued : g = AsContainer(p) /\ h = AsContainer(q)
            BY <2>7
      <3>2. p.cid = q.cid
            BY <1>3, <2>1, <3>1
      <3> QED BY <2>4, <3>1, <3>2
    <2> QED BY <2>2, <2>5, <2>6, <2>7
  <1> QED BY <1>1, <1>2, <1>3, Zenon DEF OneHolder

LEMMA NameInvInit == Init => NameInv
  <1> SUFFICES ASSUME Init PROVE NameInv
      OBVIOUS
  <1>1. queue = <<>> /\ writing = <<>> /\ Len(queue) = 0 /\ Len(writing) = 0
        BY EmptySeq DEF Init
  <1>2. inBase.cid = 0 /\ inDelta.cid = 0 /\ hot.cid = 0 /\ nextCid = 1 /\ phase = "idle"
        BY DEF Init, EmptyContainer
  <1>3. \A k \in Cids : file[k].kind = "none"
        BY DEF Init, NoFile
  <1> QED BY <1>1, <1>2, <1>3 DEF NameInv, NamesTaken, OpenNamed, NamesDistinct, NoFileYet, Unwritten

-----------------------------------------------------------------------------
(* Steps.  Every action but the writer's only gives out new names, drops   *)
(* names, hands containers over to the queue, or saves the hot container:  *)
(* NamesKept says so, and NamesStep that the invariant then survives.      *)

\* A container keeps its name, has lost it, or has one con_times just gave.
NameOrNew(new, old) == new = 0 \/ new = old \/ (nextCid <= new /\ new < nextCid')

\* t holds containers of the session that are no longer open afterwards.
HandedOver(t) ==
    /\ \A i \in 1 .. Len(t) :
        /\ t[i].cid # 0 /\ (t[i].cid = inBase.cid \/ t[i].cid = inDelta.cid)
        /\ t[i].cid # inBase'.cid /\ t[i].cid # inDelta'.cid
    /\ \A i, j \in 1 .. Len(t) : t[i].cid = t[j].cid => i = j

NamesKept(t) ==
    /\ queue' = queue \o t /\ HandedOver(t) /\ writing' = writing
    /\ nextCid <= nextCid'
    /\ NameOrNew(inBase'.cid, inBase.cid) /\ NameOrNew(inDelta'.cid, inDelta.cid)
    /\ NameOrNew(hot'.cid, hot.cid)
    /\ inBase'.cid # 0 => inBase'.cid # inDelta'.cid /\ inBase'.cid # hot'.cid
    /\ inDelta'.cid # 0 => inDelta'.cid # hot'.cid
    /\ \A k \in Cids : file'[k].kind # "none" =>
            file[k].kind # "none" \/ (k = hot.cid /\ k # hot'.cid)

LEMMA NamesStep ==
  ASSUME TypeOK, TypeOK', NameInv, NEW t \in Seq(QueuedContainer), NamesKept(t), OpenNamed'
  PROVE  NameInv'
  <1>1. /\ Len(queue) \in Nat /\ Len(t) \in Nat /\ Len(queue') = Len(queue) + Len(t)
        /\ \A i \in 1 .. Len(queue) : queue'[i] = queue[i]
        /\ \A i \in 1 .. Len(t) : queue'[Len(queue) + i] = t[i]
    <2>1. queue \in Seq(QueuedContainer) /\ queue' = queue \o t
          BY DEF TypeOK, ContainerTypes, NamesKept
    <2>2. Len(queue) \in Nat /\ Len(t) \in Nat /\ Len(queue \o t) = Len(queue) + Len(t)
          BY <2>1, LenProperties, ConcatProperties
    <2>3. \A i \in 1 .. Len(queue \o t) :
            (queue \o t)[i] = IF i <= Len(queue) THEN queue[i] ELSE t[i - Len(queue)]
          BY <2>1, ConcatProperties
    <2> QED BY <2>1, <2>2, <2>3
  <1>2. \A i \in 1 .. Len(queue') :
          \/ i \in 1 .. Len(queue) /\ queue'[i] = queue[i]
          \/ i - Len(queue) \in 1 .. Len(t) /\ queue'[i] = t[i - Len(queue)]
        BY <1>1
  <1>3. /\ \A i \in 1 .. Len(queue) : queue[i].cid \in Nat
        /\ \A i \in 1 .. Len(writing) : writing[i].cid \in Nat
        /\ nextCid \in Nat /\ inBase.cid \in Nat /\ inDelta.cid \in Nat /\ hot.cid \in Nat
        BY QueueDomain
  <1>4. \A i \in 1 .. Len(t) : t[i].cid \in Nat
        BY <1>3 DEF NamesKept, HandedOver
  <1>5. nextCid' \in Nat /\ inBase'.cid \in Nat /\ inDelta'.cid \in Nat /\ hot'.cid \in Nat
        BY DEF TypeOK, ContainerTypes, Container
  <1>6. NamesTaken'
    <2>1. nextCid' > 0 /\ inBase'.cid < nextCid' /\ inDelta'.cid < nextCid' /\ hot'.cid < nextCid'
          BY <1>3, <1>5 DEF NamesKept, NameOrNew, NameInv, NamesTaken
    <2>2. ASSUME NEW i \in 1 .. Len(queue') PROVE 0 < queue'[i].cid /\ queue'[i].cid < nextCid'
      <3>1. CASE i \in 1 .. Len(queue) /\ queue'[i] = queue[i]
            BY <3>1, <1>3, <1>5 DEF NamesKept, NameInv, NamesTaken
      <3>2. CASE i - Len(queue) \in 1 .. Len(t) /\ queue'[i] = t[i - Len(queue)]
        <4>1. t[i - Len(queue)].cid \in Nat /\ nextCid <= nextCid'
              BY <3>2, <1>4 DEF NamesKept
        <4>2. t[i - Len(queue)].cid # 0 /\ t[i - Len(queue)].cid < nextCid
              BY <3>2 DEF NamesKept, HandedOver, NameInv, NamesTaken
        <4> QED BY <3>2, <4>1, <4>2, <1>3, <1>5
      <3> QED BY <1>2, <3>1, <3>2
    <2>3. \A i \in 1 .. Len(writing') : 0 < writing'[i].cid /\ writing'[i].cid < nextCid'
      <3>1. writing' = writing /\ nextCid <= nextCid'
            BY DEF NamesKept
      <3>2. \A i \in 1 .. Len(writing) : 0 < writing[i].cid /\ writing[i].cid < nextCid
            BY DEF NameInv, NamesTaken
      <3> QED BY <3>1, <3>2, <1>3, <1>5
    <2>4. \A k \in Cids : file'[k].kind # "none" => k < nextCid'
      <3> SUFFICES ASSUME NEW k \in Cids, file'[k].kind # "none" PROVE k < nextCid'
          OBVIOUS
      <3>1. k \in Nat /\ nextCid <= nextCid'
            BY ContainerAssumption DEF Cids, NamesKept
      <3>2. file[k].kind # "none" \/ k = hot.cid
            BY DEF NamesKept
      <3>3. k < nextCid
            BY <3>2 DEF NameInv, NamesTaken
      <3> QED BY <3>1, <3>3, <1>3, <1>5
    <2> QED BY <2>1, <2>2, <2>3, <2>4 DEF NamesTaken
  \* What was in the queue or with the writer differs from every open name.
  <1>7. ASSUME NEW k \in Nat, k # 0, k < nextCid, k # inBase.cid, k # inDelta.cid, k # hot.cid
        PROVE  k # inBase'.cid /\ k # inDelta'.cid /\ k # hot'.cid
        BY <1>3, <1>5, <1>7 DEF NamesKept, NameOrNew
  <1>8. ASSUME NEW i \in 1 .. Len(t)
        PROVE  /\ t[i].cid # inBase'.cid /\ t[i].cid # inDelta'.cid /\ t[i].cid # hot'.cid
               /\ t[i].cid # hot.cid /\ t[i].cid < nextCid
               /\ \A j \in 1 .. Len(queue) : queue[j].cid # t[i].cid
               /\ \A j \in 1 .. Len(writing) : writing[j].cid # t[i].cid
    <2>1. /\ t[i].cid # 0 /\ (t[i].cid = inBase.cid \/ t[i].cid = inDelta.cid)
          /\ t[i].cid # inBase'.cid /\ t[i].cid # inDelta'.cid
          BY DEF NamesKept, HandedOver
    <2>2. t[i].cid # hot.cid /\ t[i].cid < nextCid
          BY <2>1 DEF NameInv, NamesDistinct, NamesTaken
    <2>3. t[i].cid # hot'.cid
          BY <2>1, <2>2, <1>3, <1>4, <1>5 DEF NamesKept, NameOrNew
    <2> QED BY <2>1, <2>2, <2>3 DEF NameInv, NamesDistinct
  <1>9. NamesDistinct'
    <2>1. /\ inBase'.cid # 0 => inBase'.cid # inDelta'.cid /\ inBase'.cid # hot'.cid
          /\ inDelta'.cid # 0 => inDelta'.cid # hot'.cid
          BY DEF NamesKept
    <2>2. \A i \in 1 .. Len(queue) :
            queue[i].cid # inBase'.cid /\ queue[i].cid # inDelta'.cid /\ queue[i].cid # hot'.cid
          BY <1>3, <1>7 DEF NameInv, NamesTaken, NamesDistinct
    <2>3. \A j \in 1 .. Len(writing) :
            writing[j].cid # inBase'.cid /\ writing[j].cid # inDelta'.cid /\ writing[j].cid # hot'.cid
          BY <1>3, <1>7 DEF NameInv, NamesTaken, NamesDistinct
    <2>4. ASSUME NEW i \in 1 .. Len(queue')
          PROVE  /\ queue'[i].cid # inBase'.cid /\ queue'[i].cid # inDelta'.cid
                 /\ queue'[i].cid # hot'.cid
                 /\ \A j \in 1 .. Len(queue') : queue'[i].cid = queue'[j].cid => i = j
                 /\ \A j \in 1 .. Len(writing') : queue'[i].cid # writing'[j].cid
      <3>1. CASE i \in 1 .. Len(queue) /\ queue'[i] = queue[i]
        <4>1. ASSUME NEW j \in 1 .. Len(queue'), queue'[i].cid = queue'[j].cid PROVE i = j
          <5>1. CASE j \in 1 .. Len(queue) /\ queue'[j] = queue[j]
                BY <3>1, <4>1, <5>1 DEF NameInv, NamesDistinct
          <5>2. CASE j - Len(queue) \in 1 .. Len(t) /\ queue'[j] = t[j - Len(queue)]
                BY <3>1, <4>1, <5>2, <1>8
          <5> QED BY <1>2, <5>1, <5>2
        <4> QED BY <3>1, <4>1, <2>2 DEF NamesKept, NameInv, NamesDistinct
      <3>2. CASE i - Len(queue) \in 1 .. Len(t) /\ queue'[i] = t[i - Len(queue)]
        <4>1. ASSUME NEW j \in 1 .. Len(queue'), queue'[i].cid = queue'[j].cid PROVE i = j
          <5>1. CASE j \in 1 .. Len(queue) /\ queue'[j] = queue[j]
                BY <3>2, <4>1, <5>1, <1>8
          <5>2. CASE j - Len(queue) \in 1 .. Len(t) /\ queue'[j] = t[j - Len(queue)]
            <6>1. i - Len(queue) = j - Len(queue)
                  BY <3>2, <4>1, <5>2 DEF NamesKept, HandedOver
            <6> QED BY <6>1, <1>1
          <5> QED BY <1>2, <5>1, <5>2
        <4> QED BY <3>2, <4>1, <1>8 DEF NamesKept
      <3> QED BY <1>2, <3>1, <3>2
    <2>5. Len(writing') <= 1
          BY DEF NamesKept, NameInv, NamesDistinct
    <2> QED BY <2>1, <2>3, <2>4, <2>5 DEF NamesDistinct, NamesKept
  <1>10. NoFileYet'
    <2>1. ASSUME NEW k \in Nat, NEW new, NameOrNew(new, k), Unwritten(k), new # 0 => new # hot.cid \/ new = hot'.cid
          PROVE  Unwritten(new)'
      <3>1. CASE new = 0
            BY <3>1 DEF Unwritten, Cids
      <3>2. CASE new = k
            BY <2>1, <3>2 DEF Unwritten, NamesKept, Cids
      <3>3. CASE nextCid <= new /\ new < nextCid'
            BY <3>3, <1>3, <1>5 DEF Unwritten, NamesKept, NameInv, NamesTaken, Cids
      <3> QED BY <2>1, <3>1, <3>2, <3>3 DEF NameOrNew
    <2>2. /\ inBase'.cid # 0 => inBase'.cid # hot.cid
          /\ inDelta'.cid # 0 => inDelta'.cid # hot.cid
          BY <1>3, <1>5 DEF NamesKept, NameOrNew, NameInv, NamesDistinct, NamesTaken
    <2>3. Unwritten(inBase.cid)'
          BY <2>1, <2>2, <1>3 DEF NamesKept, NameInv, NoFileYet
    <2>4. Unwritten(inDelta.cid)'
          BY <2>1, <2>2, <1>3 DEF NamesKept, NameInv, NoFileYet
    <2>5. Unwritten(hot.cid)'
          BY <2>1, <1>3 DEF NamesKept, NameInv, NoFileYet
    <2>6. ASSUME NEW i \in 1 .. Len(queue') PROVE Unwritten(queue[i].cid)'
      <3>1. CASE i \in 1 .. Len(queue) /\ queue'[i] = queue[i]
            BY <3>1 DEF NamesKept, NameInv, NoFileYet, NamesDistinct, Unwritten
      <3>2. CASE i - Len(queue) \in 1 .. Len(t) /\ queue'[i] = t[i - Len(queue)]
            BY <3>2, <1>8 DEF NamesKept, HandedOver, NameInv, NoFileYet, Unwritten
      <3> QED BY <1>2, <3>1, <3>2
    <2> QED BY <2>3, <2>4, <2>5, <2>6 DEF NoFileYet
  <1> QED BY <1>6, <1>9, <1>10 DEF NameInv

\* Nothing is handed over, and no name is new, but open ones may be dropped.
LEMMA NamesNoQueue ==
  ASSUME TypeOK, TypeOK', NameInv, OpenNamed', queue' = queue, NamesKept(<<>>)
  PROVE  NameInv'
  <1>1. <<>> \in Seq(QueuedContainer)
        BY EmptySeq
  <1> QED BY <1>1, NamesStep

LEMMA EmptyHandedOver ==
  ASSUME TypeOK, queue' = queue
  PROVE  HandedOver(<<>>) /\ queue' = queue \o <<>>
  <1>1. queue \in Seq(QueuedContainer)
        BY DEF TypeOK, ContainerTypes
  <1>2. queue \o <<>> = queue
        BY <1>1, ConcatEmptySeq
  <1>3. Len(<<>>) = 0
        BY EmptySeq
  <1> QED BY <1>2, <1>3 DEF HandedOver

\* No container changes hands and no file appears.
LEMMA NamesFrame ==
  ASSUME TypeOK, TypeOK', NameInv, OpenNamed',
         UNCHANGED <<nextCid, inBase, inDelta, hot, queue, writing>>,
         \A k \in Cids : file'[k].kind # "none" => file[k].kind # "none"
  PROVE  NameInv'
  <1>1. /\ inBase.cid # 0 => inBase.cid # inDelta.cid /\ inBase.cid # hot.cid
        /\ inDelta.cid # 0 => inDelta.cid # hot.cid
        BY DEF NameInv, NamesDistinct
  <1>2. HandedOver(<<>>) /\ queue' = queue \o <<>>
        BY EmptyHandedOver
  <1>3. nextCid <= nextCid'
        BY QueueDomain
  <1>4. NamesKept(<<>>)
        BY <1>1, <1>2, <1>3 DEF NamesKept, NameOrNew
  <1> QED BY <1>4, NamesNoQueue

\* SaveRecord stays in the container or goes on in a new one.
LEMMA SaveRecordName ==
  ASSUME NEW c \in Container, NEW fp \in Chunks, NEW len \in Nat, NEW base, NEW src, nextCid \in Nat
  PROVE  SaveRecord(c, fp, len, base, src).cont.cid = IF Fits(c, len) THEN c.cid ELSE nextCid
  <1> DEFINE d == IF Fits(c, len) THEN c ELSE EmptyContainer(nextCid)
  <1>1. d \in Container
        BY EmptyContainerType
  <1>2. d.cid = IF Fits(c, len) THEN c.cid ELSE nextCid
        BY DEF EmptyContainer
  <1> HIDE DEF d
  <1>3. \A recs, size : [d EXCEPT !.recs = recs, !.size = size].cid = d.cid
        BY <1>1 DEF Container
  <1>4. SaveRecord(c, fp, len, base, src).cont.cid = d.cid
        BY <1>3 DEF SaveRecord, d
  <1> QED BY <1>2, <1>4

\* Storing a chunk: an open container takes the record, or is handed over
\* and goes on under the next name.
LEMMA RollNames ==
  ASSUME TypeOK, TypeOK', NameInv, phase = "batch", UNCHANGED <<phase, hot, writing, file>>,
         NEW c, NEW kind \in Kinds, NEW len, WriteContainer(c, kind, len),
         NEW name, name = IF Fits(c, len) THEN c.cid ELSE nextCid,
         \/ c = inBase /\ inBase'.cid = name /\ inDelta' = inDelta
         \/ c = inDelta /\ inDelta'.cid = name /\ inBase' = inBase
  PROVE  NameInv'
  <1> DEFINE q == [cid |-> c.cid, recs |-> c.recs, size |-> c.size, kind |-> kind]
  <1>1. /\ nextCid \in Nat /\ inBase.cid \in Nat /\ inDelta.cid \in Nat /\ hot.cid \in Nat
        /\ inBase.cid # 0 /\ inDelta.cid # 0 /\ c.cid \in Nat /\ c.cid # 0
        /\ inBase.cid < nextCid /\ inDelta.cid < nextCid /\ hot.cid < nextCid
        /\ inBase.cid # inDelta.cid /\ inBase.cid # hot.cid /\ inDelta.cid # hot.cid
        BY QueueDomain DEF NameInv, OpenNamed, NamesTaken, NamesDistinct
  <1>2. inBase'.cid # 0 /\ inDelta'.cid # 0 /\ OpenNamed'
        BY <1>1 DEF OpenNamed
  <1>3. CASE Fits(c, len)
    <2>1. queue' = queue /\ nextCid' = nextCid /\ inBase'.cid = inBase.cid /\ inDelta'.cid = inDelta.cid
          BY <1>3 DEF WriteContainer
    <2>2. HandedOver(<<>>) /\ queue' = queue \o <<>>
          BY <2>1, EmptyHandedOver
    <2>3. NamesKept(<<>>)
          BY <1>1, <2>1, <2>2 DEF NamesKept, NameOrNew
    <2> QED BY <1>2, <2>1, <2>3, NamesNoQueue
  <1>4. CASE ~Fits(c, len)
    <2>1. queue' = Append(queue, q) /\ nextCid' = nextCid + 1 /\ name = nextCid
          BY <1>4 DEF WriteContainer
    <2>2. q \in QueuedContainer /\ q.cid = c.cid
          BY DEF TypeOK, ContainerTypes, Container, QueuedContainer
    <2> HIDE DEF q
    <2>3. <<q>> \in Seq(QueuedContainer) /\ Len(<<q>>) = 1 /\ <<q>>[1] = q
          BY <2>2
    <2>4. queue' = queue \o <<q>>
          BY <2>1, <2>2, AppendIsConcat DEF TypeOK, ContainerTypes
    <2>5. HandedOver(<<q>>)
          BY <1>1, <2>1, <2>2, <2>3 DEF HandedOver
    <2>6. NamesKept(<<q>>)
          BY <1>1, <2>1, <2>4, <2>5 DEF NamesKept, NameOrNew
    <2> QED BY <1>2, <2>3, <2>6, NamesStep
  <1> QED BY <1>3, <1>4

LEMMA SavebaseNames ==
  ASSUME TypeOK, TypeOK', NameInv, phase = "batch", UNCHANGED <<phase, hot, writing, file>>,
         NEW fp \in Chunks, NEW old, SavebaseChunk(fp, old)
  PROVE  NameInv'
  <1>1. inBase \in Container /\ nextCid \in Nat /\ CLen[fp] \in Nat /\ "base" \in Kinds
        BY SizeAssumption DEF TypeOK, ContainerTypes, Kinds
  <1>2. inBase'.cid = IF Fits(inBase, CLen[fp]) THEN inBase.cid ELSE nextCid
        BY <1>1, SaveRecordName DEF SavebaseChunk
  <1>3. WriteContainer(inBase, "base", CLen[fp]) /\ inDelta' = inDelta
        BY DEF SavebaseChunk
  <1> QED BY <1>1, <1>2, <1>3, RollNames

LEMMA SavedeltaNames ==
  ASSUME TypeOK, TypeOK', NameInv, phase = "batch", UNCHANGED <<phase, hot, writing, file>>,
         NEW fp \in Chunks, NEW len \in Nat, NEW base, NEW src, SavedeltaChunk(fp, len, base, src)
  PROVE  NameInv'
  <1>1. inDelta \in Container /\ nextCid \in Nat /\ "delta" \in Kinds
        BY DEF TypeOK, ContainerTypes, Kinds
  <1>2. inDelta'.cid = IF Fits(inDelta, len) THEN inDelta.cid ELSE nextCid
        BY <1>1, SaveRecordName DEF SavedeltaChunk
  <1>3. WriteContainer(inDelta, "delta", len) /\ inBase' = inBase
        BY DEF SavedeltaChunk
  <1> QED BY <1>1, <1>2, <1>3, RollNames

-----------------------------------------------------------------------------
(* The actions that name, hand over, write or drop containers.             *)

LEMMA StartSessionNames ==
  ASSUME TypeOK, TypeOK', NameInv, NEW op, StartSession(op)
  PROVE  NameInv'
  <1>1. /\ nextCid \in Nat /\ hot.cid \in Nat /\ hot.cid < nextCid /\ nextCid > 0
        BY QueueDomain DEF NameInv, NamesTaken
  <1>2. /\ inBase'.cid = nextCid /\ inDelta'.cid = nextCid + 1 /\ nextCid' = nextCid + 2
        /\ UNCHANGED <<file, queue, writing, hot>>
        BY DEF StartSession, EmptyContainer, writerVars, offlineVars
  <1>3. HandedOver(<<>>) /\ queue' = queue \o <<>>
        BY <1>2, EmptyHandedOver
  <1>4. NamesKept(<<>>) /\ OpenNamed'
        BY <1>1, <1>2, <1>3 DEF NamesKept, NameOrNew, OpenNamed
  <1> QED BY <1>2, <1>4, NamesNoQueue

LEMMA DisconnectNames ==
  ASSUME TypeOK, TypeOK', NameInv, Disconnect
  PROVE  NameInv'
  <1>1. nextCid \in Nat
        BY QueueDomain
  <1>2. /\ inBase'.cid = 0 /\ inDelta'.cid = 0 /\ phase' = "drain"
        /\ UNCHANGED <<file, queue, writing, hot, nextCid>>
        BY DEF Disconnect, EmptyContainer, writerVars, offlineVars
  <1>3. HandedOver(<<>>) /\ queue' = queue \o <<>>
        BY <1>2, EmptyHandedOver
  <1>4. NamesKept(<<>>) /\ OpenNamed'
        BY <1>1, <1>2, <1>3 DEF NamesKept, NameOrNew, OpenNamed
  <1> QED BY <1>2, <1>4, NamesNoQueue

LEMMA TailOfNames ==
  ASSUME NEW c \in Container, NEW kind \in Kinds
  PROVE  /\ TailOf(c, kind) \in Seq(QueuedContainer) /\ Len(TailOf(c, kind)) \in {0, 1}
         /\ \A i \in 1 .. Len(TailOf(c, kind)) : i = 1 /\ TailOf(c, kind)[i].cid = c.cid
  <1> DEFINE q == [cid |-> c.cid, recs |-> c.recs, size |-> c.size, kind |-> kind]
  <1>1. q \in QueuedContainer /\ q.cid = c.cid
        BY DEF Container, QueuedContainer
  <1>2. TailOf(c, kind) = IF c.size = 0 THEN <<>> ELSE <<q>>
        BY DEF TailOf
  <1> HIDE DEF q
  <1>3. CASE c.size = 0
        BY <1>2, <1>3, EmptySeq
  <1>4. CASE c.size # 0
        BY <1>1, <1>2, <1>4
  <1> QED BY <1>3, <1>4

LEMMA CloseSessionNames ==
  ASSUME TypeOK, TypeOK', NameInv, CloseSession
  PROVE  NameInv'
  <1> DEFINE s == TailOf(inBase, "base")
             u == TailOf(inDelta, "delta")
             t == TailContainers
  <1>1. /\ s \in Seq(QueuedContainer) /\ Len(s) \in {0, 1}
        /\ \A i \in 1 .. Len(s) : i = 1 /\ s[i].cid = inBase.cid
        /\ u \in Seq(QueuedContainer) /\ Len(u) \in {0, 1}
        /\ \A i \in 1 .. Len(u) : i = 1 /\ u[i].cid = inDelta.cid
        BY TailOfNames DEF TypeOK, ContainerTypes, Kinds
  <1>2. t = s \o u
        BY DEF TailContainers
  <1> HIDE DEF s, u, t
  <1>3. /\ t \in Seq(QueuedContainer) /\ Len(t) = Len(s) + Len(u)
        /\ \A i \in 1 .. Len(s) + Len(u) : t[i] = IF i <= Len(s) THEN s[i] ELSE u[i - Len(s)]
        BY <1>1, <1>2, ConcatProperties
  <1>4. /\ inBase.cid # 0 /\ inDelta.cid # 0 /\ inBase.cid # inDelta.cid
        /\ nextCid \in Nat
        BY QueueDomain DEF NameInv, OpenNamed, NamesDistinct, CloseSession
  <1>5. /\ inBase'.cid = 0 /\ inDelta'.cid = 0 /\ phase' = "drain" /\ queue' = queue \o t
        /\ UNCHANGED <<file, writing, hot>> /\ nextCid' = nextCid + Len(t)
        BY DEF CloseSession, EmptyContainer, offlineVars, t
  <1>6. \A i \in 1 .. Len(t) :
          \/ i = 1 /\ Len(s) = 1 /\ t[i].cid = inBase.cid
          \/ i = Len(s) + 1 /\ t[i].cid = inDelta.cid
        BY <1>1, <1>3
  <1>7. HandedOver(t)
        BY <1>1, <1>4, <1>5, <1>6 DEF HandedOver
  <1>8. Len(t) \in Nat /\ nextCid <= nextCid'
        BY <1>1, <1>3, <1>4, <1>5
  <1>9. NamesKept(t) /\ OpenNamed'
        BY <1>5, <1>7, <1>8 DEF NamesKept, NameOrNew, OpenNamed
  <1> QED BY <1>3, <1>9, NamesStep

LEMMA StartOfflineNames ==
  ASSUME TypeOK, TypeOK', NameInv, StartOffline
  PROVE  NameInv'
  <1>1. /\ nextCid \in Nat /\ inBase.cid \in Nat /\ inDelta.cid \in Nat
        /\ inBase.cid < nextCid /\ inDelta.cid < nextCid /\ nextCid > 0
        /\ inBase.cid # 0 => inBase.cid # inDelta.cid
        BY QueueDomain DEF NameInv, NamesTaken, NamesDistinct
  <1>2. /\ hot'.cid = nextCid /\ nextCid' = nextCid + 1 /\ phase' = "pairs"
        /\ UNCHANGED <<file, queue, writing, inBase, inDelta>>
        BY DEF StartOffline, EmptyContainer, writerVars
  <1>3. HandedOver(<<>>) /\ queue' = queue \o <<>>
        BY <1>2, EmptyHandedOver
  <1>4. NamesKept(<<>>) /\ OpenNamed'
        BY <1>1, <1>2, <1>3 DEF NamesKept, NameOrNew, OpenNamed
  <1> QED BY <1>2, <1>4, NamesNoQueue

LEMMA CleanLocalIndexNames ==
  ASSUME TypeOK, TypeOK', NameInv, CleanLocalIndex
  PROVE  NameInv'
  <1>1. /\ nextCid \in Nat
        /\ inBase.cid # 0 => inBase.cid # inDelta.cid /\ inBase.cid # hot.cid
        /\ inDelta.cid # 0 => inDelta.cid # hot.cid
        BY QueueDomain DEF NameInv, NamesDistinct
  <1>2. /\ nextCid' = nextCid + 1 /\ phase' = "idle"
        /\ UNCHANGED <<file, queue, writing, inBase, inDelta, hot>>
        BY DEF CleanLocalIndex, writerVars, offlineVars
  <1>3. HandedOver(<<>>) /\ queue' = queue \o <<>>
        BY <1>2, EmptyHandedOver
  <1>4. NamesKept(<<>>) /\ OpenNamed'
        BY <1>1, <1>2, <1>3 DEF NamesKept, NameOrNew, OpenNamed
  <1> QED BY <1>2, <1>4, NamesNoQueue

\* A record goes into the hot container, or the full one is saved first.
LEMMA MoveToHotNames ==
  ASSUME TypeOK, TypeOK', NameInv, OpenNamed', NEW c, NEW len, NEW src, MoveToHot(c, len, src),
         UNCHANGED <<queue, writing, inBase, inDelta>>
  PROVE  NameInv'
  <1> DEFINE fits == Hdr + len + hot.size < MaxContainer
             h == IF fits THEN hot ELSE EmptyContainer(nextCid)
  <1>1. /\ nextCid \in Nat /\ inBase.cid \in Nat /\ inDelta.cid \in Nat /\ hot.cid \in Nat
        /\ inBase.cid < nextCid /\ inDelta.cid < nextCid /\ hot.cid < nextCid /\ nextCid > 0
        /\ inBase.cid # 0 => inBase.cid # inDelta.cid /\ inBase.cid # hot.cid
        /\ inDelta.cid # 0 => inDelta.cid # hot.cid
        BY QueueDomain DEF NameInv, NamesTaken, NamesDistinct
  <1>2. h \in Container /\ h.cid = IF fits THEN hot.cid ELSE nextCid
        BY <1>1, EmptyContainerType DEF TypeOK, ContainerTypes, EmptyContainer
  <1>3. \A recs, size : [h EXCEPT !.recs = recs, !.size = size].cid = h.cid
        BY <1>2 DEF Container
  <1>4. hot'.cid = IF fits THEN hot.cid ELSE nextCid
    <2>1. \E recs, size : hot' = [h EXCEPT !.recs = recs, !.size = size]
          BY DEF MoveToHot
    <2> QED BY <2>1, <1>2, <1>3
  <1>5. IF fits THEN UNCHANGED <<file, nextCid>>
        ELSE file' = [file EXCEPT ![hot.cid] = HotFile] /\ nextCid' = nextCid + 1
        BY DEF MoveToHot
  <1> HIDE DEF fits, h
  <1>6. \A k \in Cids : file'[k].kind # "none" =>
          file[k].kind # "none" \/ (k = hot.cid /\ k # hot'.cid)
        BY <1>1, <1>4, <1>5 DEF TypeOK, ContainerTypes
  <1>7. HandedOver(<<>>) /\ queue' = queue \o <<>>
        BY EmptyHandedOver
  <1>8. NamesKept(<<>>)
        BY <1>1, <1>4, <1>5, <1>6, <1>7 DEF NamesKept, NameOrNew
  <1> QED BY <1>8, NamesNoQueue

LEMMA MoveDeltaNames ==
  ASSUME TypeOK, TypeOK', NameInv, NEW d, MoveDelta(d)
  PROVE  NameInv'
  <1>1. OpenNamed' /\ UNCHANGED <<queue, writing, inBase, inDelta>>
        BY DEF MoveDelta, OpenNamed, writerVars
  <1>2. CASE UNCHANGED <<file, nextCid, hot>>
        BY <1>1, <1>2, NamesFrame
  <1>3. CASE \E len, src : MoveToHot(d, len, src)
        BY <1>1, <1>3, MoveToHotNames
  <1>4. UNCHANGED <<file, nextCid, hot>> \/ \E len, src : MoveToHot(d, len, src)
        BY DEF MoveDelta
  <1> QED BY <1>2, <1>3, <1>4

LEMMA MoveBaseNames ==
  ASSUME TypeOK, TypeOK', NameInv, MoveBase
  PROVE  NameInv'
  <1>1. OpenNamed' /\ UNCHANGED <<queue, writing, inBase, inDelta>>
        BY DEF MoveBase, OpenNamed, writerVars
  <1>2. CASE UNCHANGED <<file, nextCid, hot>>
        BY <1>1, <1>2, NamesFrame
  <1>3. CASE \E len, src : MoveToHot(work.old, len, src)
        BY <1>1, <1>3, MoveToHotNames
  <1>4. UNCHANGED <<file, nextCid, hot>> \/ \E len, src : MoveToHot(work.old, len, src)
        BY DEF MoveBase
  <1> QED BY <1>2, <1>3, <1>4

LEMMA SaveHotNames ==
  ASSUME TypeOK, TypeOK', NameInv, SaveHot
  PROVE  NameInv'
  <1>1. /\ nextCid \in Nat /\ hot.cid \in Nat
        /\ inBase.cid # 0 => inBase.cid # inDelta.cid
        BY QueueDomain DEF NameInv, NamesDistinct
  <1>2. /\ hot'.cid = 0 /\ phase' = "cold" /\ UNCHANGED <<queue, writing, inBase, inDelta, nextCid>>
        /\ file' = file \/ file' = [file EXCEPT ![hot.cid] = HotFile]
        BY DEF SaveHot, EmptyContainer, writerVars, enclaveVars
  <1>3. \A k \in Cids : file'[k].kind # "none" =>
          file[k].kind # "none" \/ (k = hot.cid /\ k # hot'.cid)
        BY <1>2 DEF TypeOK, ContainerTypes, Cids
  <1>4. HandedOver(<<>>) /\ queue' = queue \o <<>>
        BY <1>2, EmptyHandedOver
  <1>5. NamesKept(<<>>) /\ OpenNamed'
        BY <1>1, <1>2, <1>3, <1>4 DEF NamesKept, NameOrNew, OpenNamed
  <1> QED BY <1>2, <1>5, NamesNoQueue

LEMMA EndColdNames ==
  ASSUME TypeOK, TypeOK', NameInv, EndCold
  PROVE  NameInv'
  <1>1. /\ OpenNamed' /\ UNCHANGED <<nextCid, inBase, inDelta, hot, queue, writing>>
        /\ file' = [file EXCEPT ![walk.cid].recs = walk.recs,
                                ![walk.cid].size = walk.size - walk.coldset]
        BY DEF EndCold, OpenNamed, writerVars, enclaveVars
  <1>2. file \in [Cids -> File]
        BY DEF TypeOK, ContainerTypes
  <1>3. \A k \in Cids : file'[k].kind = file[k].kind
        BY <1>1, <1>2 DEF File
  <1> QED BY <1>1, <1>3, NamesFrame

LEMMA MergePairNames ==
  ASSUME TypeOK, TypeOK', NameInv, NEW q \in merges, MergePair(q)
  PROVE  NameInv'
  <1> DEFINE more == {Shifted(r, q[1], file[q[1]].size) : r \in file[q[2]].recs}
             f1 == [file EXCEPT ![q[1]].recs = @ \cup more]
             f2 == [f1 EXCEPT ![q[1]].size = @ + file[q[2]].size]
  <1>1. /\ OpenNamed' /\ UNCHANGED <<nextCid, inBase, inDelta, hot, queue, writing>>
        /\ file' = [f2 EXCEPT ![q[2]] = NoFile]
        BY DEF MergePair, OpenNamed, writerVars, enclaveVars, NameInv
  <1>2. file \in [Cids -> File]
        BY DEF TypeOK, ContainerTypes
  <1> HIDE DEF more
  <1>3. \A k \in Cids : f1[k].kind = file[k].kind /\ (\E x : f1[k] = [file[k] EXCEPT !.recs = x])
        BY <1>2 DEF File
  <1> HIDE DEF f1, f2
  <1>4. DOMAIN f1 = Cids /\ \A k \in Cids : DOMAIN f1[k] = DOMAIN file[k]
        BY <1>2, <1>3 DEF f1
  <1>5. \A k \in Cids : f2[k].kind = f1[k].kind
        BY <1>2, <1>3, <1>4 DEF f2, File
  <1>6. DOMAIN f2 = Cids
        BY <1>4 DEF f2
  <1>7. \A k \in Cids : file'[k].kind # "none" => file[k].kind # "none"
        BY <1>1, <1>3, <1>5, <1>6 DEF NoFile
  <1> QED BY <1>1, <1>7, NamesFrame

\* The writer takes the first container of the queue and creates its file.
LEMMA WriterOpenNames ==
  ASSUME TypeOK, TypeOK', NameInv, WriterOpen
  PROVE  NameInv'
  <1> DEFINE k == Head(queue).cid
  <1>1. queue \in Seq(QueuedContainer) /\ queue # <<>>
        BY DEF TypeOK, ContainerTypes, WriterOpen
  <1>2. /\ Len(queue) \in Nat /\ Len(queue) > 0 /\ Head(queue) = queue[1]
        /\ Len(queue') = Len(queue) - 1
        /\ \A i \in 1 .. Len(queue') : i + 1 \in 1 .. Len(queue) /\ queue'[i] = queue[i + 1]
    <2>1. Len(queue) \in Nat /\ Len(queue) # 0
          BY <1>1, LenProperties, EmptySeq
    <2>2. Len(Tail(queue)) = Len(queue) - 1 /\ \A i \in 1 .. Len(Tail(queue)) : Tail(queue)[i] = queue[i + 1]
          BY <1>1, HeadTailProperties
    <2> QED BY <1>1, <2>1, <2>2 DEF WriterOpen
  <1>3. writing' = <<Head(queue)>> /\ Len(writing') = 1 /\ writing'[1] = queue[1] /\ k = queue[1].cid
        BY <1>2 DEF WriterOpen
  <1>4. /\ UNCHANGED <<nextCid, inBase, inDelta, hot, phase>>
        /\ \A j \in Cids : j # k => file'[j] = file[j]
        BY DEF WriterOpen, enclaveVars, offlineVars, TypeOK, ContainerTypes
  <1>5. 1 \in 1 .. Len(queue)
        BY <1>2
  <1> HIDE DEF k
  <1>6. NamesTaken'
    <2>1. 0 < k /\ k < nextCid
          BY <1>3, <1>5 DEF NameInv, NamesTaken
    <2>2. \A j \in Cids : file'[j].kind # "none" => j < nextCid'
          BY <2>1, <1>4 DEF NameInv, NamesTaken
    <2>3. \A i \in 1 .. Len(queue') : 0 < queue'[i].cid /\ queue'[i].cid < nextCid'
          BY <1>2, <1>4 DEF NameInv, NamesTaken
    <2>4. \A i \in 1 .. Len(writing') : 0 < writing'[i].cid /\ writing'[i].cid < nextCid'
          BY <2>1, <1>3, <1>4
    <2> QED BY <2>2, <2>3, <2>4, <1>4 DEF NameInv, NamesTaken
  <1>7. \A i \in 1 .. Len(queue') : queue'[i].cid # k
        BY <1>2, <1>3, <1>5 DEF NameInv, NamesDistinct
  <1>8. NamesDistinct'
    <2>1. k # inBase.cid /\ k # inDelta.cid /\ k # hot.cid
          BY <1>3, <1>5 DEF NameInv, NamesDistinct
    <2>2. ASSUME NEW i \in 1 .. Len(queue')
          PROVE  /\ queue'[i].cid # inBase.cid /\ queue'[i].cid # inDelta.cid
                 /\ queue'[i].cid # hot.cid
                 /\ \A j \in 1 .. Len(queue') : queue'[i].cid = queue'[j].cid => i = j
      <3>1. ASSUME NEW j \in 1 .. Len(queue'), queue'[i].cid = queue'[j].cid PROVE i = j
        <4>1. i + 1 = j + 1
              BY <1>2, <3>1 DEF NameInv, NamesDistinct
        <4> QED BY <4>1, <1>2
      <3> QED BY <3>1, <1>2 DEF NameInv, NamesDistinct
    <2>3. /\ \A i \in 1 .. Len(queue') : \A j \in 1 .. Len(writing') : queue'[i].cid # writing'[j].cid
          /\ Len(writing') <= 1
          /\ \A j \in 1 .. Len(writing') : writing'[j].cid = k
          BY <1>3, <1>7
    <2> QED BY <2>1, <2>2, <2>3, <1>4 DEF NameInv, NamesDistinct
  <1>9. NoFileYet'
    <2>1. k # inBase.cid /\ k # inDelta.cid /\ k # hot.cid
          BY <1>3, <1>5 DEF NameInv, NamesDistinct
    <2>2. ASSUME NEW i \in 1 .. Len(queue') PROVE Unwritten(queue[i].cid)'
          BY <1>2, <1>4, <1>7 DEF NameInv, NoFileYet, Unwritten
    <2> QED BY <2>1, <2>2, <1>4 DEF NameInv, NoFileYet, Unwritten
  <1> QED BY <1>4, <1>6, <1>8, <1>9 DEF NameInv, OpenNamed

\* The writer fills the file it created.
LEMMA WriterSaveNames ==
  ASSUME TypeOK, TypeOK', NameInv, WriterSave
  PROVE  NameInv'
  <1> DEFINE k == writing[1].cid
  <1>1. writing \in Seq(QueuedContainer) /\ writing # <<>>
        BY DEF TypeOK, ContainerTypes, WriterSave
  <1>2. 1 \in 1 .. Len(writing)
        BY <1>1, LenProperties, EmptySeq
  <1>3. writing' = <<>> /\ Len(writing') = 0
        BY EmptySeq DEF WriterSave
  <1>4. /\ UNCHANGED <<nextCid, inBase, inDelta, hot, phase, queue>>
        /\ \A j \in Cids : j # k => file'[j] = file[j]
        BY DEF WriterSave, enclaveVars, offlineVars, TypeOK, ContainerTypes
  <1>5. 0 < k /\ k < nextCid
        BY <1>2 DEF NameInv, NamesTaken
  <1>6. k # inBase.cid /\ k # inDelta.cid /\ k # hot.cid /\ \A i \in 1 .. Len(queue) : queue[i].cid # k
        BY <1>2 DEF NameInv, NamesDistinct
  <1> HIDE DEF k
  <1>7. NamesTaken'
        BY <1>3, <1>4, <1>5 DEF NameInv, NamesTaken
  <1>8. NamesDistinct'
        BY <1>3, <1>4 DEF NameInv, NamesDistinct
  <1>9. NoFileYet'
        BY <1>4, <1>6 DEF NameInv, NoFileYet, Unwritten
  <1> QED BY <1>4, <1>7, <1>8, <1>9 DEF NameInv, OpenNamed

-----------------------------------------------------------------------------
(* The inductive step, one case per action, and the theorem.               *)

LEMMA StoreNames ==
  ASSUME TypeOK, TypeOK', NameInv, StoreNew
  PROVE  NameInv'
  <1>1. AtNewChunk /\ UNCHANGED <<phase, hot, writing, file>> /\ phase = "batch"
        BY StoreCases DEF AtNewChunk
  <1>2. Head(batch.todo).fp \in Chunks
        BY <1>1, AtNewChunkType
  <1> QED BY <1>1, <1>2, StoreCases, SavebaseNames, SavedeltaNames

LEMMA NameInvNext ==
  ASSUME TypeOK, TypeOK', NameInv, [Next]_vars
  PROVE  NameInv'
  <1>1. CASE StoreNew
        BY <1>1, StoreNames
  <1>2. CASE \E op \in {"upload", "offline"} : StartSession(op)
        BY <1>2, StartSessionNames
  <1>3. CASE Receive
        BY <1>3, NamesFrame DEF Receive, RecvBatch, NameInv, OpenNamed, writerVars, enclaveVars, offlineVars
  <1>4. CASE SkipDuplicate
        BY <1>4, NamesFrame DEF SkipDuplicate, NameInv, OpenNamed, writerVars, enclaveVars, offlineVars
  <1>5. CASE EndBatch
        BY <1>5, NamesFrame DEF EndBatch, NameInv, OpenNamed, writerVars, enclaveVars, offlineVars
  <1>6. CASE RecipeEnd
        BY <1>6, NamesFrame DEF RecipeEnd, NameInv, OpenNamed, writerVars, enclaveVars, offlineVars
  <1>7. CASE CloseSession
        BY <1>7, CloseSessionNames
  <1>8. CASE Disconnect
        BY <1>8, DisconnectNames
  <1>9. CASE WriterOpen
        BY <1>9, WriterOpenNames
  <1>10. CASE WriterSave
        BY <1>10, WriterSaveNames
  <1>11. CASE EndUpload
        BY <1>11, NamesFrame DEF EndUpload, NameInv, OpenNamed, writerVars, enclaveVars, offlineVars
  <1>12. CASE StartOffline
        BY <1>12, StartOfflineNames
  <1>13. CASE CleanLocalIndex
        BY <1>13, CleanLocalIndexNames
  <1>14. CASE \E p \in localMap : SkipGreedy(p[1], p[2])
        BY <1>14, NamesFrame DEF SkipGreedy, NameInv, OpenNamed, writerVars, enclaveVars, offlineVars
  <1>15. CASE \E p \in localMap : SkipOldMissing(p[1], p[2])
        BY <1>15, NamesFrame DEF SkipOldMissing, NameInv, OpenNamed, writerVars, enclaveVars, offlineVars
  <1>16. CASE \E p \in localMap : SkipNewMissing(p[1], p[2])
        BY <1>16, NamesFrame DEF SkipNewMissing, NameInv, OpenNamed, writerVars, enclaveVars, offlineVars
  <1>17. CASE \E p \in localMap : BeginPair(p[1], p[2])
        BY <1>17, NamesFrame DEF BeginPair, NameInv, OpenNamed, writerVars, enclaveVars, offlineVars
  <1>18. CASE \E d \in work.deltas : MoveDelta(d)
        BY <1>18, MoveDeltaNames
  <1>19. CASE \E d \in work.deltas : ReadStaleDelta(d)
        BY <1>19, NamesFrame DEF ReadStaleDelta, NameInv, OpenNamed, writerVars, enclaveVars, offlineVars
  <1>20. CASE MoveBase
        BY <1>20, MoveBaseNames
  <1>21. CASE SaveHot
        BY <1>21, SaveHotNames
  <1>22. CASE \E k \in Cids : BeginCold(k)
        BY <1>22, NamesFrame DEF BeginCold, NameInv, OpenNamed, writerVars, enclaveVars, offlineVars
  <1>23. CASE \E r \in walk.buf : CopyRecord(r)
        BY <1>23, NamesFrame DEF CopyRecord, NameInv, OpenNamed, writerVars, enclaveVars, offlineVars
  <1>24. CASE \E q \in walk.rest : DropRecord(q)
        BY <1>24, NamesFrame DEF DropRecord, NameInv, OpenNamed, writerVars, enclaveVars, offlineVars
  <1>25. CASE EndCold
        BY <1>25, EndColdNames
  <1>26. CASE GetMergeContainer
        BY <1>26, NamesFrame DEF GetMergeContainer, NameInv, OpenNamed, writerVars, enclaveVars, offlineVars
  <1>27. CASE \E q \in merges : MergePair(q)
        BY <1>27, MergePairNames
  <1>28. CASE EndOffline
        BY <1>28, NamesFrame DEF EndOffline, NameInv, OpenNamed, writerVars, enclaveVars, offlineVars
  <1>29. CASE UNCHANGED vars
        BY <1>29, NamesFrame DEF vars, NameInv, OpenNamed, writerVars, enclaveVars, offlineVars
  <1> QED BY <1>1, <1>2, <1>3, <1>4, <1>5, <1>6, <1>7, <1>8, <1>9, <1>10, <1>11, <1>12, <1>13,
         <1>14, <1>15, <1>16, <1>17, <1>18, <1>19, <1>20, <1>21, <1>22, <1>23, <1>24, <1>25,
         <1>26, <1>27, <1>28, <1>29 DEF Next, StoreNew

\* One container per name, for any number of sessions, batches and sizes: no
\* interleaving of the session thread with the DataWriter lets a container
\* overwrite the file of another, or two of them carry the same name.
THEOREM NamesUsedOnce == Spec => []OneHolder
  <1> DEFINE Inv == TypeInv /\ NameInv
  <1>1. Init => Inv
        BY TypeInvInit, NameInvInit
  <1>2. Inv /\ [Next]_vars => Inv'
    <2> SUFFICES ASSUME Inv, [Next]_vars PROVE Inv'
        OBVIOUS
    <2>1. TypeInv'
          BY TypeInvNext
    <2>2. TypeOK /\ TypeOK'
          BY <2>1 DEF TypeInv
    <2> QED BY <2>1, <2>2, NameInvNext
  <1>3. Inv => OneHolder
        BY NameInvOneHolder DEF TypeInv
  <1> QED BY <1>1, <1>2, <1>3, PTL DEF Spec

-----------------------------------------------------------------------------
(* Without the offline pass (ONLY_FORWORD) an index entry never changes.   *)
(* Two facts carry the proof: the session never gets into a phase of the   *)
(* offline pass, and the chunks of a batch that were new when the batch    *)
(* was looked up are still new when Ocall_UpdateOutIndex writes them back. *)


OnlyForwardPhases ==
    IndexType = "ONLY_FORWORD" => phase \in {"idle", "recv", "batch", "ended", "drain"}

\* What the snapshot of a batch calls new is not in the fingerprint index.
FreshBatch ==
    phase = "batch" =>
        /\ \A i \in 1 .. Len(batch.todo) : batch.todo[i].new => ~Indexed(batch.todo[i].fp)
        /\ \A i \in 1 .. Len(batch.done) : ~Indexed(batch.done[i].fp)

FwdInv == OnlyForwardPhases /\ FreshBatch

-----------------------------------------------------------------------------
(* FreshBatch is kept.                                                     *)

LEMMA BatchSeqs ==
  ASSUME TypeOK
  PROVE  batch \in Batch /\ batch.todo \in Seq(Entry) /\ batch.done \in Seq(Done)
  BY DEF TypeOK, SessionTypes, Batch

LEMMA RecvBatchFresh ==
  ASSUME NEW b \in Batches, RecvBatch(b)
  PROVE  FreshBatch'
  <1>1. b \in Seq(Chunks) /\ Len(b) \in Nat
        BY BoundAssumption, LenProperties
  <1>2. batch'.todo = Entries(b) /\ batch'.done = <<>> /\ fpIndex' = fpIndex
        BY DEF RecvBatch, indexVars
  <1>3. Len(Entries(b)) = Len(b) /\ \A i \in 1 .. Len(b) : Entries(b)[i] = QueryEntry(b, i)
        BY <1>1 DEF Entries
  <1>4. \A i \in 1 .. Len(b) : QueryEntry(b, i).new => ~Indexed(QueryEntry(b, i).fp)
        BY DEF QueryEntry, IsNew
  <1>5. Len(batch'.done) = 0
        BY <1>2, EmptySeq
  <1> QED BY <1>2, <1>3, <1>4, <1>5 DEF FreshBatch, Indexed

\* The rest of a batch is as fresh as the batch.
LEMMA TailFresh ==
  ASSUME TypeOK, FreshBatch, phase = "batch", batch.todo # <<>>
  PROVE  /\ \A i \in 1 .. Len(Tail(batch.todo)) :
                Tail(batch.todo)[i].new => ~Indexed(Tail(batch.todo)[i].fp)
         /\ Head(batch.todo).new => ~Indexed(Head(batch.todo).fp)
  <1>1. batch.todo \in Seq(Entry)
        BY BatchSeqs
  <1>2. Len(batch.todo) \in Nat /\ Len(batch.todo) # 0 /\ Head(batch.todo) = batch.todo[1]
        BY <1>1, LenProperties, EmptySeq
  <1>3. /\ Len(Tail(batch.todo)) = Len(batch.todo) - 1
        /\ \A i \in 1 .. Len(Tail(batch.todo)) : Tail(batch.todo)[i] = batch.todo[i + 1]
        BY <1>1, HeadTailProperties
  <1>4. \A i \in 1 .. Len(Tail(batch.todo)) : i + 1 \in 1 .. Len(batch.todo)
        BY <1>2, <1>3
  <1>5. \A i \in 1 .. Len(batch.todo) : batch.todo[i].new => ~Indexed(batch.todo[i].fp)
        BY DEF FreshBatch
  <1>6. 1 \in 1 .. Len(batch.todo)
        BY <1>2
  <1> QED BY <1>2, <1>3, <1>4, <1>5, <1>6

LEMMA SkipDuplicateFresh ==
  ASSUME TypeOK, FreshBatch, SkipDuplicate
  PROVE  FreshBatch'
  <1>1. phase = "batch" /\ batch.todo # <<>> /\ fpIndex' = fpIndex
        BY DEF SkipDuplicate, indexVars
  <1>2. batch'.todo = Tail(batch.todo) /\ batch'.done = batch.done
        BY BatchSeqs DEF SkipDuplicate, Batch
  <1> QED BY <1>1, <1>2, TailFresh DEF FreshBatch, Indexed

LEMMA StoreNextFresh ==
  ASSUME TypeOK, FreshBatch, AtNewChunk, fpIndex' = fpIndex,
         NEW a \in Addr, NEW old \in ChunkOrNone, StoreNext(Head(batch.todo).fp, a, old)
  PROVE  FreshBatch'
  <1> DEFINE x == [fp |-> Head(batch.todo).fp, addr |-> a, old |-> old]
  <1>1. phase = "batch" /\ batch.todo # <<>> /\ Head(batch.todo).new
        BY DEF AtNewChunk
  <1>2. batch'.todo = Tail(batch.todo) /\ batch'.done = Append(batch.done, x)
        BY BatchSeqs DEF StoreNext, Batch
  <1>3. x \in Done /\ x.fp = Head(batch.todo).fp
        BY AtNewChunkType DEF Done
  <1> HIDE DEF x
  <1>4. /\ Len(Append(batch.done, x)) = Len(batch.done) + 1 /\ Len(batch.done) \in Nat
        /\ \A i \in 1 .. Len(batch.done) : Append(batch.done, x)[i] = batch.done[i]
        /\ Append(batch.done, x)[Len(batch.done) + 1] = x
        BY <1>3, BatchSeqs, AppendProperties, LenProperties
  <1>5. ~Indexed(x.fp) /\ \A i \in 1 .. Len(batch.done) : ~Indexed(batch.done[i].fp)
        BY <1>1, <1>3, TailFresh DEF FreshBatch
  <1>6. \A i \in 1 .. Len(batch'.done) : ~Indexed(batch'.done[i].fp)
        BY <1>2, <1>4, <1>5
  <1> QED BY <1>1, <1>2, <1>6, TailFresh DEF FreshBatch, Indexed

LEMMA StoreFresh ==
  ASSUME TypeOK, TypeOK', FreshBatch, StoreNew
  PROVE  FreshBatch'
  <1> DEFINE e == Head(batch.todo)
  <1>1. AtNewChunk /\ fpIndex' = fpIndex
        BY StoreCases
  <1>2. e \in Entry /\ e.fp \in Chunks /\ e.base \in ChunkOrNone /\ NoChunk \in ChunkOrNone
        BY <1>1, AtNewChunkType
  <1>3. inBase \in Container /\ inDelta \in Container /\ nextCid \in Nat
        BY DEF TypeOK, ContainerTypes
  <1>4. ASSUME NEW old \in ChunkOrNone, SavebaseChunk(e.fp, old)
        PROVE  \E a \in Addr : StoreNext(e.fp, a, old)
    <2>1. CLen[e.fp] \in Nat
          BY <1>2, SizeAssumption
    <2>2. SaveRecord(inBase, e.fp, CLen[e.fp], NoChunk, NoChunk).addr \in Addr
          BY <1>2, <1>3, <2>1, SaveRecordType
    <2> QED BY <1>4, <2>2 DEF SavebaseChunk
  <1>5. ASSUME NEW len \in Nat, NEW src \in Chunks \cup {Garbage}, SavedeltaChunk(e.fp, len, e.base, src)
        PROVE  \E a \in Addr : StoreNext(e.fp, a, NoChunk)
    <2>1. SaveRecord(inDelta, e.fp, len, e.base, src).addr \in Addr
          BY <1>2, <1>3, SaveRecordType
    <2> QED BY <1>5, <2>1 DEF SavedeltaChunk
  <1>6. \E a \in Addr, old \in ChunkOrNone : StoreNext(e.fp, a, old)
        BY <1>2, <1>4, <1>5, StoreCases
  <1> QED BY <1>1, <1>6, StoreNextFresh

-----------------------------------------------------------------------------
(* The inductive step.                                                     *)

LEMMA FwdInvNext ==
  ASSUME TypeOK, TypeOK', FwdInv, [Next]_vars
  PROVE  FwdInv'
  <1> USE DEF FwdInv
  <1>1. CASE StoreNew
        BY <1>1, StoreFresh, StoreCases DEF OnlyForwardPhases
  <1>2. CASE \E op \in {"upload", "offline"} : StartSession(op)
        BY <1>2 DEF StartSession, OnlyForwardPhases, FreshBatch
  <1>3. CASE Receive
        BY <1>3, RecvBatchFresh DEF Receive, RecvBatch, OnlyForwardPhases
  <1>4. CASE SkipDuplicate
        BY <1>4, SkipDuplicateFresh DEF SkipDuplicate, OnlyForwardPhases
  <1>5. CASE EndBatch
        BY <1>5 DEF EndBatch, OnlyForwardPhases, FreshBatch
  <1>6. CASE RecipeEnd
        BY <1>6 DEF RecipeEnd, OnlyForwardPhases, FreshBatch
  <1>7. CASE CloseSession
        BY <1>7 DEF CloseSession, OnlyForwardPhases, FreshBatch
  <1>8. CASE Disconnect
        BY <1>8 DEF Disconnect, OnlyForwardPhases, FreshBatch
  <1>9. CASE WriterOpen
        BY <1>9 DEF WriterOpen, OnlyForwardPhases, FreshBatch, Indexed, indexVars
  <1>10. CASE WriterSave
        BY <1>10 DEF WriterSave, OnlyForwardPhases, FreshBatch, Indexed, indexVars
  <1>11. CASE EndUpload
        BY <1>11 DEF EndUpload, OnlyForwardPhases, FreshBatch
  <1>12. CASE StartOffline
        BY <1>12 DEF StartOffline, OfflineFlag, OnlyForwardPhases, FreshBatch
  <1>13. CASE CleanLocalIndex
        BY <1>13 DEF CleanLocalIndex, OnlyForwardPhases, FreshBatch
  <1>14. CASE \E p \in localMap : SkipGreedy(p[1], p[2])
        BY <1>14 DEF SkipGreedy, OnlyForwardPhases, FreshBatch
  <1>15. CASE \E p \in localMap : SkipOldMissing(p[1], p[2])
        BY <1>15 DEF SkipOldMissing, OnlyForwardPhases, FreshBatch
  <1>16. CASE \E p \in localMap : SkipNewMissing(p[1], p[2])
        BY <1>16 DEF SkipNewMissing, OnlyForwardPhases, FreshBatch
  <1>17. CASE \E p \in localMap : BeginPair(p[1], p[2])
        BY <1>17 DEF BeginPair, OnlyForwardPhases, FreshBatch
  <1>18. CASE \E d \in work.deltas : MoveDelta(d)
        BY <1>18 DEF MoveDelta, OnlyForwardPhases, FreshBatch
  <1>19. CASE \E d \in work.deltas : ReadStaleDelta(d)
        BY <1>19 DEF ReadStaleDelta, OnlyForwardPhases, FreshBatch
  <1>20. CASE MoveBase
        BY <1>20 DEF MoveBase, OnlyForwardPhases, FreshBatch
  <1>21. CASE SaveHot
        BY <1>21 DEF SaveHot, OnlyForwardPhases, FreshBatch
  <1>22. CASE \E k \in Cids : BeginCold(k)
        BY <1>22 DEF BeginCold, OnlyForwardPhases, FreshBatch
  <1>23. CASE \E r \in walk.buf : CopyRecord(r)
        BY <1>23 DEF CopyRecord, OnlyForwardPhases, FreshBatch
  <1>24. CASE \E q \in walk.rest : DropRecord(q)
        BY <1>24 DEF DropRecord, OnlyForwardPhases, FreshBatch
  <1>25. CASE EndCold
        BY <1>25 DEF EndCold, OnlyForwardPhases, FreshBatch
  <1>26. CASE GetMergeContainer
        BY <1>26 DEF GetMergeContainer, OnlyForwardPhases, FreshBatch
  <1>27. CASE \E q \in merges : MergePair(q)
        BY <1>27 DEF MergePair, OnlyForwardPhases, FreshBatch
  <1>28. CASE EndOffline
        BY <1>28 DEF EndOffline, OnlyForwardPhases, FreshBatch
  <1>29. CASE UNCHANGED vars
        BY <1>29 DEF vars, indexVars, OnlyForwardPhases, FreshBatch, Indexed
  <1> QED BY <1>1, <1>2, <1>3, <1>4, <1>5, <1>6, <1>7, <1>8, <1>9, <1>10, <1>11, <1>12, <1>13,
         <1>14, <1>15, <1>16, <1>17, <1>18, <1>19, <1>20, <1>21, <1>22, <1>23, <1>24, <1>25,
         <1>26, <1>27, <1>28, <1>29 DEF Next, StoreNew

\* The same step leaves every index entry alone when there is no offline
\* pass: the only action that writes the fingerprint index is the end of a
\* batch, and it writes chunks that were not indexed.
Kept == IndexType = "ONLY_FORWORD" =>
          \A c \in Chunks : Indexed(c) => fpIndex'[c] = fpIndex[c]

LEMMA EndBatchKept ==
  ASSUME TypeOK, FwdInv, EndBatch
  PROVE  Kept
  <1> SUFFICES ASSUME NEW c \in Chunks, Indexed(c) PROVE fpIndex'[c] = fpIndex[c]
      BY DEF Kept
  <1>1. DOMAIN batch.done = 1 .. Len(batch.done)
        BY BatchSeqs, LenProperties
  <1>2. DoneOf(c) = {}
        BY <1>1 DEF DoneOf, FwdInv, FreshBatch, EndBatch
  <1> QED BY <1>2 DEF EndBatch, UpdateOutIndex

LEMMA FwdKept ==
  ASSUME TypeOK, TypeOK', FwdInv, [Next]_vars
  PROVE  Kept
  <1>1. CASE EndBatch
        BY <1>1, EndBatchKept
  <1>2. CASE StoreNew
        BY <1>2, StoreCases DEF Kept
  <1>3. CASE \/ \E op \in {"upload", "offline"} : StartSession(op)
             \/ Receive
             \/ SkipDuplicate
             \/ RecipeEnd
             \/ CloseSession
             \/ Disconnect
             \/ WriterOpen
             \/ WriterSave
             \/ EndUpload
             \/ StartOffline
             \/ CleanLocalIndex
             \/ UNCHANGED vars
        BY <1>3 DEF Kept, indexVars, vars, StartSession, Receive, SkipDuplicate, RecipeEnd,
           CloseSession, Disconnect, WriterOpen, WriterSave, EndUpload, StartOffline,
           CleanLocalIndex, RecvBatch
  <1>4. CASE \/ \E p \in localMap : SkipGreedy(p[1], p[2])
             \/ \E p \in localMap : SkipOldMissing(p[1], p[2])
             \/ \E p \in localMap : SkipNewMissing(p[1], p[2])
             \/ \E p \in localMap : BeginPair(p[1], p[2])
             \/ \E d \in work.deltas : MoveDelta(d)
             \/ \E d \in work.deltas : ReadStaleDelta(d)
             \/ MoveBase
             \/ SaveHot
             \/ \E k \in Cids : BeginCold(k)
             \/ \E r \in walk.buf : CopyRecord(r)
             \/ \E q \in walk.rest : DropRecord(q)
             \/ EndCold
             \/ GetMergeContainer
             \/ \E q \in merges : MergePair(q)
             \/ EndOffline
    <2>1. phase \in {"pairs", "deltas", "cold", "walk", "merge"}
      <3>1. CASE \E p \in localMap : SkipGreedy(p[1], p[2])
            BY <3>1 DEF SkipGreedy
      <3>2. CASE \E p \in localMap : SkipOldMissing(p[1], p[2])
            BY <3>2 DEF SkipOldMissing
      <3>3. CASE \E p \in localMap : SkipNewMissing(p[1], p[2])
            BY <3>3 DEF SkipNewMissing
      <3>4. CASE \E p \in localMap : BeginPair(p[1], p[2])
            BY <3>4 DEF BeginPair
      <3>5. CASE \E d \in work.deltas : MoveDelta(d)
            BY <3>5 DEF MoveDelta
      <3>6. CASE \E d \in work.deltas : ReadStaleDelta(d)
            BY <3>6 DEF ReadStaleDelta
      <3>7. CASE MoveBase
            BY <3>7 DEF MoveBase
      <3>8. CASE SaveHot
            BY <3>8 DEF SaveHot
      <3>9. CASE \E k \in Cids : BeginCold(k)
            BY <3>9 DEF BeginCold
      <3>10. CASE \E r \in walk.buf : CopyRecord(r)
            BY <3>10 DEF CopyRecord
      <3>11. CASE \E q \in walk.rest : DropRecord(q)
            BY <3>11 DEF DropRecord
      <3>12. CASE EndCold
            BY <3>12 DEF EndCold
      <3>13. CASE GetMergeContainer
            BY <3>13 DEF GetMergeContainer
      <3>14. CASE \E q \in merges : MergePair(q)
            BY <3>14 DEF MergePair
      <3>15. CASE EndOffline
            BY <3>15 DEF EndOffline
      <3> QED BY <1>4, <3>1, <3>2, <3>3, <3>4, <3>5, <3>6, <3>7, <3>8, <3>9, <3>10, <3>11,
             <3>12, <3>13, <3>14, <3>15
    <2> QED BY <2>1 DEF Kept, FwdInv, OnlyForwardPhases
  <1> QED BY <1>1, <1>2, <1>3, <1>4, Zenon DEF Next, StoreNew

\* With ONLY_FORWORD (Offline_Flag unset) no session rewrites an index entry,
\* whatever it uploads and however the writer is scheduled.
THEOREM ForwardOnly == Spec => NoRewrite
  <1> DEFINE Inv == TypeInv /\ FwdInv
  <1>1. Init => Inv
        BY TypeInvInit DEF Init, FwdInv, OnlyForwardPhases, FreshBatch
  <1>2. Inv /\ [Next]_vars => Inv' /\ Kept
    <2> SUFFICES ASSUME Inv, [Next]_vars PROVE Inv' /\ Kept
        OBVIOUS
    <2>1. TypeInv'
          BY TypeInvNext
    <2>2. TypeOK /\ TypeOK'
          BY <2>1 DEF TypeInv
    <2> QED BY <2>1, <2>2, FwdInvNext, FwdKept
  <1>3. Kept => [IndexType = "ONLY_FORWORD" =>
                   \A c \in Chunks : Indexed(c) => fpIndex'[c] = fpIndex[c]]_vars
        BY DEF Kept
  <1> QED BY <1>1, <1>2, <1>3, PTL DEF Spec, NoRewrite
=============================================================================
