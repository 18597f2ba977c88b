---------------------------- MODULE DownloadProofs ----------------------------
(* The way of the chunks from the recipe to the restored file: every place *)
(* a chunk can be in (recipe batch, request, send buffer, connection,      *)
(* message, queue, file) holds a stretch of the stored file, and the       *)
(* stretches join.  From this the refinement of RestoredFile follows.      *)
EXTENDS RestoreProofs

----------------------------------------------------------------------------
(* Stretches of a file. *)

\* s is what follows the first n chunks of f.
Piece(f, s, n) ==
  /\ n + Len(s) <= Len(f)
  /\ \A i \in 1..Len(s) : s[i] = f[n + i]

\* The messages of ch carry what lies between the places a and b of f.
Chained(f, ch, a, b) ==
  \E p \in [1..Len(ch) + 1 -> Nat] :
    /\ p[1] = a /\ p[Len(ch) + 1] = b
    /\ \A i \in 1..Len(ch) : p[i + 1] = p[i] + Len(ch[i].data) /\ Piece(f, ch[i].data, p[i])

----------------------------------------------------------------------------
(* The inductive invariant. *)

StreamTypes ==
  /\ end \in BOOLEAN /\ tail \in BOOLEAN /\ last \in BOOLEAN /\ done \in BOOLEAN /\ jobDone \in BOOLEAN
  /\ wpc \in {"done", "empty", "pop", "closed"}
  /\ restoreBuf \in Data /\ inbox \in Data /\ mq \in Data /\ out \in Data /\ chan \in Seq(Message)
  /\ recvNum \in Nat /\ total \in Nat

\* Recipe entries that were taken into requests before this one.
Before == rpos - 1 - Len(batch) - Len(req.recs)

\* Chunks handed to the connection.
Sent ==
  IF spc = "ready" THEN 0
  ELSE IF spc \in {"close", "over"} THEN Len(recipe)
  ELSE Before + dec - Len(restoreBuf)

\* What the decoder holds: the batch follows the request, and the request
\* the chunks decoded and not sent.  The tail is reached with nothing left
\* of the recipe.
ServerFlow ==
  /\ spc = "ready" => rpos <= 1 /\ batch = <<>> /\ req.recs = <<>> /\ restoreBuf = <<>> /\ ~end /\ ~tail
  /\ spc # "ready" => /\ Before \in Nat /\ Piece(recipe, batch, Before + Len(req.recs))
                      /\ \A i \in 1..Len(req.recs) : req.recs[i].chunk = recipe[Before + i]
  /\ Sent \in Nat /\ Piece(recipe, restoreBuf, Sent)
  /\ end \/ spc = "tail" => rpos = Len(recipe) + 1
  /\ spc \in {"read", "tail"} => batch = <<>>
  /\ tail => /\ spc \in {"resolve", "fetch", "decode", "close", "over"}
             /\ rpos = Len(recipe) + 1 /\ batch = <<>>
  /\ spc \in {"close", "over"} => restoreBuf = <<>>

\* What is under way: once the login is answered the connection carries the
\* chunks between those received and those sent, and only its last message
\* may be the final one.
ChanFlow ==
  /\ cpc # "login" => Chained(recipe, chan, recvNum + Len(inbox), Sent)
  /\ \A i \in 1..Len(chan) : chan[i].type = "FINAL" => i = Len(chan) /\ spc \in {"close", "over"}
  /\ spc \in {"close", "over"} => last \/ (chan # <<>> /\ chan[Len(chan)].type = "FINAL")
  /\ last => chan = <<>> /\ spc \in {"close", "over"}

\* What the client holds, and when its threads believe that was all.
ClientFlow ==
  /\ Piece(recipe, out, 0) /\ Piece(recipe, mq, Len(out)) /\ Piece(recipe, inbox, recvNum)
  /\ recvNum = Len(out) + Len(mq)
  /\ cpc # "exit"
  /\ cpc \in {"login", "recv"} => ~last
  /\ cpc # "push" => inbox = <<>>
  /\ cpc = "login" => recvNum = 0
  /\ cpc \in {"finished", "count", "checked"} => last
  /\ done => cpc \in {"count", "checked"}
  /\ wpc = "empty" \/ jobDone => done
  /\ jobDone => mq = <<>>
  /\ wpc = "closed" => jobDone

FlowInv == StreamTypes /\ ServerFlow /\ ChanFlow /\ ClientFlow

----------------------------------------------------------------------------
(* Stretches grow at the end and shrink at the front. *)

LEMMA PieceEmpty ==
  ASSUME NEW S, NEW f \in Seq(S), NEW n \in 0..Len(f)
  PROVE  Piece(f, <<>>, n)
  BY DEF Piece

LEMMA PieceAppend ==
  ASSUME NEW S, NEW T, NEW f \in Seq(S), NEW s \in Seq(T), NEW e \in T, NEW n \in Nat, Piece(f, s, n),
         n + Len(s) < Len(f), e = f[n + Len(s) + 1]
  PROVE  Piece(f, Append(s, e), n) /\ Len(Append(s, e)) = Len(s) + 1
<1> DEFINE a == Append(s, e)
<1>1. /\ Len(a) = Len(s) + 1 /\ Len(s) \in Nat /\ Len(f) \in Nat
      /\ \A i \in 1..Len(s) : a[i] = s[i]
      /\ a[Len(s) + 1] = e
  BY AppendProperties
<1>2. n + Len(a) <= Len(f)
  BY <1>1
<1>3. ASSUME NEW i \in 1..Len(a) PROVE a[i] = f[n + i]
  <2>1. CASE i = Len(s) + 1
    <3>1. n + i = n + Len(s) + 1
      BY <1>1, <2>1
    <3> QED
      BY <1>1, <2>1, <3>1
  <2>2. CASE i # Len(s) + 1
    <3>1. i \in 1..Len(s)
      BY <1>1, <2>2
    <3> QED
      BY <1>1, <3>1 DEF Piece
  <2> QED
    BY <2>1, <2>2
<1> QED
  BY <1>1, <1>2, <1>3 DEF Piece

LEMMA PieceTail ==
  ASSUME NEW S, NEW T, NEW f \in Seq(S), NEW s \in Seq(T), s # <<>>, NEW n \in Nat, Piece(f, s, n)
  PROVE  /\ Head(s) = f[n + 1] /\ Head(s) \in T /\ Tail(s) \in Seq(T) /\ n < Len(f)
         /\ Len(Tail(s)) = Len(s) - 1 /\ Len(s) \in Nat \ {0}
         /\ Piece(f, Tail(s), n + 1)
<1> DEFINE t == Tail(s)
<1>1. /\ t \in Seq(T) /\ Len(t) = Len(s) - 1 /\ Len(s) \in Nat \ {0} /\ Len(f) \in Nat
      /\ Head(s) = s[1] /\ Head(s) \in T
      /\ \A i \in 1..Len(s) - 1 : t[i] = s[i + 1]
  BY HeadTailProperties, EmptySeq
<1>2. n + Len(s) <= Len(f) /\ s[1] = f[n + 1]
  BY <1>1 DEF Piece
<1>3. n < Len(f) /\ (n + 1) + Len(t) <= Len(f)
  BY <1>1, <1>2
<1>4. ASSUME NEW i \in 1..Len(t) PROVE t[i] = f[(n + 1) + i]
  <2>1. i \in 1..Len(s) - 1 /\ i + 1 \in 1..Len(s) /\ n + (i + 1) = (n + 1) + i
    BY <1>1
  <2>2. t[i] = s[i + 1] /\ s[i + 1] = f[n + (i + 1)]
    BY <1>1, <2>1 DEF Piece
  <2> QED
    BY <2>1, <2>2
<1> QED
  BY <1>1, <1>2, <1>3, <1>4 DEF Piece

\* A stretch that is as long as the file is the file.
LEMMA PieceWhole ==
  ASSUME NEW S, NEW T, NEW f \in Seq(S), NEW s \in Seq(T), Piece(f, s, 0), Len(s) = Len(f)
  PROVE  s = f
<1>1. \A i \in 1..Len(s) : s[i] = f[i]
  <2>1. ASSUME NEW i \in 1..Len(s) PROVE s[i] = f[i]
    <3>1. 0 + i = i
      OBVIOUS
    <3> QED
      BY <3>1 DEF Piece
  <2> QED
    BY <2>1
<1>2. s = [i \in 1..Len(s) |-> s[i]] /\ f = [i \in 1..Len(f) |-> f[i]]
  OBVIOUS
<1> QED
  BY <1>1, <1>2

\* An empty connection: all that was sent was received.
LEMMA ChainEmpty ==
  ASSUME NEW f, NEW a \in Nat, NEW b
  PROVE  Chained(f, <<>>, a, b) <=> a = b
<1>1. ASSUME a = b PROVE Chained(f, <<>>, a, b)
  <2> DEFINE p == [i \in 1..Len(<<>>) + 1 |-> a]
  <2>1. p \in [1..Len(<<>>) + 1 -> Nat] /\ p[1] = a /\ p[Len(<<>>) + 1] = b
    BY <1>1
  <2>2. \A i \in 1..Len(<<>>) : FALSE
    OBVIOUS
  <2> QED
    BY <2>1, <2>2 DEF Chained
<1>2. ASSUME Chained(f, <<>>, a, b) PROVE a = b
  BY <1>2 DEF Chained
<1> QED
  BY <1>1, <1>2

\* Nor is anything left of the last message.
LEMMA ChainOver ==
  ASSUME NEW f, NEW a \in Nat, NEW s, s = <<>>, NEW b, Chained(f, <<>>, a + Len(s), b)
  PROVE  a = b
<1>1. a + Len(s) = a
  OBVIOUS
<1> QED
  BY <1>1, ChainEmpty

\* One more message is sent.
LEMMA ChainAppend ==
  ASSUME NEW f, NEW ch \in Seq(Message), NEW m \in Message, NEW a, NEW b, Chained(f, ch, a, b),
         Piece(f, m.data, b)
  PROVE  Chained(f, Append(ch, m), a, b + Len(m.data))
<1> DEFINE n == Len(ch)
           d == Len(m.data)
           c == Append(ch, m)
<1> PICK p \in [1..n + 1 -> Nat] :
           /\ p[1] = a /\ p[n + 1] = b
           /\ \A i \in 1..n : p[i + 1] = p[i] + Len(ch[i].data) /\ Piece(f, ch[i].data, p[i])
  BY DEF Chained
<1>1. n \in Nat /\ d \in Nat /\ Len(c) = n + 1 /\ c[n + 1] = m /\ \A i \in 1..n : c[i] = ch[i]
  BY AppendProperties DEF Message, Data
<1> DEFINE q == [i \in 1..(n + 1) + 1 |-> IF i = n + 2 THEN b + d ELSE p[i]]
<1>2. b \in Nat
  BY <1>1
<1>3. q \in [1..(n + 1) + 1 -> Nat]
  <2>1. ASSUME NEW i \in 1..(n + 1) + 1 PROVE (IF i = n + 2 THEN b + d ELSE p[i]) \in Nat
    <3>1. i # n + 2 => i \in 1..n + 1
      BY <1>1
    <3>2. i # n + 2 => p[i] \in Nat
      BY <3>1
    <3>3. b + d \in Nat
      BY <1>1, <1>2
    <3> HIDE DEF n, d
    <3> QED
      BY <3>2, <3>3
  <2> QED
    BY <2>1
<1>4. q[1] = a /\ q[(n + 1) + 1] = b + d
  BY <1>1
<1>5. ASSUME NEW i \in 1..n + 1 PROVE q[i + 1] = q[i] + Len(c[i].data) /\ Piece(f, c[i].data, q[i])
  <2>1. CASE i = n + 1
    <3>1. q[i + 1] = b + d /\ q[i] = b /\ c[i] = m
      BY <1>1, <2>1
    <3> QED
      BY <3>1
  <2>2. CASE i # n + 1
    <3>1. i \in 1..n /\ i + 1 \in 1..n + 1
      BY <1>1, <2>2
    <3>2. q[i + 1] = p[i + 1] /\ q[i] = p[i] /\ c[i] = ch[i]
      BY <1>1, <3>1
    <3> QED
      BY <3>1, <3>2
  <2> QED
    BY <2>1, <2>2
<1> HIDE DEF q
<1> QED
  BY <1>1, <1>3, <1>4, <1>5 DEF Chained

\* The first message is received.
LEMMA ChainTail ==
  ASSUME NEW f, NEW ch \in Seq(Message), ch # <<>>, NEW a \in Nat, NEW b, Chained(f, ch, a, b)
  PROVE  /\ Piece(f, Head(ch).data, a)
         /\ Chained(f, Tail(ch), a + Len(Head(ch).data), b)
<1> DEFINE n == Len(ch)
           t == Tail(ch)
<1> PICK p \in [1..n + 1 -> Nat] :
           /\ p[1] = a /\ p[n + 1] = b
           /\ \A i \in 1..n : p[i + 1] = p[i] + Len(ch[i].data) /\ Piece(f, ch[i].data, p[i])
  BY DEF Chained
<1>1. /\ n \in Nat \ {0} /\ Len(t) = n - 1 /\ Head(ch) = ch[1]
      /\ \A i \in 1..n - 1 : t[i] = ch[i + 1]
  BY HeadTailProperties, EmptySeq
<1>2. p[2] = a + Len(Head(ch).data) /\ Piece(f, Head(ch).data, a)
  BY <1>1
<1> DEFINE q == [i \in 1..(n - 1) + 1 |-> p[i + 1]]
<1>3. q \in [1..(n - 1) + 1 -> Nat] /\ q[1] = p[2] /\ q[(n - 1) + 1] = b
  BY <1>1
<1>4. ASSUME NEW i \in 1..n - 1 PROVE q[i + 1] = q[i] + Len(t[i].data) /\ Piece(f, t[i].data, q[i])
  <2>1. i + 1 \in 1..n /\ i \in 1..(n - 1) + 1 /\ i + 1 \in 1..(n - 1) + 1
    BY <1>1
  <2>2. q[i + 1] = p[(i + 1) + 1] /\ q[i] = p[i + 1] /\ t[i] = ch[i + 1]
    BY <1>1, <2>1
  <2> QED
    BY <2>1, <2>2
<1> HIDE DEF q
<1> QED
  BY <1>1, <1>2, <1>3, <1>4 DEF Chained

----------------------------------------------------------------------------
(* Types. *)

\* What the steps rely on.
LEMMA FlowTypes ==
  ASSUME RestoreInv, StreamTypes
  PROVE  /\ recipe \in Seq(Chunks) /\ Len(recipe) \in Nat
         /\ restoreBuf \in Data /\ inbox \in Data /\ mq \in Data /\ out \in Data /\ chan \in Seq(Message)
         /\ Len(restoreBuf) \in Nat /\ Len(inbox) \in Nat /\ Len(mq) \in Nat /\ Len(out) \in Nat
         /\ Len(chan) \in Nat
         /\ batch \in Seq(Chunks) /\ Len(batch) \in Nat /\ req.recs \in Seq(ChunkEntry) /\ Len(req.recs) \in Nat
         /\ rpos \in Nat /\ dec \in Nat
<1>1. recipe \in Seq(Chunks) /\ Len(recipe) \in Nat
  BY StoreAssumption DEF RestoreInv, HandInv, SessTypes
<1>2. rpos \in Nat
  BY <1>1 DEF RestoreInv, HandInv, SessTypes
<1>3. req.recs \in Seq(ChunkEntry) /\ Len(req.recs) \in Nat
  BY SoundFields DEF RestoreInv, RequestInv
<1>4. batch \in Seq(Chunks) /\ Len(batch) \in Nat /\ dec \in Nat
  BY DEF RestoreInv, LoopInv
<1>5. /\ restoreBuf \in Data /\ inbox \in Data /\ mq \in Data /\ out \in Data /\ chan \in Seq(Message)
  BY DEF StreamTypes
<1>6. /\ Len(restoreBuf) \in Nat /\ Len(inbox) \in Nat /\ Len(mq) \in Nat /\ Len(out) \in Nat
      /\ Len(chan) \in Nat
  BY <1>5 DEF Data
<1> QED
  BY <1>1, <1>2, <1>3, <1>4, <1>5, <1>6

\* The buffer with the next decoded chunk.
LEMMA DecodedData ==
  ASSUME RestoreInv, StreamTypes, spc = "decode"
  PROVE  /\ req.recs[dec + 1].chunk \in Chunks
         /\ Append(restoreBuf, Decoded(req.recs[dec + 1])) \in Data
         /\ SizesAgree => Decoded(req.recs[dec + 1]) = req.recs[dec + 1].chunk
<1> DEFINE c == req.recs[dec + 1].chunk
           v == Decoded(req.recs[dec + 1])
<1>1. c \in Chunks
  BY NextEntry DEF ChunkEntry
<1>2. SizesAgree => v = c
  BY DecodedRight, CacheSizes DEF SizesAgree, PoolCoversMap
<1>3. v \in Items \cup {Garbage}
  BY <1>1 DEF Decoded, Items
<1>4. restoreBuf \in Seq(Items \cup {Garbage})
  BY DEF StreamTypes, Data
<1> HIDE DEF v
<1>5. Append(restoreBuf, v) \in Data
  BY <1>3, <1>4, AppendProperties DEF Data
<1> QED
  BY <1>1, <1>2, <1>5 DEF v

LEMMA MessageTyped ==
  ASSUME NEW d \in Data, NEW ty \in {"LOGIN", "CHUNK", "FINAL"}
  PROVE  [type |-> ty, data |-> d] \in Message
  BY DEF Message

LEMMA DataTyped ==
  /\ <<>> \in Data
  /\ \A d \in Data : \A x \in Items \cup {Garbage} : Append(d, x) \in Data
  /\ \A ch \in Seq(Message) : \A m \in Message : Append(ch, m) \in Seq(Message)
  BY AppendProperties DEF Data

\* Head and tail of a sequence that is not empty.
LEMMA HeadTailTyped ==
  ASSUME NEW T, NEW s \in Seq(T), s # <<>>
  PROVE  Head(s) \in T /\ Tail(s) \in Seq(T) /\ Len(Tail(s)) = Len(s) - 1 /\ Len(s) \in Nat \ {0}
  BY HeadTailProperties, EmptySeq

LEMMA TypesStep == RestoreInv /\ StreamTypes /\ [Next]_vars => StreamTypes'
<1> SUFFICES ASSUME RestoreInv, StreamTypes, [Next]_vars PROVE StreamTypes'
  OBVIOUS
<1>0. /\ end \in BOOLEAN /\ tail \in BOOLEAN /\ last \in BOOLEAN /\ done \in BOOLEAN /\ jobDone \in BOOLEAN
      /\ wpc \in {"done", "empty", "pop", "closed"}
      /\ restoreBuf \in Data /\ inbox \in Data /\ mq \in Data /\ out \in Data /\ chan \in Seq(Message)
      /\ recvNum \in Nat /\ total \in Nat
  BY DEF StreamTypes
<1> USE <1>0 DEF StreamTypes
<1>1. CASE LoginResponse
  <2>1. HandInv /\ SessTypes /\ recipe \in Seq(Chunks) /\ rpos = 0
    BY <1>1, StoreAssumption DEF RestoreInv, HandInv, SessTypes, LoginResponse
  <2>2. Read(1) = <<FileHead>>
    BY <2>1, ReadFacts DEF SessTypes
  <2>3. Read(1) \in Data
    <3>1. FileHead \in Items \cup {Garbage} /\ Append(<<>>, FileHead) = <<FileHead>>
      BY DEF Items
    <3> QED
      BY <2>2, <3>1, DataTyped
  <2>4. [type |-> "LOGIN", data |-> Read(1)] \in Message
    BY <2>3, MessageTyped
  <2>5. chan' \in Seq(Message)
    BY <1>1, <2>4, AppendProperties DEF LoginResponse
  <2>6. UNCHANGED <<end, tail, last, done, jobDone, wpc, restoreBuf, inbox, mq, out, recvNum, total>>
    BY <1>1 DEF LoginResponse, decVars, retrVars, writeVars
  <2> QED
    BY <2>5, <2>6
<1>2. CASE RecvReady \/ QueryFull \/ ParseEntry \/ ResolveBases \/ EndBatch \/ FetchContainer \/ ClientClosed
  <2>1. UNCHANGED <<end, tail, last, done, jobDone, wpc, restoreBuf, inbox, mq, out, chan, recvNum, total>>
    BY <1>2 DEF RecvReady, QueryFull, ParseEntry, ResolveBases, EndBatch, FetchContainer, ClientClosed,
       sessVars, retrVars, writeVars
  <2> QED
    BY <2>1
<1>3. CASE ReadBatch
  <2>1. UNCHANGED <<tail, last, done, jobDone, wpc, restoreBuf, inbox, mq, out, chan, recvNum, total>>
    BY <1>3 DEF ReadBatch, retrVars, writeVars
  <2>2. end' \in BOOLEAN
    BY <1>3 DEF ReadBatch
  <2> QED
    BY <2>1, <2>2
<1>4. CASE DecodeEntry
  <2> DEFINE buf == Append(restoreBuf, Decoded(req.recs[dec + 1]))
             fin == tail /\ dec + 1 = Len(req.recs)
  <2>1. UNCHANGED <<end, tail, last, done, jobDone, wpc, inbox, mq, out, recvNum, total>>
    BY <1>4 DEF DecodeEntry, sessVars, retrVars, writeVars
  <2>2. buf \in Data
    BY <1>4, DecodedData DEF DecodeEntry
  <2>3. \/ restoreBuf' = buf /\ chan' = chan
        \/ /\ restoreBuf' = <<>>
           /\ chan' = Append(chan, [type |-> IF fin THEN "FINAL" ELSE "CHUNK", data |-> buf])
    BY <1>4 DEF DecodeEntry
  <2> HIDE DEF buf, fin
  <2>4. [type |-> IF fin THEN "FINAL" ELSE "CHUNK", data |-> buf] \in Message
    BY <2>2 DEF Message
  <2>5. chan' \in Seq(Message) /\ restoreBuf' \in Data
    BY <2>2, <2>3, <2>4, DataTyped
  <2> QED
    BY <2>1, <2>5
<1>5. CASE TailBatch
  <2>1. UNCHANGED <<end, last, done, jobDone, wpc, inbox, mq, out, recvNum, total>> /\ tail' = TRUE
    BY <1>5 DEF TailBatch, sessVars, retrVars, writeVars
  <2>2. \/ restoreBuf' = restoreBuf /\ chan' = chan
        \/ /\ restoreBuf' = <<>>
           /\ chan' = Append(chan, [type |-> "FINAL", data |-> restoreBuf])
    BY <1>5 DEF TailBatch
  <2>3. chan' \in Seq(Message) /\ restoreBuf' \in Data
    <3>1. [type |-> "FINAL", data |-> restoreBuf] \in Message
      BY MessageTyped
    <3> QED
      BY <2>2, <3>1, DataTyped
  <2> QED
    BY <2>1, <2>3
<1>6. CASE RecvLogin
  <2>1. UNCHANGED <<end, tail, last, done, jobDone, wpc, restoreBuf, inbox, mq, out, recvNum>>
    BY <1>6 DEF RecvLogin, sessVars, decVars, writeVars
  <2>2. chan' \in Seq(Message)
    BY <1>6, HeadTailTyped DEF RecvLogin
  <2>3. total' \in Nat
    BY <1>6, FlowTypes DEF RecvLogin
  <2> QED
    BY <2>1, <2>2, <2>3
<1>7. CASE RecvMessage
  <2>1. UNCHANGED <<end, tail, done, jobDone, wpc, restoreBuf, mq, out, recvNum, total>>
    BY <1>7 DEF RecvMessage, sessVars, decVars, writeVars
  <2>2. chan' \in Seq(Message) /\ Head(chan) \in Message
    BY <1>7, HeadTailTyped DEF RecvMessage
  <2>3. inbox' \in Data /\ last' \in BOOLEAN
    BY <1>7, <2>2 DEF RecvMessage, Message
  <2> QED
    BY <2>1, <2>2, <2>3
<1>8. CASE PushChunk
  <2>1. UNCHANGED <<end, tail, last, done, jobDone, wpc, restoreBuf, out, chan, total>>
    BY <1>8 DEF PushChunk, sessVars, decVars, writeVars
  <2>2. inbox' \in Data /\ Head(inbox) \in Items \cup {Garbage}
    BY <1>8, HeadTailTyped DEF PushChunk, Data
  <2>3. mq' \in Data /\ recvNum' \in Nat
    BY <1>8, <2>2, AppendProperties DEF PushChunk, Data
  <2> QED
    BY <2>1, <2>2, <2>3
<1>9. CASE MessageDone \/ CheckCount \/ SetDone
  <2>1. UNCHANGED <<end, tail, last, jobDone, wpc, restoreBuf, inbox, mq, out, chan, recvNum, total>>
    BY <1>9 DEF MessageDone, CheckCount, SetDone, sessVars, decVars, writeVars
  <2>2. done' \in BOOLEAN
    BY <1>9 DEF MessageDone, CheckCount, SetDone
  <2> QED
    BY <2>1, <2>2
<1>10. CASE WriterTest
  <2>1. UNCHANGED <<end, tail, last, done, restoreBuf, inbox, mq, out, chan, recvNum, total>>
    BY <1>10 DEF WriterTest, sessVars, decVars, retrVars
  <2>2. wpc' \in {"done", "empty", "pop", "closed"} /\ jobDone' \in BOOLEAN
    BY <1>10 DEF WriterTest, WriterCheck
  <2> QED
    BY <2>1, <2>2
<1>11. CASE WriterPop
  <2>1. UNCHANGED <<end, tail, last, done, jobDone, restoreBuf, inbox, chan, recvNum, total>>
    BY <1>11 DEF WriterPop, sessVars, decVars, retrVars
  <2>2. wpc' \in {"done", "empty", "pop", "closed"}
    BY <1>11 DEF WriterPop
  <2>3. mq' \in Data /\ out' \in Data
    <3>1. CASE mq # <<>>
      <4>1. Head(mq) \in Items \cup {Garbage} /\ Tail(mq) \in Data
        BY <3>1, HeadTailTyped DEF Data
      <4> QED
        BY <1>11, <3>1, <4>1, DataTyped DEF WriterPop
    <3>2. CASE mq = <<>>
      BY <1>11, <3>2 DEF WriterPop
    <3> QED
      BY <3>1, <3>2
  <2> QED
    BY <2>1, <2>2, <2>3
<1>12. CASE UNCHANGED vars
  BY <1>12 DEF vars, sessVars, decVars, retrVars, writeVars
<1> QED
  BY <1>1, <1>2, <1>3, <1>4, <1>5, <1>6, <1>7, <1>8, <1>9, <1>10, <1>11, <1>12
     DEF Next, Decoder, Retriever, Writer

----------------------------------------------------------------------------
(* The decoder. *)

Closed(pc) == pc \in {"close", "over"}

\* A step of the decoder that sends nothing.
SendsNothing == chan' = chan /\ Sent' = Sent /\ (Closed(spc') <=> Closed(spc))

\* A step of the decoder that sends what follows the chunks sent so far.
SendsNext ==
  \E m \in Message :
    /\ chan' = Append(chan, m)
    /\ Piece(recipe, m.data, Sent) /\ Sent' = Sent + Len(m.data)
    /\ ~Closed(spc) /\ (Closed(spc') <=> m.type = "FINAL")

\* Past the login the session thread is done with the recipe file.
LEMMA ReadingStarted ==
  ASSUME RestoreInv, cpc # "login" \/ spc # "ready"
  PROVE  cpc # "login" /\ hpc = "join" /\ rpos >= 1
  BY DEF RestoreInv, HandInv, SessTypes

\* A step that moves no chunk.
LEMMA FlowMoved ==
  ASSUME ServerFlow, UNCHANGED <<recipe, rpos, batch, restoreBuf, end, tail, dec, chan>>, req'.recs = req.recs,
         spc \notin {"ready", "close", "over"}, spc' \notin {"ready", "close", "over"},
         spc' \in {"read", "tail"} => batch = <<>>, spc' = "tail" => end,
         tail => spc' \in {"resolve", "fetch", "decode"}
  PROVE  ServerFlow' /\ SendsNothing
<1>1. Before' = Before
  BY DEF Before
<1>2. Sent' = Sent
  BY <1>1 DEF Sent
<1>3. ServerFlow'
  BY <1>1, <1>2 DEF ServerFlow
<1> QED
  BY <1>2, <1>3 DEF SendsNothing, Closed

LEMMA FlowQuiet ==
  ASSUME SizesAgree, RestoreInv, ServerFlow,
         QueryFull \/ ResolveBases \/ EndBatch \/ FetchContainer
  PROVE  ServerFlow' /\ SendsNothing
<1>1. UNCHANGED <<recipe, rpos, batch, restoreBuf, end, tail, dec, chan>>
  BY DEF QueryFull, ResolveBases, EndBatch, FetchContainer, sessVars
<1>2. CASE QueryFull
  <2>1. spc = "scan" /\ spc' = "full" /\ req' = req
    BY <1>2 DEF QueryFull
  <2>2. ~tail
    BY <2>1 DEF ServerFlow
  <2> QED
    BY <1>1, <2>1, <2>2, FlowMoved
<1>3. CASE ResolveBases
  <2>1. spc \in {"full", "resolve"} /\ spc' \in {"full", "resolve", "scan", "fetch"}
        /\ (spc = "resolve" => spc' \in {"resolve", "fetch"})
    BY <1>3 DEF ResolveBases
  <2>2. req'.recs = req.recs
    <3>1. Sound(req)
      BY DEF RestoreInv, RequestInv
    <3> QED
      BY <1>3, <3>1, PushBaseFacts DEF ResolveBases
  <2>3. tail => spc = "resolve"
    BY <2>1 DEF ServerFlow
  <2> QED
    BY <1>1, <2>1, <2>2, <2>3, FlowMoved
<1>4. CASE EndBatch
  <2>1. spc = "scan" /\ batch = <<>> /\ spc' = (IF end THEN "tail" ELSE "read") /\ req' = req
    BY <1>4 DEF EndBatch
  <2>2. ~tail
    BY <2>1 DEF ServerFlow
  <2> QED
    BY <1>1, <2>1, <2>2, FlowMoved
<1>5. CASE FetchContainer
  <2>1. req.ids[got + 1] \in Containers
    BY <1>5, NextContainer DEF FetchContainer
  <2>2. ~PoolOverrun
    BY CacheInvBounds, CacheSizes DEF RestoreInv, SizesAgree, MapCoversPool
  <2>3. spc = "fetch" /\ spc' \in {"fetch", "decode"} /\ req' = req
    BY <1>5, <2>1, <2>2 DEF FetchContainer
  <2> QED
    BY <1>1, <2>3, FlowMoved
<1> QED
  BY <1>2, <1>3, <1>4, <1>5

LEMMA FlowReady ==
  ASSUME RestoreInv, StreamTypes, ServerFlow, RecvReady
  PROVE  ServerFlow' /\ SendsNothing
<1>1. /\ spc = "ready" /\ spc' = "read" /\ UNCHANGED <<recipe, rpos, batch, restoreBuf, end, tail, dec, chan, req>>
  BY DEF RecvReady, sessVars
<1>2. /\ rpos <= 1 /\ batch = <<>> /\ req.recs = <<>> /\ restoreBuf = <<>> /\ ~end /\ ~tail
  BY <1>1 DEF ServerFlow
<1>3. rpos = 1 /\ dec = 0
  <2>1. cpc # "login"
    BY DEF RecvReady, RestoreInv, HandInv
  <2>2. rpos >= 1 /\ rpos \in Nat
    BY <2>1, ReadingStarted, FlowTypes
  <2>3. dec = 0
    BY <1>1 DEF RestoreInv, LoopInv
  <2> QED
    BY <1>2, <2>2, <2>3
<1>4. Len(batch) = 0 /\ Len(req.recs) = 0 /\ Len(restoreBuf) = 0
  BY <1>2
<1>5. Before' = 0 /\ Sent = 0 /\ Sent' = 0
  BY <1>1, <1>3, <1>4 DEF Before, Sent
<1>6. Piece(recipe, <<>>, 0)
  BY FlowTypes, PieceEmpty
<1>7. ServerFlow'
  BY <1>1, <1>2, <1>3, <1>4, <1>5, <1>6 DEF ServerFlow
<1> QED
  BY <1>1, <1>5, <1>7 DEF SendsNothing, Closed

LEMMA FlowClosed ==
  ASSUME ServerFlow, ClientClosed
  PROVE  ServerFlow' /\ SendsNothing
<1>1. /\ spc = "close" /\ spc' = "over" /\ UNCHANGED <<recipe, rpos, batch, restoreBuf, end, tail, dec, chan, req>>
  BY DEF ClientClosed, sessVars
<1>2. Before' = Before /\ Sent' = Sent
  BY <1>1 DEF Before, Sent
<1>3. ServerFlow'
  BY <1>1, <1>2 DEF ServerFlow
<1> QED
  BY <1>1, <1>2, <1>3 DEF SendsNothing, Closed

\* A recipe batch is read: it follows the request.
LEMMA FlowRead ==
  ASSUME RestoreInv, StreamTypes, ServerFlow, ReadBatch
  PROVE  ServerFlow' /\ SendsNothing
<1> DEFINE R == Read(RecipeBatch)
           l == Len(R)
           n == Len(req.recs)
           lr == Len(restoreBuf)
           L == Len(recipe)
<1>1. /\ spc = "read" /\ batch' = R /\ rpos' = rpos + l /\ end' = (l < RecipeBatch)
      /\ spc' \in {"tail", "scan"} /\ (spc' = "tail" <=> R = <<>>) /\ req'.recs = req.recs
      /\ UNCHANGED <<recipe, restoreBuf, tail, dec, chan>>
  <2>1. Sound(req)
    BY DEF RestoreInv, RequestInv
  <2>2. req' \in {req, [req EXCEPT !.map = <<>>]}
    BY DEF ReadBatch
  <2>3. req'.recs = req.recs
    BY <2>1, <2>2 DEF Sound, RequestRecord
  <2> QED
    BY <2>3 DEF ReadBatch
<1>2. /\ batch = <<>> /\ Len(batch) = 0 /\ ~tail /\ Before \in Nat
      /\ Sent \in Nat /\ Piece(recipe, restoreBuf, Sent)
      /\ \A i \in 1..n : req.recs[i].chunk = recipe[Before + i]
  BY <1>1 DEF ServerFlow
<1>3. n \in Nat /\ lr \in Nat /\ L \in Nat /\ rpos \in Nat /\ rpos >= 1 /\ recipe \in Seq(Chunks)
      /\ rpos \in 0..L + 1
  BY <1>1, FlowTypes, ReadingStarted DEF RestoreInv, HandInv, SessTypes
<1>4. /\ l \in 0..RecipeBatch /\ rpos + l <= L + 1 /\ (l < RecipeBatch => rpos + l = L + 1)
      /\ R \in Seq(Chunks) /\ \A i \in 1..l : R[i] = recipe[rpos - 1 + i]
  BY <1>3, ReadFacts, Sizes
<1>5. Before = rpos - 1 - 0 - n /\ Before' = (rpos + l) - 1 - l - n /\ l \in Nat
  <2>1. l \in Nat
    BY <1>4
  <2> QED
    BY <1>1, <1>2, <2>1 DEF Before
<1>6. Before' = Before /\ rpos - 1 = Before + n
  <2> HIDE DEF n, l
  <2> QED
    BY <1>2, <1>3, <1>5
<1>7. Sent' = Sent
  BY <1>1, <1>6 DEF Sent
<1>8. Piece(recipe, R, Before + n)
  <2>1. rpos - 1 + l <= L
    <3> HIDE DEF l, L
    <3> QED
      BY <1>3, <1>4, <1>5
  <2>2. Piece(recipe, R, rpos - 1)
    BY <1>4, <2>1 DEF Piece
  <2> QED
    BY <1>6, <2>2
<1>9. end' \/ spc' = "tail" => rpos' = L + 1
  <2>1. R = <<>> => l < RecipeBatch
    BY Sizes
  <2> QED
    BY <1>1, <1>4, <2>1
<1>10. ServerFlow'
  <2>1. spc' \notin {"ready", "close", "over"} /\ (spc' \in {"read", "tail"} => batch' = <<>>)
    BY <1>1
  <2>2. Before' \in Nat /\ Piece(recipe', batch', Before' + Len(req'.recs))
    BY <1>1, <1>2, <1>6, <1>8
  <2>3. \A i \in 1..Len(req'.recs) : req'.recs[i].chunk = recipe'[Before' + i]
    BY <1>1, <1>2, <1>6
  <2>4. Sent' \in Nat /\ Piece(recipe', restoreBuf', Sent') /\ tail' = FALSE
    BY <1>1, <1>2, <1>7
  <2> QED
    BY <1>1, <1>9, <2>1, <2>2, <2>3, <2>4 DEF ServerFlow
<1> QED
  BY <1>1, <1>7, <1>10 DEF SendsNothing, Closed

\* An entry of the batch joins the request.
LEMMA FlowParse ==
  ASSUME RestoreInv, StreamTypes, ServerFlow, ParseEntry
  PROVE  ServerFlow' /\ SendsNothing
<1> DEFINE c == Head(batch)
           n == Len(req.recs)
           lb == Len(batch)
           s == req.recs
           s2 == req'.recs
<1>1. /\ spc = "scan" /\ batch # <<>> /\ batch' = Tail(batch) /\ req' = PushEntry(req, c)
      /\ spc' \in {"resolve", "scan"}
      /\ UNCHANGED <<recipe, rpos, restoreBuf, end, tail, dec, chan>>
  BY DEF ParseEntry, sessVars
<1>2. /\ Before \in Nat /\ Piece(recipe, batch, Before + n) /\ ~tail
      /\ Sent \in Nat /\ Piece(recipe, restoreBuf, Sent) /\ (end => rpos = Len(recipe) + 1)
      /\ \A i \in 1..n : s[i].chunk = recipe[Before + i]
  BY <1>1 DEF ServerFlow
<1>3. /\ s \in Seq(ChunkEntry) /\ n \in Nat /\ batch \in Seq(Chunks) /\ recipe \in Seq(Chunks) /\ rpos \in Nat
      /\ Before + n \in Nat
  BY <1>2, FlowTypes
<1>4. /\ c = recipe[(Before + n) + 1] /\ c \in Chunks /\ Len(batch') = lb - 1 /\ lb \in Nat
      /\ Piece(recipe, batch', (Before + n) + 1)
  BY <1>1, <1>2, <1>3, PieceTail
<1>5. PICK x \in Nat : s2 = Append(s, [chunk |-> c, slot |-> x])
  <2>1. Sound(req)
    BY DEF RestoreInv, RequestInv
  <2> HIDE DEF c
  <2> QED
    BY <1>1, <1>4, <2>1, PushEntryFacts
<1>6. /\ Len(s2) = n + 1 /\ s2[n + 1].chunk = c /\ \A i \in 1..n : s2[i] = s[i]
  <2>1. [chunk |-> c, slot |-> x] \in ChunkEntry /\ [chunk |-> c, slot |-> x].chunk = c
    BY <1>4 DEF ChunkEntry
  <2> HIDE DEF c, s, s2
  <2>2. /\ Len(s2) = Len(s) + 1 /\ s2[Len(s) + 1] = [chunk |-> c, slot |-> x]
        /\ \A i \in 1..Len(s) : s2[i] = s[i]
    BY <1>3, <1>5, <2>1, AppendProperties
  <2> QED
    BY <2>1, <2>2 DEF s
<1>7. Before' = Before
  <2>1. Before = rpos - 1 - lb - n /\ Before' = rpos - 1 - (lb - 1) - (n + 1)
    BY <1>1, <1>4, <1>6 DEF Before
  <2> HIDE DEF lb, n
  <2> QED
    BY <1>3, <1>4, <2>1
<1>8. Sent' = Sent
  BY <1>1, <1>7 DEF Sent
<1>9. ASSUME NEW i \in 1..n + 1 PROVE s2[i].chunk = recipe[Before + i]
  <2>1. CASE i = n + 1
    <3>1. Before + i = (Before + n) + 1
      BY <1>2, <1>3, <2>1
    <3> QED
      BY <1>4, <1>6, <2>1, <3>1
  <2>2. CASE i # n + 1
    <3>1. i \in 1..n
      BY <1>3, <2>2
    <3> QED
      BY <1>2, <1>6, <3>1
  <2> QED
    BY <2>1, <2>2
<1>10. Before + Len(s2) = (Before + n) + 1
  BY <1>2, <1>3, <1>6
<1>11. ServerFlow'
  <2>1. Before' \in Nat /\ Piece(recipe', batch', Before' + Len(req'.recs))
    BY <1>1, <1>2, <1>4, <1>7, <1>10
  <2>2. \A i \in 1..Len(req'.recs) : req'.recs[i].chunk = recipe'[Before' + i]
    BY <1>1, <1>6, <1>7, <1>9
  <2>3. Sent' \in Nat /\ Piece(recipe', restoreBuf', Sent')
    BY <1>1, <1>2, <1>8
  <2> QED
    BY <1>1, <1>2, <2>1, <2>2, <2>3 DEF ServerFlow
<1> QED
  BY <1>1, <1>8, <1>11 DEF SendsNothing, Closed

\* The tail: the request that is left is closed, or the rest is sent.
LEMMA FlowTail ==
  ASSUME RestoreInv, StreamTypes, ServerFlow, TailBatch
  PROVE  ServerFlow' /\ (SendsNothing \/ SendsNext)
<1>1. /\ spc = "tail" /\ tail' = TRUE /\ batch = <<>> /\ rpos = Len(recipe) + 1
      /\ UNCHANGED <<recipe, rpos, batch, end, dec>>
  BY DEF TailBatch, ServerFlow, sessVars
<1>2. /\ Before \in Nat /\ Piece(recipe, batch, Before + Len(req.recs))
      /\ Sent \in Nat /\ Piece(recipe, restoreBuf, Sent)
      /\ \A i \in 1..Len(req.recs) : req.recs[i].chunk = recipe[Before + i]
  BY <1>1 DEF ServerFlow
<1>3. CASE req.recs # <<>>
  <2>1. /\ spc' = "resolve" /\ req' = [req EXCEPT !.map = <<>>] /\ UNCHANGED <<chan, restoreBuf>>
    BY <1>3 DEF TailBatch
  <2>2. req'.recs = req.recs
    <3>1. Sound(req)
      BY DEF RestoreInv, RequestInv
    <3> QED
      BY <2>1, <3>1 DEF Sound, RequestRecord
  <2>3. Before' = Before
    BY <1>1, <2>2 DEF Before
  <2>4. Sent' = Sent
    BY <1>1, <2>1, <2>3 DEF Sent
  <2>5. ServerFlow'
    BY <1>1, <1>2, <2>1, <2>2, <2>3, <2>4 DEF ServerFlow
  <2> QED
    BY <1>1, <2>1, <2>4, <2>5 DEF SendsNothing, Closed
<1>4. CASE req.recs = <<>>
  <2> DEFINE m == [type |-> "FINAL", data |-> restoreBuf]
             L == Len(recipe)
             lr == Len(restoreBuf)
  <2>1. spc' = "close" /\ chan' = Append(chan, m) /\ restoreBuf' = <<>> /\ req' = req
    BY <1>4 DEF TailBatch
  <2>2. m \in Message /\ L \in Nat /\ lr \in Nat /\ recipe \in Seq(Chunks)
    BY FlowTypes, MessageTyped
  <2>3. dec = 0 /\ Len(batch) = 0 /\ Len(req.recs) = 0
    BY <1>1, <1>4 DEF RestoreInv, LoopInv
  <2>4. Sent = Before + 0 - lr /\ Before = (L + 1) - 1 - 0 - 0 /\ Sent' = L
    BY <1>1, <2>1, <2>3 DEF Sent, Before
  <2>5. Sent' = Sent + lr /\ Before = L
    <3> HIDE DEF L, lr
    <3> QED
      BY <2>2, <2>4
  <2>6. Piece(recipe, <<>>, L)
    BY <2>2, PieceEmpty
  <2>7. Before' = Before
    BY <1>1, <2>1 DEF Before
  <2>8. ServerFlow'
    BY <1>1, <1>2, <2>1, <2>2, <2>4, <2>6, <2>7 DEF ServerFlow
  <2>9. m.data = restoreBuf /\ m.type = "FINAL"
    OBVIOUS
  <2> HIDE DEF m
  <2>10. SendsNext
    BY <1>1, <1>2, <2>1, <2>2, <2>5, <2>9 DEF SendsNext, Closed
  <2> QED
    BY <2>8, <2>10
<1> QED
  BY <1>3, <1>4

\* An entry is decoded: its chunk follows those in the buffer.
LEMMA FlowDecode ==
  ASSUME SizesAgree, RestoreInv, StreamTypes, ServerFlow, DecodeEntry
  PROVE  ServerFlow' /\ (SendsNothing \/ SendsNext)
<1> DEFINE c == req.recs[dec + 1].chunk
           n == Len(req.recs)
           lb == Len(batch)
           lr == Len(restoreBuf)
           L == Len(recipe)
           buf == Append(restoreBuf, c)
           over == dec + 1 = n
           fin == tail /\ over
<1>1. /\ spc = "decode" /\ UNCHANGED <<recipe, rpos, batch, end, tail>>
      /\ dec' = (IF over THEN 0 ELSE dec + 1)
      /\ req' = (IF over /\ ~tail THEN Reset ELSE req)
      /\ spc' = (IF fin THEN "close" ELSE IF over THEN "scan" ELSE "decode")
  BY DEF DecodeEntry, sessVars
<1>2. /\ c \in Chunks /\ buf \in Data
      /\ Append(restoreBuf, Decoded(req.recs[dec + 1])) = buf
  BY <1>1, DecodedData
<1>3. \/ restoreBuf' = buf /\ chan' = chan /\ ~fin
      \/ /\ restoreBuf' = <<>>
         /\ chan' = Append(chan, [type |-> IF fin THEN "FINAL" ELSE "CHUNK", data |-> buf])
  BY <1>2 DEF DecodeEntry
<1>4. /\ Before \in Nat /\ Piece(recipe, batch, Before + n)
      /\ Sent \in Nat /\ Piece(recipe, restoreBuf, Sent)
      /\ \A i \in 1..n : req.recs[i].chunk = recipe[Before + i]
      /\ (end => rpos = L + 1) /\ (tail => rpos = L + 1 /\ batch = <<>>)
  BY <1>1 DEF ServerFlow
<1>5. /\ recipe \in Seq(Chunks) /\ L \in Nat /\ n \in Nat /\ lb \in Nat /\ lr \in Nat /\ rpos \in Nat
      /\ restoreBuf \in Data /\ dec \in Nat
  BY FlowTypes
<1>6. dec + 1 \in 1..n
  BY <1>1, NextEntry
<1>7. /\ Before = rpos - 1 - lb - n /\ Sent = Before + dec - lr /\ Before + n + lb <= L
      /\ (tail => lb = 0)
  BY <1>1, <1>4 DEF Sent, Before, Piece
<1>8. /\ Sent + lr < L /\ c = recipe[Sent + lr + 1]
  <2>1. c = recipe[Before + (dec + 1)]
    BY <1>4, <1>6
  <2> HIDE DEF n, lb, lr, L
  <2>2. Sent + lr < L /\ Before + (dec + 1) = Sent + lr + 1
    BY <1>4, <1>5, <1>6, <1>7
  <2> QED
    BY <2>1, <2>2
<1>9. Piece(recipe, buf, Sent) /\ Len(buf) = lr + 1
  <2>1. c \in Items \cup {Garbage} /\ restoreBuf \in Seq(Items \cup {Garbage})
    BY <1>2, <1>5 DEF Items, Data
  <2> HIDE DEF c
  <2> QED
    BY <1>4, <1>5, <1>8, <2>1, PieceAppend
<1> HIDE DEF c, buf
\* The places after the step.
<1>10. /\ Before' = (IF over /\ ~tail THEN Before + n ELSE Before)
       /\ Before' \in Nat
       /\ fin => Before + dec + 1 = L
       /\ ~fin => Before' + dec' = Before + dec + 1
  <2>1. Len(req'.recs) = IF over /\ ~tail THEN 0 ELSE n
    BY <1>1 DEF Reset, NoRequest
  <2>2. Before' = rpos - 1 - lb - (IF over /\ ~tail THEN 0 ELSE n)
    BY <1>1, <2>1 DEF Before
  <2>3. fin => rpos = L + 1
    BY <1>4
  <2>4. dec' = IF over THEN 0 ELSE dec + 1
    BY <1>1
  <2> HIDE DEF n, lb, lr, L
  <2> QED
    BY <1>4, <1>5, <1>7, <2>2, <2>3, <2>4
<1>11. /\ Piece(recipe, batch, Before' + Len(req'.recs))
       /\ \A i \in 1..Len(req'.recs) : req'.recs[i].chunk = recipe[Before' + i]
  <2>1. CASE over /\ ~tail
    <3>1. Len(req'.recs) = 0 /\ Before' = Before + n
      BY <1>1, <1>10, <2>1 DEF Reset, NoRequest
    <3>2. Before' + Len(req'.recs) = Before + n
      BY <1>4, <1>5, <3>1
    <3> QED
      BY <1>4, <3>1, <3>2
  <2>2. CASE ~(over /\ ~tail)
    BY <1>1, <1>4, <1>10, <2>2
  <2> QED
    BY <2>1, <2>2
<1>12. Sent' = IF fin THEN L ELSE Before' + dec' - Len(restoreBuf')
  BY <1>1 DEF Sent
<1>13. tail => spc' \in {"decode", "close"}
  BY <1>1
<1>14. ASSUME Sent' \in Nat, Piece(recipe, restoreBuf', Sent'), fin => restoreBuf' = <<>>
       PROVE  ServerFlow'
  <2>1. spc' \in {"close", "scan", "decode"} /\ (spc' = "close" <=> fin)
    BY <1>1
  <2>2. Before' \in Nat
    BY <1>10
  <2> HIDE DEF over, n, fin
  <2> QED
    BY <1>1, <1>4, <1>11, <1>13, <1>14, <2>1, <2>2 DEF ServerFlow
<1>15. Before' \in Nat /\ dec' \in Nat
  BY <1>1, <1>5, <1>10
<1>16. CASE restoreBuf' = buf /\ chan' = chan /\ ~fin
  <2>1. Sent' = Sent
    <3>1. Len(restoreBuf') = lr + 1 /\ Sent' = Before' + dec' - Len(restoreBuf')
      BY <1>9, <1>12, <1>16
    <3>2. Before' + dec' = Before + dec + 1
      BY <1>10, <1>16
    <3>3. Sent' = (Before + dec + 1) - (lr + 1)
      BY <1>9, <1>16, <1>15, <3>1, <3>2
    <3>4. Before \in Nat /\ dec \in Nat /\ lr \in Nat /\ Sent = Before + dec - lr
      BY <1>4, <1>5, <1>7
    <3> HIDE DEF lr
    <3> QED
      BY <3>3, <3>4
  <2>2. ServerFlow'
    BY <1>4, <1>9, <1>14, <1>16, <2>1
  <2>3. ~Closed(spc) /\ ~Closed(spc')
    BY <1>1, <1>16 DEF Closed
  <2> QED
    BY <1>16, <2>1, <2>2, <2>3 DEF SendsNothing
<1>17. CASE /\ restoreBuf' = <<>>
            /\ chan' = Append(chan, [type |-> IF fin THEN "FINAL" ELSE "CHUNK", data |-> buf])
  <2> DEFINE m == [type |-> IF fin THEN "FINAL" ELSE "CHUNK", data |-> buf]
  <2>1. m \in Message /\ m.data = buf /\ (m.type = "FINAL" <=> fin)
    BY <1>2 DEF Message
  <2>2. Len(restoreBuf') = 0
    BY <1>17
  <2>3. Sent' = Before + dec + 1
    <3>1. CASE fin
      BY <1>10, <1>12, <3>1
    <3>2. CASE ~fin
      <4>1. Sent' = Before' + dec' - 0 /\ Before' + dec' = Before + dec + 1
        BY <1>10, <1>12, <2>2, <3>2
      <4>2. Before + dec + 1 \in Nat
        BY <1>4, <1>5
      <4>3. Sent' = (Before + dec + 1) - 0
        BY <1>15, <4>1
      <4> QED
        BY <4>2, <4>3
    <3> QED
      BY <3>1, <3>2
  <2>4. Sent' = Sent + Len(m.data) /\ Sent' \in Nat /\ Sent' <= L
    <3>1. Len(m.data) = lr + 1
      BY <1>9, <2>1
    <3>2. Before \in Nat /\ dec \in Nat /\ lr \in Nat /\ L \in Nat /\ Sent = Before + dec - lr /\ Sent + lr < L
      BY <1>4, <1>5, <1>7, <1>8
    <3> HIDE DEF lr, m, L
    <3> QED
      BY <2>3, <3>1, <3>2
  <2>5. Piece(recipe, restoreBuf', Sent')
    <3>1. Sent' \in 0..L
      BY <1>5, <2>4
    <3> QED
      BY <1>5, <1>17, <3>1, PieceEmpty
  <2>6. ServerFlow'
    BY <1>14, <1>17, <2>4, <2>5
  <2>7. ~Closed(spc) /\ (Closed(spc') <=> m.type = "FINAL")
    BY <1>1, <2>1 DEF Closed
  <2>8. chan' = Append(chan, m)
    BY <1>17
  <2> HIDE DEF m
  <2>9. SendsNext
    BY <1>9, <2>1, <2>4, <2>7, <2>8 DEF SendsNext
  <2> QED
    BY <2>6, <2>9
<1> QED
  BY <1>3, <1>16, <1>17

LEMMA DecoderStep ==
  ASSUME SizesAgree, RestoreInv, StreamTypes, ServerFlow, Decoder
  PROVE  ServerFlow' /\ (SendsNothing \/ SendsNext)
  BY FlowReady, FlowRead, FlowQuiet, FlowParse, FlowDecode, FlowTail, FlowClosed DEF Decoder

\* The other threads leave the decoder's state alone.
LEMMA ServerKept ==
  ASSUME RestoreInv, StreamTypes, ServerFlow, LoginResponse \/ Retriever \/ Writer \/ UNCHANGED vars
  PROVE  ServerFlow' /\ Sent' = Sent /\ spc' = spc /\ recipe' = recipe
<1>1. UNCHANGED <<spc, tail, batch, req, dec, restoreBuf>>
  BY LoopFrame DEF decVars
<1>2. CASE LoginResponse
  <2>1. rpos = 0 /\ spc = "ready" /\ recipe \in Seq(Chunks)
    BY <1>2, FlowTypes DEF LoginResponse, RestoreInv, HandInv
  <2>2. Len(Read(1)) \in 0..1
    BY <2>1, ReadFacts DEF RestoreInv, HandInv, SessTypes
  <2>3. rpos' <= 1 /\ UNCHANGED <<recipe, end>>
    <3> DEFINE l == Len(Read(1))
    <3>1. rpos' = 0 + l /\ l \in 0..1 /\ UNCHANGED <<recipe, end>>
      BY <1>2, <2>1, <2>2 DEF LoginResponse
    <3> HIDE DEF l
    <3> QED
      BY <3>1
  <2>4. Sent' = Sent
    BY <1>1, <2>1 DEF Sent
  <2> QED
    BY <1>1, <2>1, <2>3, <2>4 DEF ServerFlow
<1>3. CASE ~LoginResponse
  <2>1. UNCHANGED <<recipe, rpos, end>>
    BY <1>3 DEF Retriever, Writer, RecvLogin, RecvMessage, PushChunk, MessageDone, SetDone, CheckCount,
       WriterTest, WriterPop, vars, sessVars
  <2>2. Before' = Before
    BY <1>1, <2>1 DEF Before
  <2>3. Sent' = Sent
    BY <1>1, <2>1, <2>2 DEF Sent
  <2> QED
    BY <1>1, <2>1, <2>2, <2>3 DEF ServerFlow
<1> QED
  BY <1>2, <1>3

----------------------------------------------------------------------------
(* The connection and the client. *)

\* What the decoder leaves alone.
LEMMA DecoderFrame ==
  ASSUME Decoder
  PROVE  UNCHANGED <<recipe, cpc, total, recvNum, inbox, last, out, mq, done, wpc, jobDone>>
  BY DEF Decoder, RecvReady, ReadBatch, QueryFull, ParseEntry, ResolveBases, EndBatch, FetchContainer,
     DecodeEntry, TailBatch, ClientClosed, sessVars, retrVars, writeVars

LEMMA ClientKept ==
  ASSUME ClientFlow, UNCHANGED <<recipe, cpc, recvNum, inbox, last, out, mq, done, wpc, jobDone>>
  PROVE  ClientFlow'
  BY DEF ClientFlow

LEMMA ChanDecoder ==
  ASSUME RestoreInv, StreamTypes, ChanFlow, Decoder, SendsNothing \/ SendsNext
  PROVE  ChanFlow'
<1>1. UNCHANGED <<recipe, cpc, recvNum, inbox, last>>
  BY DecoderFrame
<1>2. CASE SendsNothing
  BY <1>1, <1>2 DEF ChanFlow, SendsNothing, Closed
<1>3. CASE SendsNext
  <2> PICK m \in Message :
        /\ chan' = Append(chan, m)
        /\ Piece(recipe, m.data, Sent) /\ Sent' = Sent + Len(m.data)
        /\ ~Closed(spc) /\ (Closed(spc') <=> m.type = "FINAL")
    BY <1>3 DEF SendsNext
  <2>1. chan \in Seq(Message) /\ Len(chan) \in Nat
    BY FlowTypes
  <2>2. /\ Len(chan') = Len(chan) + 1 /\ chan'[Len(chan) + 1] = m /\ chan' # <<>>
        /\ \A i \in 1..Len(chan) : chan'[i] = chan[i]
    BY <2>1, AppendProperties
  <2>3. ~last /\ \A i \in 1..Len(chan) : chan[i].type # "FINAL"
    BY DEF ChanFlow, Closed
  <2>4. cpc' # "login" => Chained(recipe', chan', recvNum' + Len(inbox'), Sent')
    BY <1>1, <2>1, ChainAppend DEF ChanFlow
  <2>5. ASSUME NEW i \in 1..Len(chan'), chan'[i].type = "FINAL" PROVE i = Len(chan') /\ Closed(spc')
    <3>1. i \notin 1..Len(chan)
      BY <2>2, <2>3, <2>5
    <3>2. i = Len(chan) + 1
      BY <2>1, <2>2, <3>1
    <3> QED
      BY <2>2, <2>5, <3>2
  <2>6. Closed(spc') => chan' # <<>> /\ chan'[Len(chan')].type = "FINAL"
    BY <2>2
  <2> QED
    BY <1>1, <2>3, <2>4, <2>5, <2>6 DEF ChanFlow, Closed
<1> QED
  BY <1>2, <1>3

\* A step of another thread that leaves the connection alone.
LEMMA ChanKept ==
  ASSUME ChanFlow, UNCHANGED <<recipe, chan, spc, last>>, Sent' = Sent,
         recvNum' + Len(inbox') = recvNum + Len(inbox), cpc' # "login" => cpc # "login"
  PROVE  ChanFlow'
  BY DEF ChanFlow

LEMMA LoginFlow ==
  ASSUME RestoreInv, FlowInv, LoginResponse
  PROVE  ChanFlow' /\ ClientFlow'
<1>1. /\ cpc = "login" /\ spc = "ready" /\ chan = <<>>
      /\ chan' = Append(chan, [type |-> "LOGIN", data |-> Read(1)])
      /\ UNCHANGED <<recipe, cpc, recvNum, inbox, last, out, mq, done, wpc, jobDone, spc>>
  BY DEF LoginResponse, RestoreInv, HandInv, decVars, retrVars, writeVars
<1>2. ~last
  BY <1>1 DEF FlowInv, ClientFlow
<1>3. Len(chan') = 1 /\ chan'[1].type = "LOGIN"
  BY <1>1
<1>4. ChanFlow'
  BY <1>1, <1>2, <1>3 DEF ChanFlow
<1> QED
  BY <1>1, <1>4, ClientKept DEF FlowInv

LEMMA RecvLoginFlow ==
  ASSUME RestoreInv, FlowInv, RecvLogin
  PROVE  ChanFlow' /\ ClientFlow'
<1>1. /\ cpc = "login" /\ cpc' = "recv" /\ chan # <<>> /\ chan' = Tail(chan)
      /\ UNCHANGED <<recipe, recvNum, inbox, last, out, mq, done, wpc, jobDone, spc>>
  BY DEF RecvLogin, sessVars, decVars, writeVars
<1>2. chan' = <<>> /\ spc = "ready"
  <2>1. hpc = "join" /\ spc = "ready"
    BY <1>1 DEF RestoreInv, HandInv, SessTypes
  <2>2. chan = <<[type |-> "LOGIN", data |-> <<FileHead>>]>>
    BY <1>1, <2>1 DEF RestoreInv, HandInv
  <2> QED
    BY <1>1, <2>1, <2>2
<1>3. recvNum = 0 /\ inbox = <<>> /\ Len(inbox) = 0 /\ ~last /\ ~done
  BY <1>1 DEF FlowInv, ClientFlow
<1>4. Sent' = 0
  BY <1>1, <1>2 DEF Sent
<1>5. Chained(recipe', chan', recvNum' + Len(inbox'), Sent')
  <2>1. recvNum' + Len(inbox') = 0
    BY <1>1, <1>3
  <2>2. Chained(recipe, <<>>, 0, 0)
    BY ChainEmpty
  <2> QED
    BY <1>1, <1>2, <1>4, <2>1, <2>2
<1>6. ChanFlow'
  <2>1. \A i \in 1..Len(chan') : FALSE
    BY <1>2
  <2>2. spc' = "ready" /\ ~last'
    BY <1>1, <1>2, <1>3
  <2> QED
    BY <1>5, <2>1, <2>2 DEF ChanFlow
<1>7. ClientFlow'
  BY <1>1, <1>3 DEF FlowInv, ClientFlow
<1> QED
  BY <1>6, <1>7

LEMMA RecvMessageFlow ==
  ASSUME RestoreInv, FlowInv, RecvMessage
  PROVE  ChanFlow' /\ ClientFlow'
<1> DEFINE m == Head(chan)
           n == Len(chan)
<1>1. /\ cpc = "recv" /\ cpc' = "push" /\ chan # <<>> /\ chan' = Tail(chan) /\ inbox' = m.data
      /\ last' = (m.type = "FINAL")
      /\ UNCHANGED <<recipe, recvNum, out, mq, done, wpc, jobDone, spc>>
  BY DEF RecvMessage, sessVars, decVars, writeVars
<1>2. inbox = <<>> /\ Len(inbox) = 0 /\ ~last /\ ~done /\ recvNum \in Nat
  BY <1>1 DEF FlowInv, ClientFlow, StreamTypes
<1>3. chan \in Seq(Message) /\ n \in Nat
  BY FlowTypes DEF FlowInv
<1>4. /\ m \in Message /\ m = chan[1] /\ n \in Nat \ {0} /\ Len(chan') = n - 1
      /\ \A i \in 1..n - 1 : chan'[i] = chan[i + 1]
  BY <1>1, <1>3, HeadTailProperties, EmptySeq
<1>5. Sent' = Sent
  BY <1>1, ServerKept DEF FlowInv, Retriever
<1>6. /\ Piece(recipe, m.data, recvNum)
      /\ Chained(recipe, chan', recvNum + Len(m.data), Sent)
  <2>1. recvNum + Len(inbox) = recvNum
    BY <1>2
  <2>2. Chained(recipe, chan, recvNum, Sent)
    BY <1>1, <2>1 DEF FlowInv, ChanFlow
  <2> QED
    BY <1>1, <1>2, <1>3, <2>2, ChainTail
<1>7. \A i \in 1..n : chan[i].type = "FINAL" => i = n /\ Closed(spc)
  BY DEF FlowInv, ChanFlow, Closed
<1>8. Closed(spc) => chan[n].type = "FINAL"
  BY <1>2 DEF FlowInv, ChanFlow, Closed
<1>9. last' => chan' = <<>> /\ Closed(spc)
  <2> SUFFICES ASSUME last' PROVE n = 1 /\ Closed(spc)
    <3>1. n = 1 => chan' = <<>>
      BY <1>1, <1>3, <1>4, EmptySeq, HeadTailProperties
    <3> QED
      BY <3>1
  <2>1. 1 \in 1..n /\ chan[1].type = "FINAL"
    <3>1. m.type = "FINAL"
      BY <1>1
    <3>2. m = chan[1] /\ 1 \in 1..n
      BY <1>4
    <3> HIDE DEF m
    <3> QED
      BY <3>1, <3>2
  <2> QED
    BY <1>7, <2>1
<1>10. ASSUME NEW i \in 1..Len(chan'), chan'[i].type = "FINAL" PROVE i = Len(chan') /\ Closed(spc)
  <2>1. i \in 1..n - 1 /\ i + 1 \in 1..n
    BY <1>4
  <2>2. i + 1 = n /\ Closed(spc)
    BY <1>4, <1>7, <1>10, <2>1
  <2> QED
    BY <1>4, <2>1, <2>2
<1>11. Closed(spc) => last' \/ (chan' # <<>> /\ chan'[Len(chan')].type = "FINAL")
  <2> SUFFICES ASSUME Closed(spc) PROVE last' \/ (chan' # <<>> /\ chan'[Len(chan')].type = "FINAL")
    OBVIOUS
  <2>1. CASE n = 1
    BY <1>1, <1>4, <1>8, <2>1
  <2>2. CASE n # 1
    <3>1. n - 1 \in 1..n - 1 /\ (n - 1) + 1 = n
      BY <1>4, <2>2
    <3>2. chan'[n - 1] = chan[n]
      BY <1>4, <3>1
    <3>3. chan' # <<>>
      BY <1>4, <3>1
    <3> QED
      BY <1>4, <1>8, <3>2, <3>3
  <2> QED
    BY <2>1, <2>2
<1>12. ChanFlow'
  BY <1>1, <1>5, <1>6, <1>9, <1>10, <1>11 DEF ChanFlow, Closed
<1>13. ClientFlow'
  BY <1>1, <1>2, <1>6 DEF FlowInv, ClientFlow
<1> QED
  BY <1>12, <1>13

LEMMA PushChunkFlow ==
  ASSUME RestoreInv, FlowInv, PushChunk
  PROVE  ChanFlow' /\ ClientFlow'
<1> DEFINE T == Items \cup {Garbage}
           lo == Len(out)
           lm == Len(mq)
           li == Len(inbox)
<1>1. /\ cpc = "push" /\ inbox # <<>> /\ mq' = Append(mq, Head(inbox)) /\ inbox' = Tail(inbox)
      /\ recvNum' = recvNum + 1
      /\ UNCHANGED <<recipe, chan, cpc, last, out, done, wpc, jobDone, spc>>
  BY DEF PushChunk, sessVars, decVars, writeVars
<1>2. /\ Piece(recipe, out, 0) /\ Piece(recipe, mq, lo) /\ Piece(recipe, inbox, recvNum)
      /\ recvNum = lo + lm /\ ~done /\ ~jobDone /\ wpc # "empty" /\ wpc # "closed" /\ recvNum \in Nat
  BY <1>1 DEF FlowInv, ClientFlow, StreamTypes
<1>3. /\ recipe \in Seq(Chunks) /\ mq \in Seq(T) /\ inbox \in Seq(T)
      /\ lo \in Nat /\ lm \in Nat /\ li \in Nat
  BY FlowTypes DEF FlowInv, Data
<1>4. /\ Head(inbox) = recipe[recvNum + 1] /\ Head(inbox) \in T /\ recvNum < Len(recipe)
      /\ Len(inbox') = li - 1 /\ Piece(recipe, inbox', recvNum + 1)
  BY <1>1, <1>2, <1>3, PieceTail
<1>5. /\ Piece(recipe, mq', lo) /\ Len(mq') = lm + 1
  <2> DEFINE h == Head(inbox)
  <2>1. h \in T /\ h = recipe[lo + Len(mq) + 1] /\ lo + Len(mq) < Len(recipe) /\ mq' = Append(mq, h)
    BY <1>1, <1>2, <1>4
  <2> HIDE DEF h, T, lo
  <2> QED
    BY <1>2, <1>3, <2>1, PieceAppend
<1>6. recvNum' + Len(inbox') = recvNum + li /\ recvNum' = lo + Len(mq')
  <2> DEFINE k == Len(inbox')
             j == Len(mq')
  <2>1. recvNum' = recvNum + 1 /\ recvNum = lo + lm /\ k = li - 1 /\ j = lm + 1
    BY <1>1, <1>2, <1>4, <1>5
  <2>2. lo \in Nat /\ lm \in Nat /\ li \in Nat
    BY <1>3
  <2>3. recvNum' + k = recvNum + li /\ recvNum' = lo + j
    <3> HIDE DEF lo, lm, li, k, j
    <3> QED
      BY <2>1, <2>2
  <2> QED
    BY <2>3
<1>7. Sent' = Sent
  BY ServerKept DEF FlowInv, Retriever
<1>8. ChanFlow'
  BY <1>1, <1>6, <1>7, ChanKept DEF FlowInv
<1>9. ClientFlow'
  BY <1>1, <1>2, <1>4, <1>5, <1>6 DEF ClientFlow
<1> QED
  BY <1>8, <1>9

\* With the last message dealt with, everything has arrived.
LEMMA AllReceived ==
  ASSUME RestoreInv, FlowInv, last, inbox = <<>>
  PROVE  recvNum = Len(recipe) /\ total = Len(recipe) /\ chan = <<>>
<1>1. chan = <<>> /\ Closed(spc)
  BY DEF FlowInv, ChanFlow, Closed
<1>2. cpc # "login"
  BY DEF FlowInv, ClientFlow
<1>3. Chained(recipe, <<>>, recvNum + Len(inbox), Len(recipe))
  BY <1>1, <1>2 DEF FlowInv, ChanFlow, Sent, Closed
<1>4. recvNum \in Nat
  BY DEF FlowInv, StreamTypes
<1> QED
  BY <1>1, <1>2, <1>3, <1>4, ChainOver DEF RestoreInv, HandInv

LEMMA EndFlow ==
  ASSUME RestoreInv, FlowInv, MessageDone \/ SetDone \/ CheckCount
  PROVE  ChanFlow' /\ ClientFlow'
<1>1. UNCHANGED <<recipe, chan, spc, last, inbox, recvNum, out, mq, wpc, jobDone>>
  BY DEF MessageDone, SetDone, CheckCount, sessVars, decVars, writeVars
<1>2. Sent' = Sent
  BY ServerKept DEF FlowInv, Retriever
<1>3. cpc # "login"
  BY DEF MessageDone, SetDone, CheckCount
<1>4. ChanFlow'
  BY <1>1, <1>2, <1>3, ChanKept DEF FlowInv
<1>5. CASE MessageDone
  <2>1. cpc = "push" /\ inbox = <<>> /\ cpc' = (IF last THEN "finished" ELSE "recv") /\ done' = done
    BY <1>5 DEF MessageDone
  <2>2. ClientFlow'
    BY <1>1, <2>1 DEF FlowInv, ClientFlow
  <2> QED
    BY <1>4, <2>2
<1>6. CASE SetDone
  <2>1. cpc = "finished" /\ cpc' = "count" /\ done' = TRUE
    BY <1>6 DEF SetDone
  <2>2. ClientFlow'
    BY <1>1, <2>1 DEF FlowInv, ClientFlow
  <2> QED
    BY <1>4, <2>2
<1>7. CASE CheckCount
  <2>1. cpc = "count" /\ cpc' = (IF recvNum = total THEN "checked" ELSE "exit") /\ done' = done
    BY <1>7 DEF CheckCount
  <2>2. last /\ inbox = <<>>
    BY <2>1 DEF FlowInv, ClientFlow
  <2>3. cpc' = "checked"
    BY <2>1, <2>2, AllReceived
  <2>4. ClientFlow'
    BY <1>1, <2>1, <2>2, <2>3 DEF FlowInv, ClientFlow
  <2> QED
    BY <1>4, <2>4
<1> QED
  BY <1>5, <1>6, <1>7

LEMMA WriterFlow ==
  ASSUME RestoreInv, FlowInv, Writer
  PROVE  ChanFlow' /\ ClientFlow'
<1>1. UNCHANGED <<recipe, chan, spc, cpc, last, inbox, recvNum, done>>
  BY DEF Writer, WriterTest, WriterPop, sessVars, decVars, retrVars
<1>2. Sent' = Sent
  BY ServerKept DEF FlowInv
<1>3. ChanFlow'
  BY <1>1, <1>2, ChanKept DEF FlowInv
<1>4. CASE WriterTest
  <2>1. UNCHANGED <<out, mq>> /\ WriterCheck
    BY <1>4 DEF WriterTest
  <2>2. (wpc = "empty" \/ jobDone => done) /\ (jobDone => mq = <<>>)
    BY DEF FlowInv, ClientFlow
  <2>3. /\ wpc' = "empty" \/ jobDone' => done
        /\ jobDone' => mq = <<>>
        /\ wpc' # "closed"
    <3>1. CASE wpc = "done" /\ wpc' = (IF done THEN "empty" ELSE "pop") /\ jobDone' = jobDone
      BY <2>2, <3>1
    <3>2. CASE wpc = "empty" /\ wpc' = "pop" /\ jobDone' = (mq = <<>>)
      BY <2>2, <3>2
    <3> QED
      BY <2>1, <3>1, <3>2 DEF WriterCheck
  <2>4. ClientFlow'
    BY <1>1, <2>1, <2>2, <2>3 DEF FlowInv, ClientFlow
  <2> QED
    BY <1>3, <2>4
<1>5. CASE WriterPop /\ mq = <<>>
  <2>1. UNCHANGED <<out, mq, jobDone>> /\ wpc = "pop" /\ wpc' = IF jobDone THEN "closed" ELSE "done"
    BY <1>5 DEF WriterPop
  <2>2. ClientFlow'
    BY <1>1, <2>1 DEF FlowInv, ClientFlow
  <2> QED
    BY <1>3, <2>2
<1>6. CASE WriterPop /\ mq # <<>>
  <2> DEFINE T == Items \cup {Garbage}
             lo == Len(out)
             lm == Len(mq)
             h == Head(mq)
  <2>1. /\ out' = Append(out, h) /\ mq' = Tail(mq) /\ jobDone' = jobDone
        /\ wpc' = IF jobDone THEN "closed" ELSE "done"
    BY <1>6 DEF WriterPop
  <2>2. /\ Piece(recipe, out, 0) /\ Piece(recipe, mq, lo) /\ recvNum = lo + lm /\ ~jobDone
    BY <1>6 DEF FlowInv, ClientFlow
  <2>3. recipe \in Seq(Chunks) /\ mq \in Seq(T) /\ out \in Seq(T) /\ lo \in Nat /\ lm \in Nat
    BY FlowTypes DEF FlowInv, Data
  <2>4. /\ h = recipe[lo + 1] /\ h \in T /\ lo < Len(recipe)
        /\ Len(mq') = lm - 1 /\ Piece(recipe, mq', lo + 1)
    BY <1>6, <2>1, <2>2, <2>3, PieceTail
  <2>5. Piece(recipe, out', 0) /\ Len(out') = lo + 1
    <3>1. 0 + Len(out) = lo
      BY <2>3
    <3>2. h = recipe[0 + Len(out) + 1] /\ 0 + Len(out) < Len(recipe)
      BY <2>4, <3>1
    <3> HIDE DEF h, T
    <3> QED
      BY <2>1, <2>2, <2>3, <2>4, <3>2, PieceAppend
  <2>6. recvNum = Len(out') + Len(mq')
    <3> HIDE DEF lo, lm
    <3> QED
      BY <2>2, <2>3, <2>4, <2>5
  <2>7. Piece(recipe, mq', Len(out'))
    BY <2>4, <2>5
  <2>8. ClientFlow'
    BY <1>1, <2>1, <2>2, <2>5, <2>6, <2>7 DEF FlowInv, ClientFlow
  <2> QED
    BY <1>3, <2>8
<1> QED
  BY <1>4, <1>5, <1>6 DEF Writer

----------------------------------------------------------------------------
(* The theorems. *)

LEMMA FlowInit == Init => FlowInv
<1> SUFFICES ASSUME Init PROVE FlowInv
  OBVIOUS
<1>1. recipe \in Seq(Chunks) /\ Len(recipe) \in Nat
  BY StoreAssumption DEF Init
<1>2. Piece(recipe, <<>>, 0)
  BY <1>1, PieceEmpty
<1>3. StreamTypes
  <2>1. <<>> \in Data /\ <<>> \in Seq(Message)
    BY DataTyped
  <2> QED
    BY <2>1 DEF Init, StreamTypes
<1>4. ServerFlow
  <2>1. Sent = 0 /\ req.recs = <<>> /\ spc = "ready"
    BY DEF Init, Sent, NoRequest
  <2> QED
    BY <1>2, <2>1 DEF Init, ServerFlow
<1>5. ChanFlow
  BY DEF Init, ChanFlow
<1>6. ClientFlow
  BY <1>2 DEF Init, ClientFlow
<1> QED
  BY <1>3, <1>4, <1>5, <1>6 DEF FlowInv

LEMMA FlowStep == SizesAgree /\ RestoreInv /\ FlowInv /\ [Next]_vars => FlowInv'
<1> SUFFICES ASSUME SizesAgree, RestoreInv, FlowInv, [Next]_vars PROVE FlowInv'
  OBVIOUS
<1>0. StreamTypes /\ ServerFlow /\ ChanFlow /\ ClientFlow
  BY DEF FlowInv
<1>1. StreamTypes'
  BY <1>0, TypesStep
<1>2. CASE Decoder
  <2>1. ServerFlow' /\ (SendsNothing \/ SendsNext)
    BY <1>0, <1>2, DecoderStep
  <2>2. ChanFlow'
    BY <1>0, <1>2, <2>1, ChanDecoder
  <2>3. ClientFlow'
    BY <1>0, <1>2, DecoderFrame, ClientKept
  <2> QED
    BY <1>1, <2>1, <2>2, <2>3 DEF FlowInv
<1>3. CASE LoginResponse \/ Retriever \/ Writer
  <2>1. ServerFlow'
    BY <1>0, <1>3, ServerKept
  <2>2. ChanFlow' /\ ClientFlow'
    BY <1>3, LoginFlow, RecvLoginFlow, RecvMessageFlow, PushChunkFlow, EndFlow, WriterFlow DEF Retriever
  <2> QED
    BY <1>1, <2>1, <2>2 DEF FlowInv
<1>4. CASE UNCHANGED vars
  <2>1. UNCHANGED <<recipe, chan, cpc, recvNum, inbox, last, out, mq, done, wpc, jobDone>>
    BY <1>4 DEF vars, sessVars, retrVars, writeVars
  <2>2. ServerFlow' /\ Sent' = Sent /\ spc' = spc
    BY <1>0, <1>4, ServerKept
  <2>3. ChanFlow'
    BY <1>0, <2>1, <2>2, ChanKept
  <2>4. ClientFlow'
    BY <1>0, <2>1, ClientKept
  <2> QED
    BY <1>1, <2>2, <2>3, <2>4 DEF FlowInv
<1> QED
  BY <1>2, <1>3, <1>4 DEF Next

LEMMA FlowAlways == SizesAgree => (Spec => [](RestoreInv /\ FlowInv))
<1> SUFFICES ASSUME SizesAgree PROVE Spec => [](RestoreInv /\ FlowInv)
  OBVIOUS
<1>1. Init => RestoreInv /\ FlowInv
  BY RestoreInit, FlowInit
<1>2. RestoreInv /\ FlowInv /\ [Next]_vars => (RestoreInv /\ FlowInv)'
  BY RestoreStep, FlowStep
<1> QED
  BY <1>1, <1>2, PTL DEF Spec

\* What is written is correct, chunk by chunk, and whole when both sides
\* are through: under any schedule of the session thread, the decoder, the
\* retriever and the writer, a download implements the safety part of
\* RestoredFile, if readCacheSize_ is the capacity of the cache's map.
THEOREM DownloadInOrder == SizesAgree => (Spec => WritesInOrder)
<1> SUFFICES ASSUME SizesAgree PROVE Spec => WritesInOrder
  OBVIOUS
<1>1. Init => Promise!Init
  BY StoreAssumption DEF Init, Promise!Init
<1>2. RestoreInv /\ FlowInv /\ (RestoreInv /\ FlowInv)' /\ [Next]_vars => [Promise!Next]_(Promise!absVars)
  <2> DEFINE closed == wpc = "closed" /\ spc = "over" /\ cpc = "checked"
  <2> SUFFICES ASSUME RestoreInv, FlowInv, RestoreInv', FlowInv', [Next]_vars
               PROVE  [Promise!Next]_(Promise!absVars)
    OBVIOUS
  <2>1. recipe' = recipe
    <3>1. CASE Decoder
      BY <3>1, DecoderFrame
    <3>2. CASE ~Decoder
      BY <3>2, ServerKept DEF FlowInv, Next
    <3> QED
      BY <3>1, <3>2
  <2>2. closed => closed' /\ out' = out
    BY DEF Next, Decoder, Retriever, Writer, LoginResponse, RecvReady, ReadBatch, QueryFull, ParseEntry,
       ResolveBases, EndBatch, FetchContainer, DecodeEntry, TailBatch, ClientClosed, RecvLogin, RecvMessage,
       PushChunk, MessageDone, SetDone, CheckCount, WriterTest, WriterCheck, WriterPop, vars, decVars, retrVars,
       writeVars
  <2>3. CASE out' # out
    <3>1. WriterPop /\ mq # <<>>
      BY <2>3 DEF Next, Decoder, Retriever, Writer, LoginResponse, RecvReady, ReadBatch, QueryFull, ParseEntry,
         ResolveBases, EndBatch, FetchContainer, DecodeEntry, TailBatch, ClientClosed, RecvLogin, RecvMessage,
         PushChunk, MessageDone, SetDone, CheckCount, WriterTest, WriterPop, vars, writeVars
    <3>2. ~jobDone
      BY <3>1 DEF FlowInv, ClientFlow
    <3>3. out' = Append(out, Head(mq)) /\ wpc = "pop" /\ wpc' = "done"
      BY <3>1, <3>2 DEF WriterPop
    <3>4. Head(mq) = recipe[Len(out) + 1] /\ Len(out) < Len(recipe)
      <4>1. Piece(recipe, mq, Len(out))
        BY DEF FlowInv, ClientFlow
      <4>2. recipe \in Seq(Chunks) /\ mq \in Data /\ Len(out) \in Nat
        BY FlowTypes DEF FlowInv
      <4> QED
        BY <3>1, <4>1, <4>2, PieceTail DEF Data
    <3>5. Promise!WriteNext
      BY <2>1, <3>3, <3>4 DEF Promise!WriteNext
    <3> QED
      BY <3>5 DEF Promise!Next
  <2>4. CASE out' = out /\ closed' /\ ~closed
    <3>1. last' /\ inbox' = <<>> /\ mq' = <<>>
      BY <2>4 DEF FlowInv, ClientFlow
    <3>2. recvNum' = Len(recipe')
      <4>1. chan' = <<>> /\ spc' = "over" /\ cpc' = "checked"
        BY <2>4, <3>1 DEF FlowInv, ChanFlow
      <4>2. Chained(recipe', <<>>, recvNum' + Len(inbox'), Len(recipe'))
        BY <4>1 DEF FlowInv, ChanFlow, Sent
      <4>3. recvNum' \in Nat
        BY DEF FlowInv, StreamTypes
      <4> QED
        BY <3>1, <4>2, <4>3, ChainOver
    <3>3. recvNum' = Len(out') + Len(mq') /\ Piece(recipe', out', 0)
      BY DEF FlowInv, ClientFlow
    <3>4. recipe \in Seq(Chunks) /\ out \in Data /\ Len(out) \in Nat
      BY FlowTypes DEF FlowInv
    <3>5. Len(out) = Len(recipe) /\ Piece(recipe, out, 0)
      BY <2>1, <2>4, <3>1, <3>2, <3>3, <3>4
    <3>6. out = recipe
      BY <3>4, <3>5, PieceWhole DEF Data
    <3>7. Promise!Close
      BY <2>1, <2>4, <3>6 DEF Promise!Close
    <3> QED
      BY <3>7 DEF Promise!Next
  <2>5. CASE out' = out /\ (closed' <=> closed)
    BY <2>1, <2>5 DEF Promise!absVars
  <2> QED
    BY <2>2, <2>3, <2>4, <2>5
<1> QED
  BY <1>1, <1>2, FlowAlways, PTL DEF Spec, WritesInOrder, Promise!Safety

\* A request fits the buffers of containerArray.
LEMMA RequestTyped ==
  ASSUME RequestInv
  PROVE  req \in Request
<1> DEFINE n == Len(req.ids)
<1>1. /\ Sound(req) /\ n + Len(req.query) <= Cap + 1
  BY DEF RequestInv
<1>2. /\ req.ids \in Seq(Containers) /\ req.map \in SlotMaps
      /\ req.query \in Seq(Chunks) /\ req.recs \in Seq(ChunkEntry) /\ req.bases \in Seq(ChunkEntry)
      /\ req = [ids |-> req.ids, map |-> req.map, query |-> req.query, recs |-> req.recs, bases |-> req.bases]
      /\ n \in Nat /\ Len(req.query) \in Nat
  BY <1>1, SoundFields
<1>3. n <= ArraySlots /\ ArraySlots \in Nat
  <2> DEFINE q == Len(req.query)
  <2>1. n + q <= Cap + 1 /\ q \in Nat /\ n \in Nat
    BY <1>1, <1>2
  <2> HIDE DEF n, q
  <2> QED
    BY <2>1, Sizes
<1>4. \A x \in Nat : x < n => x \in Slots
  <2> HIDE DEF n
  <2> QED
    BY <1>2, <1>3 DEF Slots
<1>5. req.ids \in Seq(Names)
  <2>1. Containers \subseteq Names
    BY DEF Names
  <2> QED
    BY <1>2, <2>1
<1>6. req.map \in UNION {[D -> Slots] : D \in SUBSET Names}
  <2>1. PICK D \in SUBSET Containers : req.map \in [D -> Nat]
    BY <1>2 DEF SlotMaps
  <2>2. \A k \in D : req.map[k] \in Slots
    BY <1>1, <1>4, <2>1 DEF Sound, Linked
  <2>3. req.map \in [D -> Slots] /\ D \in SUBSET Names
    BY <2>1, <2>2 DEF Names
  <2> QED
    BY <2>3
<1>7. ASSUME NEW s \in Seq(ChunkEntry), \A i \in 1..Len(s) : SlotOf(s[i], req.ids)
      PROVE  s \in Seq(Entry)
  <2>1. ASSUME NEW i \in 1..Len(s) PROVE s[i] \in Entry
    <3>1. s[i] \in ChunkEntry
      BY ElementOfSeq
    <3>2. s[i].slot \in Slots
      BY <1>4, <1>7, <3>1 DEF SlotOf, ChunkEntry
    <3> QED
      BY <3>1, <3>2 DEF ChunkEntry, Entry, Items
  <2>2. s = [i \in 1..Len(s) |-> s[i]] /\ Len(s) \in Nat
    OBVIOUS
  <2>3. s \in [1..Len(s) -> Entry]
    BY <2>1, <2>2
  <2> QED
    BY <2>2, <2>3, SeqDef
<1>8. req.recs \in Seq(Entry) /\ req.bases \in Seq(Entry)
  BY <1>1, <1>2, <1>7 DEF Sound, Linked
<1> QED
  BY <1>2, <1>5, <1>6, <1>8 DEF Request

\* Type correctness of a download: no slot of an entry lies outside
\* containerArray, no index of the cache outside containerPool_, and every
\* message and queue carries chunks, for every two sizes of the cache.
THEOREM DownloadTypes == Spec => []TypeOK
<1>1. RestoreInv /\ StreamTypes => TypeOK
  <2> SUFFICES ASSUME RestoreInv, StreamTypes PROVE TypeOK
    OBVIOUS
  <2>1. req \in Request
    BY RequestTyped DEF RestoreInv
  <2>2. batch \in Seq(Items)
    <3>1. batch \in Seq(Chunks) /\ Chunks \subseteq Items
      BY DEF RestoreInv, LoopInv, Items
    <3> QED
      BY <3>1
  <2>3. got \in 0..ArraySlots
    <3> DEFINE n == Len(req.ids)
    <3>1. got \in Nat /\ (spc = "fetch" => got < n) /\ (spc # "fetch" => got = 0)
      BY DEF RestoreInv, LoopInv
    <3>2. Len(req.ids) \in Nat /\ Len(req.query) \in Nat /\ Len(req.ids) + Len(req.query) <= Cap + 1
      BY SoundFields DEF RestoreInv, RequestInv
    <3> DEFINE q == Len(req.query)
    <3> HIDE DEF n, q
    <3>3. n \in Nat /\ q \in Nat /\ n + q <= Cap + 1
      BY <3>2 DEF n, q
    <3> QED
      BY <3>1, <3>3, Sizes
  <2>4. keys \in Seq(Key) /\ pool \in [0..PoolSize - 1 -> Names] /\ nextIdx \in 0..PoolSize
    BY DEF RestoreInv, CacheInv
  <2>5. arr \in [Slots -> Names] /\ dec \in Nat /\ bidx \in Nat
    BY DEF RestoreInv, LoopInv
  <2> QED
    BY <2>1, <2>2, <2>3, <2>4, <2>5 DEF RestoreInv, HandInv, SessTypes, StreamTypes, TypeOK
<1>2. Init => RestoreInv /\ StreamTypes
  BY RestoreInit, FlowInit DEF FlowInv
<1>3. RestoreInv /\ StreamTypes /\ [Next]_vars => (RestoreInv /\ StreamTypes)'
  BY RestoreStep, TypesStep
<1> QED
  BY <1>1, <1>2, <1>3, PTL DEF Spec

=============================================================================
