------------------------ MODULE EventStream_proofs ------------------------
(***************************************************************************)
(* Proofs about EventStream: for every set of streams, every size of a      *)
(* read and every capacity of the channel, no byte is lost, no frame is     *)
(* held back, the source is released, and the decoder implements            *)
(* FrameReader.                                                             *)
(***************************************************************************)
EXTENDS EventStream, SequenceTheorems, TLAPS

Frames == stream.frames

\* The first byte behind the frames delivered.
Frontier == IF out = 0 THEN 0 ELSE Frames[out].from + Frames[out].len

\* The iterator's flags, the generator's place and the phase agree.
IteratorAgrees ==
  /\ gen \in {"pull", "parse", "yielded"} => started /\ ~stopped
  /\ gen \in {"pull", "parse"} => ~over
  /\ gen = "fresh" => ~started /\ available = 0
  /\ gen # "finished" /\ ~stopped /\ ~over => phase = "open" /\ ~closed

\* Nothing is known of a byte that has not been read.
WithinRead ==
  /\ out \in 0..Len(Frames)
  /\ base + available <= read
  /\ \A k \in DOMAIN queue : queue[k].from + queue[k].len <= read
  /\ holding.from + holding.len <= read

IndInv ==
  TypeOK /\ IteratorAgrees /\ WithinRead /\ NoByteLost /\ NothingHeldBack /\ SourceIsReleased

-----------------------------------------------------------------------------
\* The frame that starts behind the first k frames is frame k + 1.
LEMMA FrameAtFrontier ==
  ASSUME NEW s \in Streams, NEW k \in 0..Len(s.frames), NEW i \in DOMAIN s.frames,
         s.frames[i].from = IF k = 0 THEN 0 ELSE s.frames[k].from + s.frames[k].len
  PROVE  i = k + 1
<1> DEFINE F == s.frames
<1>1. /\ F \in Seq([from : Nat, len : Nat, flaw : Flaws])
      /\ \A a \in DOMAIN F :
           /\ F[a].len >= PreludeLen
           /\ F[a].from = IF a = 1 THEN 0 ELSE F[a - 1].from + F[a - 1].len
           /\ \A b \in 1..(a - 1) : F[b].from + F[b].len <= F[a].from
  BY StreamAssumption
<1>2. PreludeLen \in Nat /\ PreludeLen > 0
  BY SizeAssumption
<1>3. DOMAIN F = 1..Len(F) /\ Len(F) \in Nat /\ i \in 1..Len(F)
  BY <1>1
<1>4. \A a \in 1..Len(F) : F[a].from \in Nat /\ F[a].len \in Nat /\ F[a].len > 0
  <2> TAKE a \in 1..Len(F)
  <2>1. F[a] \in [from : Nat, len : Nat, flaw : Flaws]
    BY <1>1, <1>3, ElementOfSeq
  <2>2. F[a].len >= PreludeLen
    BY <1>1, <1>3
  <2> QED
    <3> HIDE DEF F
    <3> QED BY <2>1, <2>2, <1>2
<1> HIDE DEF F
<1>5. F[i].from = IF k = 0 THEN 0 ELSE F[k].from + F[k].len
  BY DEF F
<1>6. k \in 0..Len(F)
  BY DEF F
<1>7. CASE i <= k
  <2>1. F[i].from + F[i].len <= F[k].from + F[k].len
    <3>1. CASE i = k
      BY <3>1, <1>3, <1>4
    <3>2. CASE i < k
      <4>1. F[i].from + F[i].len <= F[k].from
        <5>1. i \in 1..(k - 1) /\ k \in DOMAIN F
          BY <3>2, <1>3, <1>6
        <5> QED BY <5>1, <1>1
      <4> QED BY <4>1, <1>3, <1>4, <1>6, <1>7
    <3> QED BY <3>1, <3>2, <1>3, <1>6, <1>7
  <2> QED BY <2>1, <1>3, <1>4, <1>5, <1>6, <1>7
<1>8. CASE i > k + 1
  <2>1. k + 1 \in 1..(i - 1) /\ k + 1 \in 1..Len(F)
    BY <1>8, <1>3, <1>6
  <2>2. F[k + 1].from + F[k + 1].len <= F[i].from
    BY <2>1, <1>1, <1>3
  <2>3. F[k + 1].from = IF k = 0 THEN 0 ELSE F[k].from + F[k].len
    <3>1. F[k + 1].from = IF k + 1 = 1 THEN 0 ELSE F[(k + 1) - 1].from + F[(k + 1) - 1].len
      BY <2>1, <1>1, <1>3
    <3> QED BY <3>1, <1>6, (k + 1) - 1 = k
  <2> QED BY <2>1, <2>2, <2>3, <1>4, <1>5, <1>3
<1> QED BY <1>7, <1>8, <1>3, <1>6

\* Frames have their types, whatever stream was chosen.
LEMMA FrameTypes ==
  ASSUME stream \in Streams
  PROVE  /\ Frames \in Seq([from : Nat, len : Nat, flaw : Flaws])
         /\ Len(Frames) \in Nat /\ DOMAIN Frames = 1..Len(Frames)
         /\ \A i \in DOMAIN Frames :
              Frames[i].from \in Nat /\ Frames[i].len \in Nat /\ Frames[i].len >= PreludeLen
         /\ stream.size \in Nat
<1>1. /\ Frames \in Seq([from : Nat, len : Nat, flaw : Flaws])
      /\ \A i \in DOMAIN Frames : Frames[i].len >= PreludeLen
      /\ stream.size \in Nat
  BY StreamAssumption DEF Frames
<1> HIDE DEF Frames
<1>2. DOMAIN Frames = 1..Len(Frames) /\ Len(Frames) \in Nat
  BY <1>1
<1>3. \A i \in DOMAIN Frames : Frames[i] \in [from : Nat, len : Nat, flaw : Flaws]
  BY <1>1, <1>2, ElementOfSeq
<1>4. \A i \in DOMAIN Frames :
        Frames[i].from \in Nat /\ Frames[i].len \in Nat /\ Frames[i].len >= PreludeLen
  <2> TAKE i \in DOMAIN Frames
  <2>1. Frames[i] \in [from : Nat, len : Nat, flaw : Flaws] /\ Frames[i].len >= PreludeLen
    BY <1>1, <1>3
  <2> QED BY <2>1
<1> QED BY <1>1, <1>2, <1>4

-----------------------------------------------------------------------------
LEMMA InitIndInv == Init => IndInv
<1> SUFFICES ASSUME Init PROVE IndInv
  OBVIOUS
<1>1. TypeOK
  <2>1. NoItem \in Item /\ <<>> \in Seq(Item)
    BY DEF NoItem, Item
  <2> QED BY <2>1 DEF Init, TypeOK
<1>2. IteratorAgrees /\ SourceIsReleased /\ NothingHeldBack
  BY DEF Init, IteratorAgrees, SourceIsReleased, NothingHeldBack
<1>3. WithinRead
  BY FrameTypes DEF Init, WithinRead, NoItem
<1>4. NoByteLost
  BY DEF Init, NoByteLost, AtFrontier, QueueFollows, HeldFollows, Start
<1> QED BY <1>1, <1>2, <1>3, <1>4 DEF IndInv

\* What the channel holds has its type.
LEMMA QueueTypes ==
  ASSUME TypeOK
  PROVE  /\ Len(queue) \in Nat /\ DOMAIN queue = 1..Len(queue)
         /\ \A k \in DOMAIN queue : queue[k].from \in Nat /\ queue[k].len \in Nat
         /\ holding.from \in Nat /\ holding.len \in Nat
         /\ \A k \in 1..(Len(queue) + 1) : Start(k) \in Nat
<1>1. queue \in Seq(Item) /\ holding \in Item /\ base \in Nat /\ available \in Nat
  BY DEF TypeOK
<1>2. Len(queue) \in Nat /\ DOMAIN queue = 1..Len(queue)
  BY <1>1
<1>3. \A k \in DOMAIN queue : queue[k] \in Item
  BY <1>1, <1>2, ElementOfSeq
<1>4. \A k \in DOMAIN queue : queue[k].from \in Nat /\ queue[k].len \in Nat
  BY <1>3 DEF Item
<1>5. holding.from \in Nat /\ holding.len \in Nat
  BY <1>1 DEF Item
<1>6. \A k \in 1..(Len(queue) + 1) : Start(k) \in Nat
  <2> TAKE k \in 1..(Len(queue) + 1)
  <2>1. CASE k = 1
    BY <2>1, <1>1 DEF Start
  <2>2. CASE k # 1
    <3>1. k - 1 \in DOMAIN queue
      BY <2>2, <1>2
    <3> QED BY <3>1, <2>2, <1>4 DEF Start
  <2> QED BY <2>1, <2>2
<1> QED BY <1>2, <1>4, <1>5, <1>6

\* The reader leaves the decoder alone.
LEMMA ReaderKeepsDecoder ==
  ASSUME IndInv, UNCHANGED <<stream, closed, decoder, over>>
  PROVE  /\ IteratorAgrees' /\ NothingHeldBack' /\ SourceIsReleased' /\ AtFrontier'
         /\ stream' \in Streams /\ out' \in 0..Len(Frames')
<1>1. IteratorAgrees' /\ SourceIsReleased' /\ AtFrontier'
  BY DEF IndInv, IteratorAgrees, SourceIsReleased, NoByteLost, AtFrontier, decoder
<1>2. NothingHeldBack'
  BY DEF IndInv, NothingHeldBack, At, decoder
<1>3. stream' \in Streams /\ out' \in 0..Len(Frames')
  BY DEF IndInv, TypeOK, WithinRead, Frames, decoder
<1> QED BY <1>1, <1>2, <1>3

LEMMA ReadSomeStep ==
  ASSUME IndInv, NEW n \in Sizes, ReadSome(n)
  PROVE  IndInv'
<1> n \in Nat /\ n > 0
  BY SizeAssumption
<1>1. IteratorAgrees' /\ NothingHeldBack' /\ SourceIsReleased' /\ AtFrontier' /\ out' \in 0..Len(Frames')
  BY ReaderKeepsDecoder DEF ReadSome
<1>2. TypeOK'
  BY DEF IndInv, TypeOK, ReadSome, Item, decoder
<1>3. WithinRead'
  BY <1>1, QueueTypes DEF IndInv, TypeOK, WithinRead, ReadSome, decoder
<1>4. ~closed' => QueueFollows' /\ HeldFollows'
  <2> SUFFICES ASSUME ~closed PROVE QueueFollows' /\ HeldFollows'
    BY DEF ReadSome
  <2>1. QueueFollows /\ HeldFollows /\ reader = "reading"
    BY DEF IndInv, NoByteLost, ReadSome
  <2>2. \A k \in 1..(Len(queue) + 1) : Start(k)' = Start(k)
    BY DEF Start, ReadSome, decoder
  <2>3. QueueFollows'
    BY <2>1, <2>2, QueueTypes DEF IndInv, QueueFollows, ReadSome, broken
  <2>4. HeldFollows'
    BY <2>1, <2>2, QueueTypes DEF IndInv, HeldFollows, ReadSome, broken
  <2> QED BY <2>3, <2>4
<1> QED BY <1>1, <1>2, <1>3, <1>4 DEF IndInv, NoByteLost

LEMMA ReadFailsStep ==
  ASSUME IndInv, ReadFails
  PROVE  IndInv'
<1>1. IteratorAgrees' /\ NothingHeldBack' /\ SourceIsReleased' /\ AtFrontier' /\ out' \in 0..Len(Frames')
  BY ReaderKeepsDecoder DEF ReadFails
<1>2. TypeOK'
  BY DEF IndInv, TypeOK, ReadFails, Item, NoItem, decoder
<1>3. WithinRead'
  BY <1>1 DEF IndInv, TypeOK, WithinRead, ReadFails, NoItem, decoder
<1>4. ~closed' => QueueFollows' /\ HeldFollows'
  <2> SUFFICES ASSUME ~closed PROVE QueueFollows' /\ HeldFollows'
    BY DEF ReadFails
  <2>1. QueueFollows /\ HeldFollows /\ reader = "reading"
    BY DEF IndInv, NoByteLost, ReadFails
  <2>2. \A k \in 1..(Len(queue) + 1) : Start(k)' = Start(k)
    BY DEF Start, ReadFails, decoder
  <2>3. QueueFollows'
    BY <2>1, <2>2, QueueTypes DEF IndInv, QueueFollows, ReadFails, broken
  <2>4. HeldFollows'
    BY <2>1, <2>2, QueueTypes DEF IndInv, HeldFollows, ReadFails, broken, NoItem
  <2> QED BY <2>3, <2>4
<1> QED BY <1>1, <1>2, <1>3, <1>4 DEF IndInv, NoByteLost

LEMMA ReadEOFStep ==
  ASSUME IndInv, ReadEOF
  PROVE  IndInv'
<1>1. IteratorAgrees' /\ NothingHeldBack' /\ SourceIsReleased' /\ AtFrontier' /\ out' \in 0..Len(Frames')
  BY ReaderKeepsDecoder DEF ReadEOF
<1>2. TypeOK'
  BY DEF IndInv, TypeOK, ReadEOF, decoder
<1>3. WithinRead'
  BY <1>1 DEF IndInv, WithinRead, ReadEOF, decoder
<1>4. ~closed' => QueueFollows' /\ HeldFollows'
  <2> SUFFICES ASSUME ~closed PROVE QueueFollows' /\ HeldFollows'
    BY DEF ReadEOF
  <2>1. QueueFollows /\ HeldFollows /\ reader = "reading"
    BY DEF IndInv, NoByteLost, ReadEOF
  <2>2. \A k \in 1..(Len(queue) + 1) : Start(k)' = Start(k)
    BY DEF Start, ReadEOF, decoder
  <2>3. QueueFollows'
    BY <2>1, <2>2, QueueTypes DEF IndInv, QueueFollows, ReadEOF, broken
  <2>4. HeldFollows'
    BY <2>1, <2>2, QueueTypes DEF IndInv, HeldFollows, ReadEOF, broken
  <2> QED BY <2>3, <2>4
<1> QED BY <1>1, <1>2, <1>3, <1>4 DEF IndInv, NoByteLost

LEMMA StopSendingStep ==
  ASSUME IndInv, StopSending
  PROVE  IndInv'
<1>1. IteratorAgrees' /\ NothingHeldBack' /\ SourceIsReleased' /\ AtFrontier' /\ out' \in 0..Len(Frames')
  BY ReaderKeepsDecoder DEF StopSending
<1>2. TypeOK'
  BY DEF IndInv, TypeOK, StopSending, Item, NoItem, decoder
<1>3. WithinRead'
  BY <1>1 DEF IndInv, TypeOK, WithinRead, StopSending, NoItem, decoder
<1>4. closed'
  BY DEF StopSending
<1> QED BY <1>1, <1>2, <1>3, <1>4 DEF IndInv, NoByteLost

LEMMA SendItemStep ==
  ASSUME IndInv, SendItem
  PROVE  IndInv'
<1>1. IteratorAgrees' /\ NothingHeldBack' /\ SourceIsReleased' /\ AtFrontier' /\ out' \in 0..Len(Frames')
  BY ReaderKeepsDecoder DEF SendItem
<1>2. /\ queue \in Seq(Item) /\ holding \in Item /\ queue' = Append(queue, holding)
      /\ reader = "sending" /\ NoItem \in Item
  BY DEF IndInv, TypeOK, SendItem, NoItem, Item
<1>3. /\ Len(queue') = Len(queue) + 1 /\ DOMAIN queue' = 1..(Len(queue) + 1)
      /\ \A k \in 1..Len(queue) : queue'[k] = queue[k]
      /\ queue'[Len(queue) + 1] = holding
      /\ queue' \in Seq(Item)
  BY <1>2, AppendProperties
<1>4. TypeOK'
  BY <1>2, <1>3 DEF IndInv, TypeOK, SendItem, decoder
<1>5. WithinRead'
  <2>1. \A k \in DOMAIN queue' : queue'[k].from + queue'[k].len <= read'
    BY <1>3, QueueTypes DEF IndInv, WithinRead, SendItem
  <2>2. holding'.from + holding'.len <= read'
    BY DEF IndInv, TypeOK, SendItem, NoItem
  <2> QED BY <1>1, <2>1, <2>2 DEF IndInv, WithinRead, SendItem, decoder
<1>6. ~closed' => QueueFollows' /\ HeldFollows'
  <2> SUFFICES ASSUME ~closed PROVE QueueFollows' /\ HeldFollows'
    BY DEF SendItem
  <2>1. QueueFollows /\ HeldFollows
    BY DEF IndInv, NoByteLost
  <2>2. \A k \in 1..(Len(queue) + 1) : Start(k)' = Start(k)
    <3> TAKE k \in 1..(Len(queue) + 1)
    <3>1. CASE k = 1
      BY <3>1 DEF Start, SendItem, decoder
    <3>2. CASE k # 1
      <4>1. k - 1 \in 1..Len(queue)
        BY <3>2, QueueTypes DEF IndInv
      <4> QED BY <4>1, <3>2, <1>3 DEF Start
    <3> QED BY <3>1, <3>2
  <2>3. Start(Len(queue) + 1)' = holding.from + holding.len
    <3>1. (Len(queue) + 1)' = Len(queue) + 2 /\ Len(queue) + 2 # 1
      BY <1>3, QueueTypes DEF IndInv
    <3>2. (Len(queue) + 2) - 1 = Len(queue) + 1
      BY QueueTypes DEF IndInv
    <3> QED BY <3>1, <3>2, <1>3 DEF Start
  <2>4. \A k \in 1..Len(queue) : ~broken(queue[k]) /\ queue[k].from = Start(k)
    BY <2>1, <1>2, QueueTypes DEF IndInv, QueueFollows
  <2>5. CASE broken(holding)
    <3>1. reader' = "ended" /\ read' = read /\ read = Start(Len(queue) + 1)
      <4>1. ~broken(queue[Len(queue)]) \/ queue = <<>>
        BY <2>4, QueueTypes, <1>2 DEF IndInv
      <4> QED BY <4>1, <2>5, <2>1, <1>2 DEF HeldFollows, SendItem
    <3>2. QueueFollows'
      BY <3>1, <2>2, <2>4, <2>5, <1>3, QueueTypes DEF IndInv, QueueFollows, broken
    <3>3. HeldFollows'
      BY <3>1, <2>5, <1>3, <1>2, QueueTypes DEF IndInv, HeldFollows, broken
    <3> QED BY <3>2, <3>3
  <2>6. CASE ~broken(holding)
    <3>1. /\ reader' = "reading" /\ read' = read
          /\ holding.from = Start(Len(queue) + 1) /\ read = holding.from + holding.len
      BY <2>6, <2>1, <1>2 DEF HeldFollows, SendItem
    <3>2. QueueFollows'
      BY <3>1, <2>2, <2>4, <2>6, <1>3, QueueTypes DEF IndInv, QueueFollows, broken
    <3>3. HeldFollows'
      BY <3>1, <2>3 DEF HeldFollows
    <3> QED BY <3>2, <3>3
  <2> QED BY <2>5, <2>6
<1> QED BY <1>1, <1>4, <1>5, <1>6 DEF IndInv, NoByteLost

-----------------------------------------------------------------------------
(* The generator *)

\* While the generator runs, the source is open and so the bytes are in place.
LEMMA RunningIsOpen ==
  ASSUME IndInv, gen \in {"pull", "parse"}
  PROVE  /\ ~closed /\ ~stopped /\ ~over /\ started /\ phase = "open"
         /\ AtFrontier /\ QueueFollows /\ HeldFollows
BY DEF IndInv, IteratorAgrees, NoByteLost

\* A failure closes the source, after which nothing is asked of the bytes.
LEMMA FailStep ==
  ASSUME IndInv, gen \in {"pull", "parse"}, Fail,
         UNCHANGED <<stream, read, reader, holding, over>>,
         queue' = queue \/ (queue # <<>> /\ queue' = Tail(queue))
  PROVE  IndInv'
<1>1. queue \in Seq(Item)
  BY DEF IndInv, TypeOK
<1>2. queue' \in Seq(Item) /\ \A k \in DOMAIN queue' : \E j \in DOMAIN queue : queue'[k] = queue[j]
  <2>1. CASE queue' = queue
    BY <2>1, <1>1
  <2>2. CASE queue # <<>> /\ queue' = Tail(queue)
    <3>1. /\ Tail(queue) \in Seq(Item) /\ Len(Tail(queue)) = Len(queue) - 1
          /\ \A k \in 1..Len(Tail(queue)) : Tail(queue)[k] = queue[k + 1]
      BY <2>2, <1>1, HeadTailProperties
    <3>2. DOMAIN queue = 1..Len(queue) /\ Len(queue) \in Nat
      BY <1>1
    <3>3. DOMAIN Tail(queue) = 1..Len(Tail(queue))
      BY <3>1
    <3>4. \A k \in DOMAIN Tail(queue) : k + 1 \in DOMAIN queue /\ Tail(queue)[k] = queue[k + 1]
      BY <3>1, <3>2, <3>3
    <3> QED BY <3>1, <3>4, <2>2
  <2> QED BY <2>1, <2>2
<1>3. TypeOK'
  BY <1>2 DEF IndInv, TypeOK, Fail
<1>4. WithinRead'
  <2>1. \A k \in DOMAIN queue' : queue'[k].from + queue'[k].len <= read'
    BY <1>2 DEF IndInv, WithinRead
  <2> QED BY <2>1 DEF IndInv, WithinRead, Fail, Frames
<1>5. IteratorAgrees' /\ SourceIsReleased' /\ NothingHeldBack' /\ closed'
  BY DEF Fail, IteratorAgrees, SourceIsReleased, NothingHeldBack
<1>6. AtFrontier'
  BY DEF IndInv, NoByteLost, AtFrontier, Fail
<1> QED BY <1>3, <1>4, <1>5, <1>6 DEF IndInv, NoByteLost

LEMMA PullChunkStep ==
  ASSUME IndInv, PullChunk
  PROVE  IndInv'
<1>1. /\ ~closed /\ ~stopped /\ ~over /\ started /\ phase = "open"
      /\ AtFrontier /\ QueueFollows /\ HeldFollows
  BY RunningIsOpen DEF PullChunk
<1>2. queue \in Seq(Item) /\ queue # <<>> /\ queue' = Tail(queue) /\ Len(queue) >= 1
  BY DEF IndInv, TypeOK, PullChunk
<1>3. /\ queue' \in Seq(Item) /\ Len(queue') = Len(queue) - 1
      /\ DOMAIN queue' = 1..(Len(queue) - 1)
      /\ \A k \in 1..(Len(queue) - 1) : queue'[k] = queue[k + 1]
      /\ Head(queue) = queue[1]
  BY <1>2, HeadTailProperties
<1>4. /\ 1 \in DOMAIN queue /\ Start(1) = base + available
      /\ queue[1].from = base + available /\ ~broken(queue[1])
      /\ available' = available + queue[1].len
  <2>1. 1 \in DOMAIN queue /\ Start(1) = base + available
    BY <1>2, QueueTypes DEF IndInv, Start
  <2>2. ~broken(queue[1]) /\ available' = available + queue[1].len
    BY <1>3 DEF PullChunk
  <2>3. queue[1].from = Start(1)
    BY <1>1, <2>1, <2>2 DEF QueueFollows
  <2> QED BY <2>1, <2>2, <2>3
<1>5. base + available' = queue[1].from + queue[1].len /\ base \in Nat /\ available \in Nat
  BY <1>4, QueueTypes DEF IndInv, TypeOK
<1>6. TypeOK'
  BY <1>3, <1>4, QueueTypes DEF IndInv, TypeOK, PullChunk
<1>7. IteratorAgrees' /\ SourceIsReleased' /\ NothingHeldBack' /\ AtFrontier'
  BY <1>1 DEF PullChunk, IteratorAgrees, SourceIsReleased, NothingHeldBack, AtFrontier
<1>8. WithinRead'
  <2>1. \A k \in DOMAIN queue' : queue'[k].from + queue'[k].len <= read'
    <3> TAKE k \in DOMAIN queue'
    <3>1. k + 1 \in DOMAIN queue /\ queue'[k] = queue[k + 1]
      BY <1>3, QueueTypes DEF IndInv
    <3> QED BY <3>1 DEF IndInv, WithinRead, PullChunk
  <2>2. base + available' <= read
    BY <1>4, <1>5 DEF IndInv, WithinRead
  <2> QED BY <2>1, <2>2 DEF IndInv, WithinRead, PullChunk, Frames
<1>9. \A k \in 1..Len(queue) : Start(k)' = Start(k + 1)
  <2> TAKE k \in 1..Len(queue)
  <2>1. CASE k = 1
    BY <2>1, <1>5 DEF Start, PullChunk
  <2>2. CASE k # 1
    <3>1. k - 1 \in 1..(Len(queue) - 1) /\ (k - 1) + 1 = k /\ (k + 1) - 1 = k /\ k + 1 # 1
      BY <2>2, QueueTypes DEF IndInv
    <3>2. queue'[k - 1] = queue[k]
      BY <3>1, <1>3
    <3> QED BY <3>1, <3>2, <2>2 DEF Start
  <2> QED BY <2>1, <2>2
<1>10. QueueFollows'
  <2>1. \A k \in DOMAIN queue' :
          IF broken(queue'[k])
          THEN k = Len(queue') /\ reader' = "ended" /\ read' = Start(k)'
          ELSE queue'[k].from = Start(k)'
    <3> TAKE k \in DOMAIN queue'
    <3>1. /\ k + 1 \in DOMAIN queue /\ k \in 1..Len(queue) /\ queue'[k] = queue[k + 1]
          /\ k + 1 = Len(queue) => k = Len(queue')
      BY <1>3, QueueTypes DEF IndInv
    <3>2. Start(k)' = Start(k + 1)
      BY <3>1, <1>9
    <3>3. IF broken(queue[k + 1])
          THEN k + 1 = Len(queue) /\ reader = "ended" /\ read = Start(k + 1)
          ELSE queue[k + 1].from = Start(k + 1)
      BY <3>1, <1>1 DEF QueueFollows
    <3>4. reader' = reader /\ read' = read
      BY DEF PullChunk
    <3> QED BY <3>1, <3>2, <3>3, <3>4
  <2> QED BY <2>1 DEF QueueFollows, broken
<1>11. HeldFollows'
  <2>1. (Len(queue) + 1)' = Len(queue)
    BY <1>3, QueueTypes DEF IndInv
  <2>2. Start(Len(queue) + 1)' = Start(Len(queue) + 1)
    <3>1. Len(queue) \in 1..Len(queue)
      BY <1>2, QueueTypes DEF IndInv
    <3>2. \A k : k = Len(queue) => Start(k)' = Start(k + 1)
      BY <3>1, <1>9
    <3> QED BY <2>1, <3>2 DEF Start
  <2>3. queue # <<>> /\ broken(queue[Len(queue)]) => queue' # <<>> /\ broken(queue'[Len(queue')])
    <3> SUFFICES ASSUME broken(queue[Len(queue)]) PROVE queue' # <<>> /\ broken(queue'[Len(queue')])
      OBVIOUS
    <3>1. Len(queue) # 1
      BY <1>4
    <3>2. Len(queue') \in 1..(Len(queue) - 1) /\ Len(queue') + 1 = Len(queue)
      BY <3>1, <1>2, <1>3, QueueTypes DEF IndInv
    <3>3. queue'[Len(queue')] = queue[Len(queue)]
      BY <3>2, <1>3
    <3> QED BY <3>2, <3>3, <1>3 DEF broken
  <2>4. reader' = reader /\ holding' = holding /\ read' = read
    BY DEF PullChunk
  <2> QED BY <1>1, <2>2, <2>3, <2>4 DEF HeldFollows, broken
<1> QED BY <1>6, <1>7, <1>8, <1>10, <1>11 DEF IndInv, NoByteLost

LEMMA PullEndStep ==
  ASSUME IndInv, PullEnd
  PROVE  IndInv'
<1>1. CASE available # 0
  <2>1. Fail /\ gen = "pull" /\ UNCHANGED <<stream, read, reader, holding, over>> /\ queue' = queue
    BY <1>1 DEF PullEnd, net
  <2> QED BY <2>1, FailStep
<1>2. CASE available = 0
  <2>1. /\ gen' = "finished" /\ phase' = "ended" /\ closed'
        /\ UNCHANGED <<stream, net, over, base, available, out, started, stopped>>
    BY <1>2 DEF PullEnd
  <2>2. TypeOK' /\ WithinRead' /\ AtFrontier'
    BY <2>1 DEF IndInv, TypeOK, WithinRead, NoByteLost, AtFrontier, net, Frames
  <2>3. IteratorAgrees' /\ SourceIsReleased' /\ NothingHeldBack'
    BY <2>1 DEF IteratorAgrees, SourceIsReleased, NothingHeldBack
  <2> QED BY <2>1, <2>2, <2>3 DEF IndInv, NoByteLost
<1> QED BY <1>1, <1>2

LEMMA PullThrowsStep ==
  ASSUME IndInv, PullThrows
  PROVE  IndInv'
BY FailStep DEF PullThrows

\* Steps that take no byte, leave the source as it is and deliver nothing.
LEMMA BytesUntouched ==
  ASSUME IndInv, UNCHANGED <<stream, net, base, available, out>>, closed => closed'
  PROVE  WithinRead' /\ NoByteLost'
<1>1. WithinRead'
  BY DEF IndInv, WithinRead, net, Frames
<1>2. AtFrontier' /\ (QueueFollows => QueueFollows') /\ (HeldFollows => HeldFollows')
  BY DEF IndInv, NoByteLost, AtFrontier, QueueFollows, HeldFollows, Start, net, broken
<1> QED BY <1>1, <1>2 DEF IndInv, NoByteLost

LEMMA NeedMoreStep ==
  ASSUME IndInv, NeedMore
  PROVE  IndInv'
<1>1. WithinRead' /\ NoByteLost'
  BY BytesUntouched DEF NeedMore
<1>2. TypeOK' /\ IteratorAgrees' /\ SourceIsReleased'
  BY RunningIsOpen DEF IndInv, TypeOK, IteratorAgrees, SourceIsReleased, NeedMore, net
<1>3. NothingHeldBack'
  BY SizeAssumption DEF IndInv, TypeOK, NeedMore, NothingHeldBack, At
<1> QED BY <1>1, <1>2, <1>3 DEF IndInv

\* The frame that is parsed is the next one to deliver.
LEMMA ParsedIsNext ==
  ASSUME IndInv, NEW i \in DOMAIN stream.frames, gen = "parse", At(i)
  PROVE  i = out + 1
<1>1. stream \in Streams /\ out \in 0..Len(stream.frames)
  BY DEF IndInv, TypeOK, WithinRead, Frames
<1>2. stream.frames[i].from = IF out = 0 THEN 0 ELSE stream.frames[out].from + stream.frames[out].len
  BY RunningIsOpen DEF AtFrontier, At
<1> QED BY <1>1, <1>2, FrameAtFrontier

LEMMA ParseStep ==
  ASSUME IndInv, NEW i \in DOMAIN stream.frames, Parse(i)
  PROVE  IndInv'
<1> DEFINE f == stream.frames[i]
<1>1. gen = "parse" /\ At(i) /\ UNCHANGED <<stream, net, over>>
  BY DEF Parse
<1>2. i = out + 1
  BY <1>1, ParsedIsNext
<1>3. /\ ~closed /\ ~stopped /\ ~over /\ started /\ phase = "open"
      /\ AtFrontier /\ QueueFollows /\ HeldFollows
  BY <1>1, RunningIsOpen
<1>4. f.from \in Nat /\ f.len \in Nat /\ Len(Frames) \in Nat /\ i \in 1..Len(Frames)
  BY FrameTypes DEF IndInv, TypeOK, Frames
<1>5. CASE Fail
  BY <1>5, <1>1, FailStep DEF net
<1>6. CASE /\ ~PreludeFlawed(f) /\ available < f.len
           /\ gen' = "pull"
           /\ UNCHANGED <<base, available, out, started, stopped, phase, closed>>
  <2>1. WithinRead' /\ NoByteLost'
    BY <1>1, <1>6, BytesUntouched
  <2>2. TypeOK' /\ IteratorAgrees' /\ SourceIsReleased'
    BY <1>1, <1>3, <1>6 DEF IndInv, TypeOK, IteratorAgrees, SourceIsReleased, net
  <2>3. NothingHeldBack'
    <3> SUFFICES ASSUME NEW j \in DOMAIN stream.frames, At(j)
                 PROVE  ~PreludeFlawed(stream.frames[j]) /\ available < stream.frames[j].len
      BY <1>1, <1>6 DEF NothingHeldBack, At, PreludeFlawed
    <3>1. j = i
      BY <1>1, <1>2, ParsedIsNext
    <3> QED BY <3>1, <1>6
  <2> QED BY <2>1, <2>2, <2>3 DEF IndInv
<1>7. CASE /\ f.flaw = "none" /\ available >= f.len /\ CutOut(i)
           /\ gen' = "yielded"
           /\ UNCHANGED <<started, stopped, phase, closed>>
  <2>1. /\ out' = i /\ base' = base + f.len /\ available' = available - f.len
        /\ base \in Nat /\ available \in Nat /\ base' \in Nat /\ available' \in Nat
        /\ base' + available' = base + available
    BY <1>7, <1>4 DEF CutOut, IndInv, TypeOK
  <2>2. TypeOK' /\ IteratorAgrees' /\ SourceIsReleased' /\ NothingHeldBack'
    BY <1>1, <1>3, <1>7, <2>1, <1>4
    DEF IndInv, TypeOK, IteratorAgrees, SourceIsReleased, NothingHeldBack, net
  <2>3. WithinRead'
    BY <1>1, <2>1, <1>4 DEF IndInv, WithinRead, net, Frames
  <2>4. AtFrontier'
    BY <1>1, <2>1, <1>4 DEF AtFrontier, At, Frames
  <2>5. QueueFollows' /\ HeldFollows'
    BY <1>1, <1>3, <2>1 DEF QueueFollows, HeldFollows, Start, net, broken
  <2> QED BY <2>2, <2>3, <2>4, <2>5 DEF IndInv, NoByteLost
<1> QED BY <1>5, <1>6, <1>7 DEF Parse

-----------------------------------------------------------------------------
(* The handler *)

LEMMA CallNextStep ==
  ASSUME IndInv, CallNext
  PROVE  IndInv'
<1>1. WithinRead' /\ NoByteLost'
  BY BytesUntouched DEF CallNext
<1>2. TypeOK' /\ IteratorAgrees' /\ SourceIsReleased'
  BY DEF IndInv, TypeOK, IteratorAgrees, SourceIsReleased, CallNext, atRest, net
<1>3. NothingHeldBack'
  <2>1. CASE gen = "fresh"
    BY <2>1, SizeAssumption DEF IndInv, IteratorAgrees, CallNext, NothingHeldBack, At
  <2>2. CASE gen # "fresh"
    BY <2>2 DEF CallNext, atRest, NothingHeldBack
  <2> QED BY <2>1, <2>2
<1> QED BY <1>1, <1>2, <1>3 DEF IndInv

LEMMA CallReturnStep ==
  ASSUME IndInv, CallReturn
  PROVE  IndInv'
<1>1. WithinRead' /\ NoByteLost'
  BY BytesUntouched DEF CallReturn
<1>2. TypeOK' /\ IteratorAgrees' /\ SourceIsReleased' /\ NothingHeldBack'
  BY DEF IndInv, TypeOK, IteratorAgrees, SourceIsReleased, NothingHeldBack, CallReturn, atRest, net
<1> QED BY <1>1, <1>2 DEF IndInv

LEMMA CallThrowStep ==
  ASSUME IndInv, CallThrow
  PROVE  IndInv'
<1>1. WithinRead' /\ NoByteLost'
  BY BytesUntouched DEF CallThrow
<1>2. TypeOK' /\ IteratorAgrees' /\ SourceIsReleased' /\ NothingHeldBack'
  BY DEF IndInv, TypeOK, IteratorAgrees, SourceIsReleased, NothingHeldBack, CallThrow, atRest, net
<1> QED BY <1>1, <1>2 DEF IndInv

LEMMA EndExecutionStep ==
  ASSUME IndInv, EndExecution
  PROVE  IndInv'
<1>1. WithinRead' /\ NoByteLost'
  BY BytesUntouched DEF EndExecution
<1>2. TypeOK' /\ IteratorAgrees' /\ SourceIsReleased' /\ NothingHeldBack'
  BY DEF IndInv, TypeOK, IteratorAgrees, SourceIsReleased, NothingHeldBack, EndExecution, atRest, net
<1> QED BY <1>1, <1>2 DEF IndInv

-----------------------------------------------------------------------------
LEMMA StepIndInv == IndInv /\ [Next]_vars => IndInv'
<1> SUFFICES ASSUME IndInv, [Next]_vars PROVE IndInv'
  OBVIOUS
<1>1. CASE Reader
  BY <1>1, ReadSomeStep, ReadFailsStep, ReadEOFStep, SendItemStep, StopSendingStep DEF Reader
<1>2. CASE Generator
  BY <1>2, PullChunkStep, PullEndStep, PullThrowsStep, NeedMoreStep, ParseStep DEF Generator
<1>3. CASE Handler
  BY <1>3, CallNextStep, CallReturnStep, CallThrowStep, EndExecutionStep DEF Handler
<1>4. CASE UNCHANGED vars
  <2>1. WithinRead' /\ NoByteLost'
    BY <1>4, BytesUntouched DEF vars, decoder
  <2>2. TypeOK' /\ IteratorAgrees' /\ SourceIsReleased' /\ NothingHeldBack'
    BY <1>4 DEF IndInv, TypeOK, IteratorAgrees, SourceIsReleased, NothingHeldBack, vars, net, decoder, At
  <2> QED BY <2>1, <2>2 DEF IndInv
<1> QED BY <1>1, <1>2, <1>3, <1>4 DEF Next

LEMMA Inductive == Spec => []IndInv
BY InitIndInv, StepIndInv, PTL DEF Spec

\* No byte is lost between the connection and the decoder, whatever the sizes of
\* the reads, the capacity of the channel and the order of the handler's calls.
THEOREM NoByteIsLost == Spec => []NoByteLost
<1>1. IndInv => NoByteLost
  BY DEF IndInv
<1> QED BY <1>1, Inductive, PTL

\* The decoder never waits for the upstream with a complete frame in its hands.
THEOREM NoFrameHeldBack == Spec => []NothingHeldBack
<1>1. IndInv => NothingHeldBack
  BY DEF IndInv
<1> QED BY <1>1, Inductive, PTL

\* However the iteration ends, the connection has been closed by then.
THEOREM SourceReleased == Spec => []SourceIsReleased
<1>1. IndInv => SourceIsReleased
  BY DEF IndInv
<1> QED BY <1>1, Inductive, PTL

-----------------------------------------------------------------------------
(* The decoder implements FrameReader. *)

\* The reader goroutine only makes bytes arrive.
LEMMA ReaderArrives ==
  ASSUME IndInv, Reader
  PROVE  Promise!Arrive \/ UNCHANGED <<stream, read, out, phase>>
<1>1. ASSUME NEW n \in Sizes, ReadSome(n) PROVE Promise!Arrive
  <2>1. n \in Nat
    BY SizeAssumption
  <2> QED BY <1>1, <2>1 DEF IndInv, TypeOK, ReadSome, decoder, Promise!Arrive
<1> QED BY <1>1 DEF Reader, ReadFails, ReadEOF, SendItem, StopSending, decoder

LEMMA GeneratorRefines ==
  ASSUME IndInv, Generator
  PROVE  Promise!FNext \/ UNCHANGED <<stream, read, out, phase>>
<1>1. CASE PullChunk \/ NeedMore
  BY <1>1 DEF PullChunk, NeedMore, net
<1>2. CASE PullThrows
  BY <1>2, RunningIsOpen DEF PullThrows, Fail, Promise!Abort, Promise!FNext
<1>3. CASE PullEnd
  <2>1. /\ gen = "pull" /\ queue = <<>> /\ reader = "ended" /\ UNCHANGED <<stream, read>>
        /\ AtFrontier /\ HeldFollows /\ phase = "open"
    BY <1>3, RunningIsOpen DEF PullEnd, net
  <2>2. CASE Fail
    BY <2>1, <2>2 DEF Fail, Promise!Abort, Promise!FNext
  <2>3. CASE available = 0 /\ phase' = "ended" /\ UNCHANGED out
    <3>1. read = Start(1)
      BY <2>1 DEF HeldFollows
    <3>2. read = base
      BY <3>1, <2>3 DEF Start, IndInv, TypeOK
    <3> QED BY <3>2, <2>1, <2>3 DEF AtFrontier, Promise!Finish, Promise!End, Promise!FNext
  <2> QED BY <1>3, <2>2, <2>3 DEF PullEnd
<1>4. ASSUME NEW i \in DOMAIN stream.frames, Parse(i)
      PROVE  Promise!FNext \/ UNCHANGED <<stream, read, out, phase>>
  <2> DEFINE f == stream.frames[i]
  <2>1. /\ gen = "parse" /\ At(i) /\ UNCHANGED <<stream, read>>
        /\ phase = "open" /\ i = out + 1
    BY <1>4, RunningIsOpen, ParsedIsNext DEF Parse, net
  <2>2. CASE Fail
    BY <2>1, <2>2 DEF Fail, Promise!Abort, Promise!FNext
  <2>3. CASE f.flaw = "none" /\ available >= f.len /\ CutOut(i) /\ phase' = phase
    <3>1. f.from \in Nat /\ f.len \in Nat /\ Len(Frames) \in Nat /\ i \in 1..Len(Frames)
      BY FrameTypes DEF IndInv, TypeOK, Frames
    <3>2. out < Len(stream.frames) /\ out' = out + 1
      BY <2>1, <2>3, <3>1 DEF CutOut, IndInv, TypeOK, Frames
    <3>3. f.from + f.len <= read
      BY <2>1, <2>3, <3>1 DEF At, IndInv, TypeOK, WithinRead
    <3> QED BY <2>1, <2>3, <3>2, <3>3 DEF Promise!Deliver, Promise!Sound, Promise!End, Promise!FNext
  <2>4. CASE UNCHANGED <<out, phase>>
    BY <2>1, <2>4
  <2> QED BY <1>4, <2>2, <2>3, <2>4 DEF Parse
<1> QED BY <1>1, <1>2, <1>3, <1>4 DEF Generator

LEMMA HandlerRefines ==
  ASSUME IndInv, Handler
  PROVE  Promise!FNext \/ UNCHANGED <<stream, read, out, phase>>
<1>1. CASE CallNext
  BY <1>1 DEF CallNext, net
<1>2. CASE CallReturn \/ CallThrow
  <2>1. atRest /\ ~stopped /\ UNCHANGED <<stream, read, out>>
    BY <1>2 DEF CallReturn, CallThrow, net
  <2>2. gen # "finished" => phase = "open"
    BY <2>1 DEF atRest, IndInv, IteratorAgrees
  <2> QED BY <1>2, <2>1, <2>2 DEF CallReturn, CallThrow, Promise!Abort, Promise!FNext
<1>3. CASE EndExecution
  BY <1>3 DEF EndExecution, net, Promise!Abort, Promise!FNext
<1> QED BY <1>1, <1>2, <1>3 DEF Handler

\* The decoder over the source delivers the sound frames of the stream in their
\* order, each when it has arrived, and ends normally only behind the last byte.
THEOREM DecoderDelivers == Spec => DeliversFrames
<1>1. Init => Promise!FInit
  BY DEF Init, Promise!FInit
<1>2. IndInv /\ [Next]_vars => [Promise!FNext]_(Promise!fvars)
  <2> SUFFICES ASSUME IndInv, [Next]_vars
               PROVE  Promise!FNext \/ UNCHANGED Promise!fvars
    OBVIOUS
  <2>1. CASE Reader
    BY <2>1, ReaderArrives DEF Promise!FNext, Promise!fvars
  <2>2. CASE Generator
    BY <2>2, GeneratorRefines DEF Promise!fvars
  <2>3. CASE Handler
    BY <2>3, HandlerRefines DEF Promise!fvars
  <2>4. CASE UNCHANGED vars
    BY <2>4 DEF vars, net, decoder, Promise!fvars
  <2> QED BY <2>1, <2>2, <2>3, <2>4 DEF Next
<1> QED BY <1>1, <1>2, Inductive, PTL DEF Spec, DeliversFrames, Promise!FSpec
=============================================================================
