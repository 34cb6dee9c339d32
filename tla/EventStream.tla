---------------------------- MODULE EventStream ----------------------------
(***************************************************************************)
(* A handler reads a binary event stream: util.eventstream.decode           *)
(* (internal/plugin/jshelper/eventstream.js) over source.chunks() of an     *)
(* outbound call (internal/plugin/handlerctx.go, handlerhttp.go), which a   *)
(* goroutine fills from the connection (internal/transport/rawchunks.go).   *)
(*                                                                          *)
(* The reader goroutine runs beside the JS of the handler.  The JS calls    *)
(* next, return and throw of the iterator in any order, also before the     *)
(* first next and after the end; the generator runs until it yields, ends   *)
(* or throws, and a step of it is one round of one of its loops.            *)
(*                                                                          *)
(* Bytes are positions in the stream.  The segments the decoder keeps are   *)
(* consecutive, so they are the range [base, base + available).  What is    *)
(* wrong with a frame, checksums, lengths and headers included, is its flaw.*)
(***************************************************************************)
EXTENDS Naturals, Sequences

CONSTANTS Streams,    \* what an upstream may send: [frames, size, end]
          Sizes,      \* how much one read of the connection may give
          QueueCap,   \* rawChunkQueue
          PreludeLen  \* bytes of a frame's prelude

Flaws == {"none", "prelude", "length", "message", "headers"}

\* Frames follow each other without a gap; the stream may be cut anywhere.
ASSUME StreamAssumption ==
  \A s \in Streams :
    /\ s.frames \in Seq([from : Nat, len : Nat, flaw : Flaws])
    /\ \A i \in DOMAIN s.frames :
         /\ s.frames[i].len >= PreludeLen
         /\ s.frames[i].from = IF i = 1 THEN 0 ELSE s.frames[i - 1].from + s.frames[i - 1].len
         /\ \A j \in 1..(i - 1) : s.frames[j].from + s.frames[j].len <= s.frames[i].from
    /\ s.size \in Nat /\ s.end \in {"eof", "broken"}
    /\ s.size > 0 => /\ s.frames # <<>>
                     /\ s.size <= s.frames[Len(s.frames)].from + s.frames[Len(s.frames)].len

ASSUME SizeAssumption ==
  Sizes \subseteq Nat \ {0} /\ QueueCap \in Nat \ {0} /\ PreludeLen \in Nat \ {0}

VARIABLES
  stream,   \* the stream of this call
  read,     \* bytes the reader has taken from the connection
  reader,   \* "reading", "sending" or "ended"
  holding,  \* the item the reader wants to send
  queue,    \* the channel of items
  closed,   \* outboundSource: closed, its body too
  gen,      \* the generator: where it stands
  base, available,   \* the bytes the decoder keeps
  out,      \* frames delivered, by number
  started, stopped,  \* flags of the iterator
  phase,    \* how the iteration ended for the handler
  over      \* the execution has ended

net == <<read, reader, holding, queue>>
decoder == <<gen, base, available, out, started, stopped, phase>>
vars == <<stream, net, closed, decoder, over>>

Item == [from : Nat, len : Nat]     \* len = 0: the read error
NoItem == [from |-> 0, len |-> 0]
broken(x) == x.len = 0

TypeOK ==
  /\ stream \in Streams /\ read \in Nat
  /\ reader \in {"reading", "sending", "ended"}
  /\ holding \in Item /\ queue \in Seq(Item)
  /\ closed \in BOOLEAN /\ over \in BOOLEAN
  /\ gen \in {"fresh", "pull", "parse", "yielded", "finished"}
  /\ base \in Nat /\ available \in Nat /\ out \in Nat
  /\ started \in BOOLEAN /\ stopped \in BOOLEAN
  /\ phase \in {"open", "ended", "failed", "dropped"}

Init ==
  /\ stream \in Streams
  /\ read = 0 /\ reader = "reading" /\ holding = NoItem /\ queue = <<>>
  /\ closed = FALSE /\ over = FALSE
  /\ gen = "fresh" /\ base = 0 /\ available = 0 /\ out = 0
  /\ started = FALSE /\ stopped = FALSE /\ phase = "open"

-----------------------------------------------------------------------------
(* RawChunks: the goroutine that reads the connection *)

ReadSome(n) ==
  /\ reader = "reading" /\ read + n <= stream.size
  /\ read' = read + n
  /\ holding' = [from |-> read, len |-> n]
  /\ reader' = "sending"
  /\ UNCHANGED <<stream, queue, closed, decoder, over>>

\* The connection breaks, or its body was closed under the read.
ReadFails ==
  /\ reader = "reading"
  /\ closed \/ (read = stream.size /\ stream.end = "broken")
  /\ holding' = NoItem /\ reader' = "sending"
  /\ UNCHANGED <<stream, read, queue, closed, decoder, over>>

ReadEOF ==
  /\ reader = "reading" /\ read = stream.size /\ stream.end = "eof"
  /\ reader' = "ended"
  /\ UNCHANGED <<stream, read, holding, queue, closed, decoder, over>>

\* sendChunk, case out <- item.
SendItem ==
  /\ reader = "sending" /\ Len(queue) < QueueCap
  /\ queue' = Append(queue, holding)
  /\ holding' = NoItem
  /\ reader' = IF broken(holding) THEN "ended" ELSE "reading"
  /\ UNCHANGED <<stream, read, closed, decoder, over>>

\* A plausible slip: the reader waits for room in the channel only.
NeverStopSending == FALSE /\ UNCHANGED vars

\* sendChunk, case <-stop.
StopSending ==
  /\ reader = "sending" /\ closed
  /\ reader' = "ended" /\ holding' = NoItem
  /\ UNCHANGED <<stream, read, queue, closed, decoder, over>>

-----------------------------------------------------------------------------
(* The generator *)

\* A plausible slip: the source is left to the end of the execution.
FailWithoutReturn ==
  /\ gen' = "finished" /\ stopped' = TRUE /\ phase' = "failed"
  /\ UNCHANGED <<base, available, out, started, closed>>

\* catch and finally after an error: the source is returned, which closes it.
Fail ==
  /\ gen' = "finished" /\ stopped' = TRUE /\ phase' = "failed"
  /\ closed' = TRUE
  /\ UNCHANGED <<base, available, out, started>>

\* source.next() gives a chunk.
PullChunk ==
  /\ gen = "pull" /\ queue # <<>> /\ ~broken(Head(queue))
  /\ queue' = Tail(queue)
  /\ available' = available + Head(queue).len
  /\ gen' = "parse"
  /\ UNCHANGED <<stream, read, reader, holding, closed, base, out, started, stopped, phase, over>>

\* A plausible slip: bytes left over at the end are ignored.
PullEndLoosely ==
  /\ gen = "pull" /\ queue = <<>> /\ reader = "ended"
  /\ gen' = "finished" /\ phase' = "ended" /\ closed' = TRUE
  /\ UNCHANGED <<stream, net, base, available, out, started, stopped, over>>

\* source.next() is done: the channel is closed, chunkIter.Next closes the source.
PullEnd ==
  /\ gen = "pull" /\ queue = <<>> /\ reader = "ended"
  /\ \/ /\ available # 0 /\ Fail
     \/ /\ available = 0
        /\ gen' = "finished" /\ phase' = "ended" /\ closed' = TRUE
        /\ UNCHANGED <<base, available, out, started, stopped>>
  /\ UNCHANGED <<stream, net, over>>

\* source.next() throws: a read error; or a timeout or a cancelled execution,
\* which win over a chunk that is ready.
PullThrows ==
  /\ gen = "pull"
  /\ \/ /\ queue # <<>> /\ broken(Head(queue))
        /\ queue' = Tail(queue)
     \/ UNCHANGED queue
     \/ queue # <<>> /\ queue' = Tail(queue)
  /\ Fail
  /\ UNCHANGED <<stream, read, reader, holding, over>>

\* The prelude at the start of the bytes is that of frame i.
At(i) == stream.frames[i].from = base /\ available >= PreludeLen

\* The checksum of the prelude or the lengths it states are wrong.
PreludeFlawed(f) == f.flaw \in {"prelude", "length"}

\* A plausible slip: the bytes behind the frame are dropped with it.
CutOutAll(i) ==
  /\ out' = i
  /\ base' = base + stream.frames[i].len /\ available' = 0

\* The frame is copied out and the bytes that are left stay.
CutOut(i) ==
  /\ out' = i
  /\ base' = base + stream.frames[i].len /\ available' = available - stream.frames[i].len

\* One round of the inner loop: prelude, lengths, the whole frame, its checksum
\* and its headers, in this order; then the frame is cut out and yielded.
Parse(i) ==
  LET f == stream.frames[i] IN
  /\ gen = "parse" /\ At(i)
  /\ \/ PreludeFlawed(f) /\ Fail
     \/ /\ ~PreludeFlawed(f) /\ available < f.len
        /\ gen' = "pull"
        /\ UNCHANGED <<base, available, out, started, stopped, phase, closed>>
     \/ f.flaw \in {"message", "headers"} /\ available >= f.len /\ Fail
     \/ /\ f.flaw = "none" /\ available >= f.len /\ CutOut(i)
        /\ gen' = "yielded"
        /\ UNCHANGED <<started, stopped, phase, closed>>
  /\ UNCHANGED <<stream, net, over>>

\* Fewer bytes than a prelude: back to the outer loop.
NeedMore ==
  /\ gen = "parse" /\ available < PreludeLen
  /\ gen' = "pull"
  /\ UNCHANGED <<stream, net, closed, base, available, out, started, stopped, phase, over>>

-----------------------------------------------------------------------------
(* The iterator the handler calls *)

atRest == ~over /\ gen \in {"fresh", "yielded", "finished"}

\* A plausible slip: after a frame the decoder asks for the next chunk at once.
CallNextPulls ==
  /\ atRest /\ ~stopped
  /\ started' = TRUE
  /\ gen' = IF gen = "finished" THEN gen ELSE "pull"
  /\ UNCHANGED <<stream, net, closed, base, available, out, stopped, phase, over>>

\* next: after a frame the inner loop goes on; a finished generator stays done.
CallNext ==
  /\ atRest /\ ~stopped
  /\ started' = TRUE
  /\ gen' = CASE gen = "fresh" -> "pull" [] gen = "yielded" -> "parse" [] OTHER -> gen
  /\ UNCHANGED <<stream, net, closed, base, available, out, stopped, phase, over>>

\* return, which for...of calls when the handler breaks out of the loop: before
\* the first next the iterator closes the source itself, after a frame the
\* finally block does, after the end there is nothing left to do.
CallReturn ==
  /\ atRest /\ ~stopped
  /\ IF gen = "finished" THEN UNCHANGED <<closed, gen, stopped, phase>>
     ELSE /\ stopped' = TRUE /\ closed' = TRUE /\ phase' = "dropped"
          /\ gen' = IF started THEN "finished" ELSE gen
  /\ UNCHANGED <<stream, net, base, available, out, started, over>>

\* throw: the same, and the error is thrown back.
CallThrow ==
  /\ atRest /\ ~stopped
  /\ IF gen = "finished" THEN UNCHANGED <<closed, gen, stopped, phase>>
     ELSE /\ stopped' = TRUE /\ closed' = TRUE /\ phase' = "failed"
          /\ gen' = IF started THEN "finished" ELSE gen
  /\ UNCHANGED <<stream, net, base, available, out, started, over>>

\* finalize: the handler has returned or failed; its sources are closed.
EndExecution ==
  /\ atRest
  /\ over' = TRUE /\ closed' = TRUE
  /\ phase' = IF phase = "open" THEN "dropped" ELSE phase
  /\ UNCHANGED <<stream, net, gen, base, available, out, started, stopped>>

-----------------------------------------------------------------------------
Reader == (\E n \in Sizes : ReadSome(n)) \/ ReadFails \/ ReadEOF \/ SendItem \/ StopSending

Generator ==
  PullChunk \/ PullEnd \/ PullThrows \/ NeedMore \/ \E i \in DOMAIN stream.frames : Parse(i)

Handler == CallNext \/ CallReturn \/ CallThrow \/ EndExecution

Next == Reader \/ Generator \/ Handler

Spec == Init /\ [][Next]_vars

\* The goroutine runs; a read of a closed body returns.  The idle timer of
\* chunkIter.Next ends a wait for a silent upstream, and a handler ends (its
\* statement cap and overall budget interrupt it).
FairSpec ==
  Spec /\ WF_vars(Reader) /\ WF_vars(Generator) /\ WF_vars(EndExecution)

-----------------------------------------------------------------------------
(* Properties *)

\* The decoder delivers what FrameReader promises, however the bytes are cut
\* into chunks and wherever the stream is broken, dropped or timed out.
Promise == INSTANCE FrameReader WITH arrived <- read, delivered <- out
DeliversFrames == Promise!FSpec

\* The first byte of the k-th item of the channel, were it a chunk.
Start(k) == IF k = 1 THEN base + available ELSE queue[k - 1].from + queue[k - 1].len

\* What the decoder keeps starts at the first frame it has not delivered.
AtFrontier == base = IF out = 0 THEN 0 ELSE stream.frames[out].from + stream.frames[out].len

\* The chunks in the channel follow what the decoder keeps; an error is the last item.
QueueFollows ==
  \A k \in DOMAIN queue :
    IF broken(queue[k])
    THEN k = Len(queue) /\ reader = "ended" /\ read = Start(k)
    ELSE queue[k].from = Start(k)

\* The chunk the reader holds follows those, up to the last byte read.
HeldFollows ==
  IF reader = "sending" /\ ~broken(holding)
  THEN holding.from = Start(Len(queue) + 1) /\ read = holding.from + holding.len
  ELSE \/ read = Start(Len(queue) + 1)
       \/ reader = "ended" /\ queue # <<>> /\ broken(queue[Len(queue)])

\* While the source is open, bytes are neither lost nor taken twice nor swapped
\* between the connection, the channel and the decoder: what the decoder keeps,
\* the chunks in the channel and the one the reader holds follow each other up to
\* the last byte read, an error comes after all of them, and what the decoder
\* keeps starts at the first frame it has not delivered.
NoByteLost == AtFrontier /\ (~closed => QueueFollows /\ HeldFollows)

\* No frame is held back: when the decoder waits for the upstream, the frame it
\* is in the middle of is not complete, and its prelude, if it is there, is sound.
NothingHeldBack ==
  gen = "pull" =>
    \A i \in DOMAIN stream.frames :
      At(i) => ~PreludeFlawed(stream.frames[i]) /\ available < stream.frames[i].len

\* However the iteration ends, the connection is closed by then, not when the
\* execution ends.
SourceIsReleased == stopped \/ gen = "finished" \/ over => closed

\* The goroutine never outlives the source: it does not wait for room in a
\* channel that nobody reads any more.
ReaderEnds == closed ~> reader = "ended"
=============================================================================
