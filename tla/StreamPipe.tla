----------------------------- MODULE StreamPipe -----------------------------
(***************************************************************************)
(* One model request on its way through the pipeline: a protocol package    *)
(* builds the upstream request, a transport sends it, and the answer is     *)
(* mapped back, whole or frame by frame.  internal/pipeline/executor.go,    *)
(* internal/transport/stream.go and gateway.writeStream with the two        *)
(* protocol packages of the repository: sdk/examples/gemini/protocol.js     *)
(* and plugins/anthropic-compatible/protocol.js.                            *)
(*                                                                          *)
(* A streamed answer passes through three goroutines: the reader that cuts  *)
(* the body into frames, the mapper, and the writer that serves the client. *)
(* A text is the sequence of its pieces; 0 stands for a block of content    *)
(* that is not text.  A frame is known by its number.                       *)
(***************************************************************************)
EXTENDS Naturals, Sequences, SequencesExt, FiniteSetsExt

CONSTANTS Entries,     \* [protocol, supports, stream, key, messages] of a request
          Answers,     \* [status, sse, typed, frames, broken, body] of the upstream
          Filters,     \* how many filters the group has
          EventsCap    \* capacity of the channel of frames

\* A message has the role of its speaker and pieces of content.
MessagesAreGiven(e) == e.messages \in Seq([role : STRING, content : Seq(Nat)])

\* An upstream sends a sequence of frames: pieces of text, a reason, and at most one
\* report of its usage.
FramesAreSent(a) ==
  /\ DOMAIN a.frames = 1..Len(a.frames) /\ Len(a.frames) \in Nat
  /\ \A i \in 1..Len(a.frames) :
       LET u == a.frames[i].usage
       IN  /\ a.frames[i].text \in Seq(Nat) /\ a.frames[i].block \in BOOLEAN
           /\ u = <<>> \/ (u = <<u[1]>> /\ u[1].prompt \in Nat /\ u[1].candidates \in Nat /\ u[1].thoughts \in Nat)

\* When a prompt is blocked there are no candidates that could finish any more.
BlockIsLast(a) ==
  \A i, j \in 1..Len(a.frames) : a.frames[i].block /\ i < j => a.frames[j].finish = "none"

ASSUME EntriesAssumption == \A e \in Entries : MessagesAreGiven(e)
ASSUME AnswersAssumption == \A a \in Answers : FramesAreSent(a) /\ BlockIsLast(a)

VARIABLES
  entry,     \* the request of the client
  sent,      \* what goes to the upstream: contents and system instruction
  answer,    \* the answer of the upstream
  phase,     \* "build", "call", "answered", "streaming" or "done"
  reply,     \* what the client got in the end, other than the frames
  reader, readAt,   \* the goroutine of frameSSE; frames it has read
  events,    \* its channel
  mapper,    \* the mapping goroutine: an item on offer, "idle" or "ended"
  written,   \* items the client was sent
  gone       \* the client went away

streamVars == <<reader, readAt, events, mapper, written>>
vars == <<entry, sent, answer, phase, reply, streamVars, gone>>

Nothing == [kind |-> "nothing"]
NoBody == [kind |-> "empty", text |-> "none", type |-> "none", code |-> 0]
NoAnswer == [status |-> 0, sse |-> FALSE, typed |-> FALSE, frames |-> <<>>, broken |-> FALSE, body |-> NoBody]

Init ==
  /\ entry \in Entries
  /\ sent = Nothing /\ answer = NoAnswer /\ phase = "build" /\ reply = Nothing
  /\ reader = "none" /\ readAt = 0 /\ events = <<>>
  /\ mapper = [kind |-> "idle"] /\ written = <<>> /\ gone = FALSE

-----------------------------------------------------------------------------
(* gemini/protocol.js *)

\* textOf: the text blocks of a content, joined.
TextOf(content) == FlattenSeq([i \in DOMAIN content |-> IF content[i] = 0 THEN <<>> ELSE <<content[i]>>])

finishReason(fr) ==
  CASE fr = "MAX_TOKENS" -> "length"
    [] fr \in {"SAFETY", "BLOCKLIST", "PROHIBITED_CONTENT", "SPII", "RECITATION"} -> "content_filter"
    [] OTHER -> "stop"

\* A plausible slip: the thoughts are not counted.
UsageWithoutThoughts(u) ==
  IF u = <<>> THEN <<>>
  ELSE <<[prompt |-> u[1].prompt, completion |-> u[1].candidates, total |-> u[1].total]>>

\* usageOf: thoughts count as completion, what is missing counts as zero.
UsageOf(u) ==
  IF u = <<>> THEN <<>>
  ELSE <<[prompt |-> u[1].prompt, completion |-> u[1].candidates + u[1].thoughts, total |-> u[1].total]>>

isSystem(m) == m.role \in {"system", "developer"}
turnRole(m) == IF m.role = "assistant" THEN "model" ELSE "user"

\* A plausible slip: every message becomes a turn of its own.
AddTurnUnmerged(contents, role, text) == Append(contents, [role |-> role, parts |-> <<text>>])

\* A text joins the last turn of its role or starts a turn.
AddTurn(contents, role, text) ==
  IF contents # <<>> /\ Last(contents).role = role
  THEN [contents EXCEPT ![Len(contents)].parts = Append(@, text)]
  ELSE Append(contents, [role |-> role, parts |-> <<text>>])

\* A message without text is skipped; what the system says is kept apart.
AddMessage(told, m) ==
  LET text == TextOf(m.content)
  IN  IF text = <<>> THEN told
      ELSE IF isSystem(m) THEN [told EXCEPT !.system = Append(@, text)]
      ELSE [told EXCEPT !.contents = AddTurn(@, turnRole(m), text)]

Translated(messages) == FoldLeft(AddMessage, [contents |-> <<>>, system |-> <<>>], messages)

\* A plausible slip: only the finish reason says that an answer was blocked.
FinishIgnoresBlock(g) == IF g.finish # "none" THEN finishReason(g.finish) ELSE "none"

\* The reason a frame gives; a block is a signal whatever its value.
Finish(g) ==
  IF g.block THEN "content_filter"
  ELSE IF g.finish # "none" THEN finishReason(g.finish) ELSE "none"

\* mapEvent: throws on what is not JSON, skips a frame that says nothing.
MapGemini(i, f) ==
  LET chunk == [kind |-> "chunk", frame |-> i, text |-> f.text, finish |-> Finish(f), usage |-> UsageOf(f.usage)]
  IN  IF f.data # "json" THEN [kind |-> "throws"]
      ELSE IF chunk.text = <<>> /\ chunk.finish = "none" /\ chunk.usage = <<>> THEN [kind |-> "skip"]
      ELSE chunk

\* mapResponse of an answer that is not streamed.
MapWhole(g) ==
  [text |-> g.text, usage |-> UsageOf(g.usage),
   finish |-> IF g.block THEN "content_filter" ELSE finishReason(g.finish)]

\* mapError: the words of the upstream, or its status alone.
MapError(status, body) ==
  IF body.kind # "error" THEN [type |-> status, message |-> body.text, status |-> status]
  ELSE [type |-> IF body.type # "none" THEN body.type ELSE IF body.code # 0 THEN body.code ELSE status,
        message |-> body.text, status |-> IF body.code # 0 THEN body.code ELSE status]

\* anthropic-compatible/protocol.js, mapEvent.
MapAnthropic(i, f) ==
  CASE f.data = "empty" -> [kind |-> "skip"]
    [] f.data = "bad" -> [kind |-> "throws"]
    [] OTHER -> [kind |-> "chunk", frame |-> i, text |-> f.text, finish |-> f.finish, usage |-> f.usage]

MapEvent(i) ==
  LET f == answer.frames[i]
  IN  IF entry.protocol = "gemini" THEN MapGemini(i, f) ELSE MapAnthropic(i, f)

-----------------------------------------------------------------------------
(* Executor.Run up to the answer *)

Finished(r) == phase' = "done" /\ reply' = r

\* guardForm: the form of the request is not one the protocol supports.
Refuse ==
  /\ phase = "build"
  /\ (IF entry.stream THEN "streaming" ELSE "non_streaming") \notin entry.supports
  /\ Finished([kind |-> "refused"])
  /\ UNCHANGED <<entry, sent, answer, streamVars, gone>>

Guarded == phase = "build" /\ (IF entry.stream THEN "streaming" ELSE "non_streaming") \in entry.supports

\* A filter or the package throws, or its pool has no free instance.
BuildFails ==
  /\ Guarded
  /\ Finished([kind |-> "failed"])
  /\ UNCHANGED <<entry, sent, answer, streamVars, gone>>

\* BuildRequest of the package: gemini needs a key of the pool and something to
\* translate, anthropic-compatible needs a key that is a string.
Build ==
  /\ Guarded
  /\ \/ /\ entry.protocol = "gemini" /\ entry.key # "none" /\ Translated(entry.messages).contents # <<>>
        /\ sent' = [kind |-> "gemini", body |-> Translated(entry.messages)]
     \/ /\ entry.protocol = "anthropic" /\ entry.key = "string"
        /\ sent' = [kind |-> "anthropic", body |-> entry.messages]
  /\ phase' = "call"
  /\ UNCHANGED <<entry, answer, reply, streamVars, gone>>

\* RoundTrip and consumeResponse; the messages are of no use any more.  With
\* the type of a stream the goroutine of frameSSE starts, whatever the status.
RoundTrip ==
  /\ phase = "call"
  /\ sent' = Nothing /\ entry' = [entry EXCEPT !.messages = <<>>]
  /\ \/ /\ Finished([kind |-> "failed"])
        /\ UNCHANGED <<answer, reader>>
     \/ /\ answer' \in Answers
        /\ reader' = IF answer'.sse THEN "reading" ELSE "none"
        /\ phase' = "answered" /\ UNCHANGED reply
  /\ UNCHANGED <<readAt, events, mapper, written, gone>>

-----------------------------------------------------------------------------
(* The answer *)

\* The answer the same upstream gives when it is not streamed.
Merged(frames) ==
  LET finished == {i \in DOMAIN frames : frames[i].finish # "none"}
      counted == {i \in DOMAIN frames : frames[i].usage # <<>>}
  IN  [text |-> FlattenSeq([i \in DOMAIN frames |-> frames[i].text]),
       block |-> \E i \in DOMAIN frames : frames[i].block,
       finish |-> IF finished = {} THEN "none" ELSE frames[Max(finished)].finish,
       usage |-> IF counted = {} THEN <<>> ELSE frames[Max(counted)].usage]

\* consumeResponse reads no body of a stream.
Body == IF answer.sse THEN NoBody ELSE answer.body

\* A status of 300 and more ends the request.  Only gemini maps errors; when its
\* mapError throws or no instance is free, the body goes to the client as it came.
Terminal ==
  /\ phase = "answered" /\ answer.status >= 300
  /\ \/ Finished([kind |-> "error", error |-> Body])
     \/ /\ entry.protocol = "gemini"
        /\ Finished([kind |-> "error", error |-> MapError(answer.status, Body)])
  /\ UNCHANGED <<entry, sent, answer, streamVars, gone>>

\* decideStream: by what the protocol supports; when it supports both, by the
\* type of the answer if it has one, else by the request.
Streamed ==
  CASE entry.supports = {"streaming"} -> TRUE
    [] entry.supports = {"non_streaming"} -> FALSE
    [] OTHER -> IF answer.typed THEN answer.sse ELSE entry.stream

\* A filter or the package throws, or the answer is mapped by both.
Whole ==
  /\ phase = "answered" /\ answer.status < 300 /\ ~Streamed
  /\ \/ Finished([kind |-> "failed"])
     \/ /\ entry.protocol = "gemini" => Body.kind = "json"
        /\ Finished([kind |-> "whole", message |-> IF entry.protocol = "gemini"
                                                  THEN MapWhole(Merged(answer.frames)) ELSE Body])
  /\ UNCHANGED <<entry, sent, answer, streamVars, gone>>

StartStream ==
  /\ phase = "answered" /\ answer.status < 300 /\ Streamed
  /\ phase' = "streaming"
  /\ UNCHANGED <<entry, sent, answer, reply, streamVars, gone>>

-----------------------------------------------------------------------------
(* frameSSE: the goroutine that reads the body *)

ScanFrame ==
  /\ reader = "reading" /\ readAt < Len(answer.frames) /\ Len(events) < EventsCap
  /\ readAt' = readAt + 1 /\ events' = Append(events, readAt')
  /\ UNCHANGED <<entry, sent, answer, phase, reply, reader, mapper, written, gone>>

\* A plausible slip: the channel is closed at a normal end only.
EndReaderAtEOF ==
  /\ reader = "reading" /\ readAt = Len(answer.frames) /\ ~answer.broken /\ ~gone
  /\ reader' = "ended"
  /\ UNCHANGED <<entry, sent, answer, phase, reply, readAt, events, mapper, written, gone>>

\* The body ends or breaks, or the request was cancelled with its client.
EndReader ==
  /\ reader = "reading" /\ (readAt = Len(answer.frames) \/ gone)
  /\ reader' = "ended"
  /\ UNCHANGED <<entry, sent, answer, phase, reply, readAt, events, mapper, written, gone>>

-----------------------------------------------------------------------------
(* mapResponse: the goroutine that maps the frames *)

Item(i, raw, chunk, edits) == [frame |-> i, raw |-> raw, chunk |-> chunk, edits |-> edits]

\* The filters run from the last to the first; one that fails sends the chunk
\* as it was before any of them.
Filtered(i, chunk, done) ==
  IF "error" \in Range(done) THEN Item(i, TRUE, chunk, <<>>)
  ELSE Item(i, FALSE, chunk, SelectSeq(Reverse([j \in 1..Filters |-> j]), LAMBDA j : done[j] = "changed"))

\* A plausible slip: a frame the package cannot map is left out.
MapFrameOrSkip ==
  /\ phase = "streaming" /\ mapper.kind = "idle" /\ events # <<>>
  /\ events' = Tail(events)
  /\ LET i == Head(events)
         m == MapEvent(i)
     IN  IF m.kind # "chunk" THEN UNCHANGED mapper
         ELSE \E done \in [1..Filters -> {"same", "changed", "error"}] :
                mapper' = [kind |-> "offer", item |-> Filtered(i, m, done)]
  /\ UNCHANGED <<entry, sent, answer, phase, reply, reader, readAt, written, gone>>

\* A frame is skipped, mapped and filtered, or sent as it came: when the package
\* throws on it, and when none of its instances is free.
MapFrame ==
  /\ phase = "streaming" /\ mapper.kind = "idle" /\ events # <<>>
  /\ events' = Tail(events)
  /\ LET i == Head(events)
         m == MapEvent(i)
     IN  \/ m.kind = "skip" /\ UNCHANGED mapper
         \/ mapper' = [kind |-> "offer", item |-> Item(i, TRUE, [kind |-> "throws"], <<>>)]
         \/ /\ m.kind = "chunk"
            /\ \E done \in [1..Filters -> {"same", "changed", "error"}] :
                 mapper' = [kind |-> "offer", item |-> Filtered(i, m, done)]
  /\ UNCHANGED <<entry, sent, answer, phase, reply, reader, readAt, written, gone>>

\* The channel of frames is closed and empty; without one the loop never ends.
EndMapper ==
  /\ phase = "streaming" /\ mapper.kind = "idle" /\ events = <<>> /\ reader = "ended"
  /\ mapper' = [kind |-> "ended"]
  /\ UNCHANGED <<entry, sent, answer, phase, reply, reader, readAt, events, written, gone>>

-----------------------------------------------------------------------------
(* writeStream *)

WriteItem ==
  /\ phase = "streaming" /\ mapper.kind = "offer"
  /\ written' = Append(written, mapper.item) /\ mapper' = [kind |-> "idle"]
  /\ UNCHANGED <<entry, sent, answer, phase, reply, reader, readAt, events, gone>>

\* Flush: an openai stream ends with [DONE], however the upstream ended.
EndStream ==
  /\ phase = "streaming" /\ mapper.kind = "ended"
  /\ Finished([kind |-> "flushed", mark |-> IF entry.protocol = "gemini" THEN "DONE" ELSE "none"])
  /\ UNCHANGED <<entry, sent, answer, streamVars, gone>>

\* Writes to a client that left fail and nobody looks at it.
ClientLeaves ==
  /\ phase = "streaming" /\ ~gone
  /\ gone' = TRUE
  /\ UNCHANGED <<entry, sent, answer, phase, reply, streamVars>>

-----------------------------------------------------------------------------
Run == Refuse \/ BuildFails \/ Build \/ RoundTrip \/ Terminal \/ Whole \/ StartStream
Reader == ScanFrame \/ EndReader
Mapper == MapFrame \/ EndMapper
Writer == WriteItem \/ EndStream

Next == Run \/ Reader \/ Mapper \/ Writer \/ ClientLeaves

Spec == Init /\ [][Next]_vars

\* The goroutines run, and an upstream goes on sending or breaks off.
FairSpec == Spec /\ WF_vars(Run) /\ WF_vars(Reader) /\ WF_vars(Mapper) /\ WF_vars(Writer)

-----------------------------------------------------------------------------
(* Properties *)

\* A text of the conversation, and who says it.
Said(role, text) == [i \in DOMAIN text |-> <<role, text[i]>>]

\* What the client said, and what the system said, of message m.
SpokenBy(m) == IF isSystem(m) THEN <<>> ELSE Said(turnRole(m), TextOf(m.content))
OrderedBy(m) == IF isSystem(m) THEN TextOf(m.content) ELSE <<>>

\* The request gemini gets is one it accepts (turns alternate, no part is empty)
\* and says what the client said: every text, in its order, by its speaker.
RequestIsFaithful ==
  sent.kind = "gemini" =>
    LET turns == sent.body.contents
        msgs == entry.messages
    IN  /\ turns # <<>>
        /\ \A i \in 2..Len(turns) : turns[i].role # turns[i - 1].role
        /\ \A i \in DOMAIN turns : turns[i].parts # <<>> /\ <<>> \notin Range(turns[i].parts)
        /\ FlattenSeq([i \in DOMAIN turns |-> Said(turns[i].role, FlattenSeq(turns[i].parts))])
             = FlattenSeq([i \in DOMAIN msgs |-> SpokenBy(msgs[i])])
        /\ FlattenSeq(sent.body.system) = FlattenSeq([i \in DOMAIN msgs |-> OrderedBy(msgs[i])])

\* The frames on their way to the client: those he was sent, the one on offer and
\* those that wait in the channel.
OnTheirWay ==
  LET held == IF mapper.kind = "offer" THEN <<mapper.item.frame>> ELSE <<>>
  IN  [k \in DOMAIN written |-> written[k].frame] \o held \o events

\* Between the reader, the mapper and the client no frame is lost, doubled or
\* overtaken, whatever fails: the frames on their way are in their order, each once,
\* and of those read only such are missing as the package skips.
NoFrameLost ==
  /\ \A j, k \in DOMAIN OnTheirWay : j < k => OnTheirWay[j] < OnTheirWay[k]
  /\ Range(OnTheirWay) \subseteq 1..readAt
  /\ \A i \in (1..readAt) \ Range(OnTheirWay) : MapEvent(i).kind = "skip"

\* What a client collects from a stream: all the text, the last reason and usage.
Collected ==
  LET chunk(k) == written[k].chunk
      finished == {k \in DOMAIN written : chunk(k).finish # "none"}
      counted == {k \in DOMAIN written : chunk(k).usage # <<>>}
  IN  [text |-> FlattenSeq([k \in DOMAIN written |-> chunk(k).text]),
       finish |-> IF finished = {} THEN "none" ELSE chunk(Max(finished)).finish,
       usage |-> IF counted = {} THEN <<>> ELSE chunk(Max(counted)).usage]

\* A stream of gemini that nothing degraded adds up to the whole answer: the
\* same text, the same usage, and the same reason if the upstream gave one; a
\* blocked prompt is told as such.
StreamAgreesWithWhole ==
  LET g == Merged(answer.frames)
      whole == MapWhole(g)
  IN  reply.kind = "flushed" /\ entry.protocol = "gemini" /\ ~gone
      /\ (\A i \in DOMAIN answer.frames : answer.frames[i].data = "json")
      /\ (\A k \in DOMAIN written : ~written[k].raw)
      => /\ Collected.text = whole.text /\ Collected.usage = whole.usage
         /\ g.block \/ g.finish # "none" => Collected.finish = whole.finish

\* The usage a client is told adds up when that of the upstream does.
UsageAddsUp ==
  \A k \in DOMAIN written :
    LET given == answer.frames[written[k].frame].usage
        told == IF written[k].chunk.kind = "chunk" THEN written[k].chunk.usage ELSE <<>>
    IN  entry.protocol = "gemini" /\ told # <<>>
        /\ given[1].total = given[1].prompt + given[1].candidates + given[1].thoughts
        => told[1].total = told[1].prompt + told[1].completion

\* A stream of the upstream comes to an end for the client, and its goroutine
\* ends too, also when the client left or the upstream broke off.
StreamsEnd == phase = "streaming" /\ answer.sse ~> phase = "done" /\ reader = "ended"

\* executor.go:199: for a protocol that supports both forms, the actual type of
\* the answer is checked and the answer handled as what it is, so each answer is
\* handled to its end.  An answer without a type is not checked: it is read whole,
\* and taken for a stream when the request asked for one; then the mapper waits for
\* frames for ever.  (A protocol with one form is outside: the same line says that its
\* form decides.)
AnsweredRequestsEnd ==
  phase = "answered" /\ entry.supports = {"streaming", "non_streaming"} ~> phase = "done"
=============================================================================
