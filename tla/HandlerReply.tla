---------------------------- MODULE HandlerReply ----------------------------
(***************************************************************************)
(* How a handler execution answers the client: the reply primitives of the  *)
(* JS context, the reply state machine of handlerExec, the end of the       *)
(* execution (terminalError, normalTerminal) and the two sinks of the       *)
(* gateway.  Sources: internal/plugin/handlerctx.go, handler.go,            *)
(* jsengine/call.go, internal/gateway/handler.go.                           *)
(*                                                                          *)
(* Executions run one after the other on one pooled JS instance.  The JS    *)
(* program calls the primitives in any order and may catch what they throw; *)
(* a refused call that changes nothing is not a step.  What JS defers (a    *)
(* promise job) stays in the instance's queue until an asynchronous hook is *)
(* awaited, and a primitive acts on the execution the instance serves then. *)
(***************************************************************************)
EXTENDS Executions, Naturals, Sequences, SequencesExt

CONSTANTS Nobody,
          MaxWire,   \* bound: writes of one answer before its terminal one
          MaxJobs    \* bound: promise jobs waiting in the instance

VARIABLES
  cur,   \* the execution the instance serves
  ex,    \* execution -> its reply state
  wire,  \* execution -> what its client was sent, [kind, by]
  gone,  \* executions whose client has disconnected
  jobs   \* the instance's promise jobs, [op, by]

replyVars == <<cur, ex, wire, gone, jobs>>

Ops == {"json", "sse", "event", "end", "error"}
\* "bodiless" is the head of a JSON answer whose status allows no body (204, 304).
Kinds == {"json", "bodiless", "head", "event", "end", "errframe", "json502"}
Terminal == {"json", "bodiless", "end", "errframe", "json502"}
Host == "host"

State ==
  [stream : BOOLEAN, phase : {"new", "prepare", "handler", "over"},
   mode : {"", "json", "sse"}, done : BOOLEAN, started : BOOLEAN,
   result : {"", "ok", "error"}]

ReplyTypeOK ==
  /\ cur \in Execs \cup {Nobody}
  /\ ex \in [Execs -> State]
  /\ wire \in [Execs -> Seq([kind : Kinds, by : Execs \cup {Host}])]
  /\ gone \in SUBSET Execs
  /\ jobs \in Seq([op : Ops, by : Execs])

ReplyInit ==
  /\ cur = Nobody
  /\ ex \in [Execs -> {x \in State :
        x.phase = "new" /\ x.mode = "" /\ ~x.done /\ ~x.started /\ x.result = ""}]
  /\ wire = [e \in Execs |-> <<>>]
  /\ gone = {} /\ jobs = <<>>

sent(e) == {wire[e][i].kind : i \in DOMAIN wire[e]}
lastSent(e) == IF wire[e] = <<>> THEN "nothing" ELSE Last(wire[e]).kind
write(e, k, who) == wire' = [wire EXCEPT ![e] = Append(@, [kind |-> k, by |-> who])]
set(e, x) == ex' = [ex EXCEPT ![e] = x]

\* handlerSink: wroteHeader is "the stream has begun", status is set by JSON.
wroteHeader(e) == "head" \in sent(e)
status(e) == sent(e) \cap {"json", "bodiless", "json502"} # {}

\* net/http keeps the first status: from then on no body is written, and writing
\* an empty one succeeds.
bodiless(e) == "bodiless" \in sent(e)

-----------------------------------------------------------------------------
(* The primitives, called by the JS of execution who on execution e *)

\* claimReply: the first form claimed is the form of the execution.
claim(x, m) == ~x.done /\ x.mode \in {"", m}

\* __h2_reply_json: the claim comes before the check of the entry's form, so it
\* stays when the call is refused.  A failed write leaves the answer unfinished:
\* the client is gone, or the status that went out allows no body.
ReplyJSON(e, who) ==
  LET x == [ex[e] EXCEPT !.mode = "json"] IN
  /\ ex[e].phase = "handler" /\ claim(ex[e], "json")
  /\ \/ x.stream /\ set(e, x) /\ UNCHANGED wire
     \/ ~x.stream /\ bodiless(e) /\ UNCHANGED wire
        /\ (set(e, x) \/ set(e, [x EXCEPT !.done = TRUE]))
     \/ ~x.stream /\ ~bodiless(e) /\ set(e, [x EXCEPT !.done = TRUE]) /\ write(e, "json", who)
     \/ ~x.stream /\ ~bodiless(e) /\ set(e, x) /\ write(e, "bodiless", who)
     \/ ~x.stream /\ e \in gone /\ set(e, x) /\ ~bodiless(e) /\ write(e, "json", who)

\* A plausible slip: the stream counts as begun before the entry is checked.
ReplySSEStartedFirst(e, who) ==
  /\ ex[e].phase = "handler" /\ claim(ex[e], "sse")
  /\ set(e, [ex[e] EXCEPT !.mode = "sse", !.started = TRUE])
  /\ IF ex[e].stream THEN write(e, "head", who) ELSE UNCHANGED wire

\* __h2_reply_sse: SSEStart writes the header of the event stream.  The
\* gateway's writer always flushes, so it does not fail.
ReplySSE(e, who) ==
  LET x == [ex[e] EXCEPT !.mode = "sse"] IN
  /\ ex[e].phase = "handler" /\ claim(ex[e], "sse")
  /\ \/ ~x.stream /\ set(e, x) /\ UNCHANGED wire
     \/ x.stream /\ set(e, [x EXCEPT !.started = TRUE]) /\ write(e, "head", who)

\* __h2_reply_event: no check of the phase, the form says enough.
ReplyEvent(e, who) ==
  /\ ex[e].mode = "sse" /\ ~ex[e].done
  /\ wroteHeader(e) /\ write(e, "event", who)
  /\ UNCHANGED ex

\* A plausible slip: the end of the stream is not remembered.
ReplyEndForgets(e, who) ==
  /\ ex[e].phase = "handler" /\ ex[e].mode = "sse" /\ ~ex[e].done
  /\ IF wroteHeader(e) THEN write(e, "end", who) ELSE UNCHANGED wire
  /\ UNCHANGED ex

\* __h2_reply_end: End writes nothing when the stream has not begun.
ReplyEnd(e, who) ==
  /\ ex[e].phase = "handler" /\ ex[e].mode = "sse" /\ ~ex[e].done
  /\ IF wroteHeader(e) THEN write(e, "end", who) ELSE UNCHANGED wire
  /\ set(e, [ex[e] EXCEPT !.done = TRUE])

\* ErrorFrame of the sinks: a frame of the stream, or a JSON 502 before it.
errorFrame(e, who) == write(e, IF wroteHeader(e) THEN "errframe" ELSE "json502", who)

ReplyError(e, who) ==
  /\ ex[e].mode = "sse" /\ ~ex[e].done
  /\ errorFrame(e, who)
  /\ set(e, [ex[e] EXCEPT !.done = TRUE])

\* The conditions under which a primitive does anything.
accepted(op, e) ==
  \/ op \in {"json", "sse"} /\ ex[e].phase = "handler" /\ claim(ex[e], op)
  \/ /\ op \in {"event", "end", "error"} /\ ex[e].mode = "sse" /\ ~ex[e].done
     /\ op = "event" => wroteHeader(e)
     /\ op = "end" => ex[e].phase = "handler"

Perform(op, e, who) ==
  /\ Len(wire[e]) < MaxWire
  /\ \/ op = "json" /\ ReplyJSON(e, who)
     \/ op = "sse" /\ ReplySSE(e, who)
     \/ op = "event" /\ ReplyEvent(e, who)
     \/ op = "end" /\ ReplyEnd(e, who)
     \/ op = "error" /\ ReplyError(e, who)

-----------------------------------------------------------------------------
(* The course of an execution *)

running(e) == cur = e /\ ex[e].phase \in {"prepare", "handler"}

\* run: the instance now serves e; its first hook is prepare, or the handler.
Begin(e) ==
  /\ cur = Nobody /\ ex[e].phase = "new"
  /\ cur' = e
  /\ \E p \in {"prepare", "handler"} : set(e, [ex[e] EXCEPT !.phase = p])
  /\ UNCHANGED <<wire, gone, jobs>>

Call(e) ==
  /\ running(e)
  /\ \E op \in Ops : Perform(op, e, e)
  /\ UNCHANGED <<cur, gone, jobs>>

\* JS leaves a call to a promise job.
Defer(e) ==
  /\ running(e) /\ Len(jobs) < MaxJobs
  /\ \E op \in Ops : jobs' = Append(jobs, [op |-> op, by |-> e])
  /\ UNCHANGED <<cur, ex, wire, gone>>

\* Await drains the queue: a job calls its primitive, which may refuse.
RunJob(e) ==
  /\ running(e) /\ jobs # <<>>
  /\ \/ Perform(Head(jobs).op, e, Head(jobs).by)
     \/ ~accepted(Head(jobs).op, e) /\ UNCHANGED <<ex, wire>>
  /\ jobs' = Tail(jobs)
  /\ UNCHANGED <<cur, gone>>

\* prepare has returned: the context of the handler allows replies.
Prepared(e) ==
  /\ running(e) /\ ex[e].phase = "prepare"
  /\ set(e, [ex[e] EXCEPT !.phase = "handler"])
  /\ UNCHANGED <<cur, wire, gone, jobs>>

over(e, r) == set(e, [ex[e] EXCEPT !.phase = "over", !.result = r]) /\ cur' = Nobody

\* serveHandler after Execute: an error is written when nothing was.
fail(e) ==
  /\ over(e, "error")
  /\ IF wroteHeader(e) \/ status(e) THEN UNCHANGED wire ELSE write(e, "json502", Host)

\* A plausible slip: an error after the stream has begun adds no frame.
ThrowsQuietly(e) ==
  /\ running(e)
  /\ IF ex[e].phase = "handler" /\ ex[e].done /\ (ex[e].mode = "json" \/ ex[e].started)
     THEN over(e, "ok") /\ UNCHANGED wire
     ELSE fail(e)
  /\ UNCHANGED <<gone, jobs>>

\* JS throws, or is interrupted when its context ends.  terminalError: after a
\* finished answer the error is logged only; an open stream gets an error frame.
Throws(e) ==
  LET x == ex[e] IN
  /\ running(e)
  /\ IF x.phase = "handler" /\ x.done /\ (x.mode = "json" \/ x.started)
     THEN over(e, "ok") /\ UNCHANGED wire
     ELSE IF x.phase = "handler" /\ x.started
     THEN over(e, "error") /\ errorFrame(e, Host)
     ELSE fail(e)
  /\ UNCHANGED <<gone, jobs>>

\* normalTerminal: no form claimed is an error, an open stream gets a frame.
Returns(e) ==
  LET x == ex[e] IN
  /\ running(e) /\ x.phase = "handler"
  /\ IF x.mode = "" THEN fail(e)
     ELSE /\ over(e, "ok")
          /\ IF x.mode = "sse" /\ ~x.done THEN errorFrame(e, Host) ELSE UNCHANGED wire
  /\ UNCHANGED <<gone, jobs>>

Disconnect(e) ==
  /\ running(e) /\ gone' = gone \cup {e}
  /\ UNCHANGED <<cur, ex, wire, jobs>>

ReplyNext ==
  \E e \in Execs :
    \/ Begin(e) \/ Call(e) \/ Defer(e) \/ RunJob(e) \/ Prepared(e)
    \/ Throws(e) \/ Returns(e) \/ Disconnect(e)

ReplySpec == ReplyInit /\ [][ReplyNext]_replyVars

-----------------------------------------------------------------------------
(* Properties that hold *)

finished(e) == ex[e].phase = "over"

Agrees(e) ==
  /\ ex[e].started <=> wroteHeader(e)
  /\ sent(e) \cap {"json", "bodiless"} # {} => ex[e].mode = "json"
  /\ ex[e].started => ex[e].mode = "sse"
  /\ ex[e].phase \in {"new", "prepare"} => ex[e].mode = "" /\ wire[e] = <<>>
  /\ ex[e].phase = "handler" /\ ex[e].started =>
       (ex[e].done <=> lastSent(e) \in {"end", "errframe"})
  /\ ex[e].stream => sent(e) \cap {"json", "bodiless"} = {}
  /\ ~ex[e].stream => sent(e) \subseteq {"json", "bodiless", "json502"}

Told(e) ==
  /\ ex[e].result = "error" /\ e \notin gone /\ ~bodiless(e)
       => lastSent(e) \in {"errframe", "json502"}
  /\ wroteHeader(e) => lastSent(e) \in {"end", "errframe"}

\* The reply state agrees with what was written: started means the header is
\* out, a JSON answer means its form was claimed, before the handler nothing is
\* claimed, a stream counts as done only with its terminal frame, and the answer
\* has the form the entry asked for, whatever the handler called.
ReplyStateMatchesWire == ReplyTypeOK /\ \A e \in Execs : Agrees(e)

\* A failed execution does not look like a success: unless the client is gone, the
\* last thing it was sent is an error; and a stream that has begun ends with a
\* terminal frame of its own, however the handler ended.  One case is excepted, in
\* which the code does not tell: reply.json with a status that allows no body and a
\* body fails only after the status is out, and then serveHandler adds nothing, so the
\* client has a clean 204 of an execution that failed (README section 5).
FailureIsTold == \A e \in Execs : finished(e) => Told(e)

\* Nothing follows a terminal write: not from JS, not from the end of the
\* execution, not from the gateway.
NothingAfterTerminal ==
  [][\A e \in Execs : e \notin gone /\ lastSent(e) \in Terminal => wire'[e] = wire[e]]_replyVars

-----------------------------------------------------------------------------
(* What the documentation says and the code does not do *)

\* "Leaks between requests are impossible by construction": what a client is
\* sent comes from its own execution.
AnswersAreOwn ==
  \A e \in Execs : \A i \in DOMAIN wire[e] : wire[e][i].by \in {e, Host}
=============================================================================
