# A TLA+ model of ai-api-proxy

The repository is a proxy between clients that speak the OpenAI or Anthropic
protocol and many upstream services. What makes it more than a proxy is that
nearly everything about an upstream — how a request is built, how a response is
read, how an account logs in — is JavaScript in installable packages, run in
pooled QuickJS virtual machines inside the Go process. Its core logic is
therefore about sharing and about streams: VMs, storage slots and locks, compiled
packages, routing tables and client connections are shared by request goroutines,
administrators, timers and background tasks; answers pass through several
goroutines and through JavaScript while either end may break off; and the admin
console works on copies of what the server keeps.

This directory holds the specifications of that core, the TLC configurations
that check them and the proofs about them. Paths below are relative to the
repository; line numbers are of the commit modelled.

    tlc -workers 2 -config SlotLocks.cfg MCSlotLocks      # one run
    tlapm SlotLocks_proofs.tla                            # the proofs of a module

`PROJECT.json` lists components, runs, mutants, hazards, findings and theorems,
and maps every definition that models code to its lines.


## 1. Inventory

### 1.1 Components modelled

**Slot locks** (`internal/plugin/slotlock.go`). State: the owner (a ticket) of
each locked slot, a queue of waiters for each slot, under one mutex; each waiter
has a channel `granted`. Operations: `Acquire` (fast path, or queue and then
select on the grant, a timer and a context), the release function it returns
(idempotent; hands the slot to the head of the queue), `Held`. Used by every
handler execution of a package. Hard: the grant races with the timeout, and
release is called twice as a matter of course (by `unlock` and again by the end
of the execution). Correct if one holder at a time, first come first served, no
grant lost, nobody forgotten, and every call returns.

**VM pools and VM budget** (`internal/plugin/pool.go`, `handlerpool.go`). State:
per pool a channel of idle instances, a WaitGroup, a flag `closed`; per process
a budget with a global and a per-package gate. Operations: `Borrow` (idle
instance, build one within the budget, or queue and poll until a deadline),
`Return`, discard after `maxBorrow` loans or after close, `Close`. Hard: `Close`
against borrowers at every step, the budget on each failure path, the queue
against its deadline. Correct if the budget equals the VMs that exist, an
instance is in one place only and bound to the request of its borrower while he uses
it, a closed pool keeps nothing, and Borrow and Close return.

**Two-level storage of handlers** (`internal/plugin/handlerctx.go`,
`storagetx.go`, `slotstore.go`, the end of an execution in `handler.go`). State:
a private write buffer and a registry of held locks for each execution; the
table of slots and the table of authority marks. Operations: the storage
primitives (`set`, `delete`, `getWithLock`, `unlock`), the merge and release in
`finalize`, and writers from outside (login, GUI, tasks). Hard: two requests
refresh one token; an execution is cancelled between the grant of a lock and its
registration; buffered writes merged after somebody else's locked refresh;
executions that wait for each other. Correct if the registry agrees with the lock
manager, an ended execution holds nothing, a locked read-modify-write loses no
update, what a locked refresh or a writer from outside stored in an authoritative slot
survives late merges, and every execution ends.

**Handler replies** (`handlerctx.go`, `handler.go`, `internal/gateway/handler.go`,
`jsengine/call.go`). State: the form claimed, the flags "started" and "done" of
an execution, what was written to the client. Operations: the five reply
primitives, and the terminal paths (return, throw, interruption) of engine and
gateway. Hard: JS calls the primitives in any order and catches what they throw;
two layers may both write the error; promise jobs outlive their execution in the
instance. Correct if every failure is told (one is not: section 5), every stream is closed, the answer
has the form the entry asked for, and nothing follows a terminal write.

**Parts cache** (`internal/upstream/registry.go` 70-160 and 770-900). State: per
group an entry with compiled parts and their pools, an atomic reference count and
a flag `dead`. Operations: `cachedParts`, `instantiateParts`, `acquire`,
`release`, `evict`; made stale by `Install`, the saving of settings, `SaveGroup`,
`DeleteGroup`. Hard: it is lock-free; two requests build at once; eviction runs in
a goroutine of its own. Correct if counts are exact, what is held is open, what
is not held is closed, and nobody is served something older than his request (the two
exceptions the code leaves, `late` and torn entries, are in section 5).

**Model groups, members and routing** (`internal/upstream/registry.go`,
`discover.go`, `internal/admin/handlers.go`). State: two tables, three indexes in
memory, round-robin counters. Operations: save and delete of groups and members,
discovery, `Pick`, `LoadFromDB`. Hard: an operation checks under the read lock,
writes the database without a lock and then writes the indexes; operations of
different administrators interleave at these points, statements fail, the
process restarts, and a request may name an id that no row has. Correct if indexes and tables agree, a prefix means one group,
a lookup never meets an id without a row.

**Response sources and the event-stream decoder** (`internal/plugin/handlerhttp.go`,
`internal/transport/rawchunks.go`, `internal/plugin/jshelper/eventstream.js`).
State: a goroutine with the chunk it holds, a bounded channel, the flag and the
once-only close of the source; in JS the segments the decoder keeps and the flags
of the iterator around it. Operations: `next`, `return` and `throw` of the
iterator, `next` and `close` of the source, the idle timer, the end of the
execution. Hard: frames are cut anywhere by the reads; the JS may stop reading,
throw into the generator, or call on after the end; the goroutine may be blocked on
a full channel that nobody reads any more. Correct if every sound frame is
delivered once, in order and as soon as it is complete, an incomplete rest is an
error and not an end, the connection is closed when the iteration ends, and the
goroutine ends.

**Pipeline, protocol packages and streams to the client**
(`internal/pipeline/executor.go`, `internal/transport/stream.go`,
`gateway.writeStream` in `internal/gateway/gateway.go`,
`sdk/examples/gemini/protocol.js`, `plugins/anthropic-compatible/protocol.js`).
State: the request and what it was turned into, the answer, a reader, a mapper and
a writer goroutine with a channel between them, what the client was sent.
Operations: the guard of the form, `buildRequest`, the round trip, the choice
between stream and whole, `mapEvent`, `mapResponse`, `mapError`, filters, the end
of the stream, the client that leaves. Hard: three goroutines and a cancellation; a
frame whose mapping fails; an answer that does not say its type; the same answer
must mean the same whether it is streamed or not. Correct if the upstream request
says what the client said, no frame is lost, doubled or overtaken, a stream adds up
to the whole answer, usage adds up, and every stream ends.

**The admin console** (`web/src`: `services/`, `stores/auth.ts`, `router/`, all
pages). State: the cookie and what the browser believes of it, the route with the
redirects nested in it, the query cache, and in each page its selection, dialogs,
local copies and requests under way. Operations: every handler of every page, each
of them a request, an answer and a refetch; mounting, refetching on focus and garbage
collection of the cache; login, logout and the 401 of any request. Hard: answers come
back in any order and after the page or the selection has changed; a local copy
is edited while the server moves on; saves carry the version they were made from.
Correct if a save overwrites only what it was made from, lists catch up with the
server, the copy follows the selection, the summary on the screen is of what
will be installed, table and page number belong together, and nobody whom the
server knows is sent to the login. The code keeps most of this, and section 5 names what it
does not: the list that first loads while it is written, the URL changed during its
inspection, the admin whose question to the server was lost.

**Settings and keys; admin sessions** are modelled as the console meets them:
the optimistic lock with its comparison and its write as two steps
(`internal/admin/handlers.go`), writes that change nothing, idempotent removal, a
session that is there or has ended.

### 1.2 How they interact

- A request is routed by the upstream registry to a group, gets the parts of the
  group from the parts cache, and each part borrows VMs from its pool. Evicting
  an entry closes its pools, which waits for borrowers.
- The pipeline runs the hooks of those parts: the protocol builds the upstream
  request and maps the answer, filters see each frame; a transport makes the round
  trip and its reader goroutine feeds the mapper, which feeds the writer.
- A handler package takes the place of the pipeline. Its execution borrows an
  instance, runs JS that calls the storage, outbound and reply primitives, and at
  its end merges its buffer, closes its sources, releases its slot locks and
  returns the instance. All executions of a package share its slots and locks; all
  pools of the process share the budget.
- Administrators change packages, settings, groups and members through the console
  and its HTTP API while requests run. A change reaches requests through revision,
  version and fingerprint, which the parts cache compares on each lookup.
- The gateway owns the client connection, the handler engine writes to it through
  a sink; the gateway writes an error only when the sink says nothing was sent.

### 1.3 Components not modelled

| component | why not |
|---|---|
| handler and router engine registries, watchdog | `For` and `CloseAll` share one mutex and a gate, and the pools they hold are VMPool; what is left is the life of an engine of an old revision, bounded by the watchdog |
| package registry | `Install` is an action of PartsCache as far as parts depend on it; `Enable`, `Delete` and `LoadFromDB` are one statement and one assignment under the mutex; archives and manifests are parsed by pure functions |
| scheduler | a ticker, a semaphore and a map under one mutex; it meets the modelled parts as the external writer of HandlerStore and the other writer of Console |
| hooks, tasks and login of packages | a hook runs alone in an environment of its own; its writes are the external writers above |
| rotation of keys | any key is a fair choice for what is modelled |
| SSE and line sources, the pipe of a handler | fed by the goroutine pattern of EventStream; their decoders are Go code without state beyond a scanner |
| transports and exits | a round trip is one step that fails or answers (`RoundTrip`); leases and dialling depend on providers that packages and other processes implement |
| authentication, limits, keys in flight, request history, metrics | a counter under one mutex or one statement for each operation |
| subscriptions | cloning is I/O by an external program; the page that starts it is in ListPages |
| QuickJS bindings | a C library; what the host relies on is in VMPool and HandlerReply |
| protocol conversion, address guard | pure functions on one message, tested by table |
| assembly, configuration, serving of the console, SDK types | wiring, parsing, files and declarations |


## 2. The modules

| module | what it is | its actions are |
|---|---|---|
| `SlotLine` | abstract: one line of claimants for each slot | join at the end, leave from behind the head, depart from the head |
| `SlotLocks` | `slotlock.go`; implements SlotLine (`FifoService`) | a critical section of `SlotLocks.mu`, or one step of the goroutine outside it |
| `VMPool` | both kinds of pools and the budget | a critical section of the pool's or the budget's mutex, a channel operation, a timer |
| `Executions` | the constant HandlerStore and HandlerReply are both about | none |
| `HandlerStore` | storage of handler executions, over the line that SlotLine promises | a primitive, or a part of one that touches shared state |
| `HandlerReply` | replies of executions that follow each other on one instance | a primitive, a promise job, a terminal path |
| `PartsCache` | cache entry of one group | an atomic operation, a critical section, or a read outside them |
| `UpstreamRegistry` | tables and indexes of groups and members | the check, the statement, the memory part of an operation |
| `FrameReader` | abstract: what a decoder promises to the handler that iterates over it | bytes arrive, a frame is delivered, the iteration ends or is given up |
| `EventStream` | decoder, source and reader goroutine; implements FrameReader (`DeliversFrames`) | a call of the JS, one round of a loop of the generator, a read or a channel operation of the goroutine |
| `StreamPipe` | one request through executor, protocol package and the three goroutines | a stage of `Run`, a channel operation, the mapping of a frame |
| `Session` | cookie, cached probe, guard, redirects | a navigation, a question, its answer, a 401 |
| `AdminClient` | query cache, requests of handlers, the admin API; extends Session | a fetch or its answer; a request, the server's check, its write, the answer |
| `SettingsPage`, `ModelsPage`, `PackagesPage`, `ListPages` | the pages; each extends AdminClient | a handler of the page, or its continuation after an `await` |
| `Console` | all pages composed with the session | a step of any of them, mounting and leaving a page |
| `MC...` | instances for TLC | |
| `..._proofs` | section 4 | |

Notes for a reader who compares them with the code:

- *SlotLocks.* A ticket and a `slotWaiter` belong to one call of `Acquire`, so the
  model names both by the call. `StopWaiting` may be taken when the grant is ready
  too, as Go's select chooses at random; `Abandon` then finds the call no longer
  queued and takes the grant. `ReleaseAll` is called by a test only, when nothing
  else runs; it then is `Release` of each owner.
- *VMPool.* The channel of idle instances is a set: nothing checked depends on
  their order. Process-wide and per-package gates are both present, the two pool
  types differ by `HandlerPools`. A factory may fail but does not panic.
- *HandlerStore.* `line[s]` is the state of SlotLine: holder first. What JS does
  is arbitrary, except that a slot in `TokenSlots` is accessed with locks only
  and is not written from outside: that is the discipline `sdk/docs` asks of
  packages for tokens, and only `HolderSeesLatest` depends on it; `RefreshesSurvive` is
  about every slot once it is authoritative. `latest` is history, what a locked refresh or a
  writer from outside last stored; `Outdated` stands for what a holder knew of a slot
  before such a writer, who takes no lock, came in between. A stored empty
  string reads as undefined. Writes refused for their size change nothing and
  are left out. `storage.get` changes nothing and is left out.
- *HandlerReply.* A call that is refused and changes nothing is not a step.
  `by` in `wire` and `jobs` says whose JS is responsible; only `AnswersAreOwn`
  reads it. Writes to a client that is gone may fail or seem to succeed. `bodiless` is the
  head of a JSON answer with a status that allows no body (204, 304): net/http sends the
  status and refuses the body, and refuses every later body of that response.
- *PartsCache.* The code of a package, the values of its settings and the
  parameters of a group are numbers that grow with every change. `late` and `born`
  are history. Releasing is one step: its decrement reaches zero only after
  `dead` was set, so the later look at `dead` cannot differ.
- *UpstreamRegistry.* `clash` and `raced` are history, set while operations
  overlap, and cleared by a restart. Flags `enabled` are left out: a lookup passes
  over any group. After a panic with the read lock held no step but a restart is
  modelled. `byStray` is the part of the index of groups at ids below zero: a body may name
  such an id, existence is not checked for it (`registry.go:277`), the UPDATE meets no row
  and the entry is made. It keeps its prefix from being saved elsewhere; members cannot be added to it,
  because of the foreign key, and a restart removes it.
- *EventStream.* Bytes are positions in the stream, and the segments the decoder
  keeps are consecutive, so they are an interval. Checksums, lengths and headers are
  the `flaw` of a frame: what the decoder finds wrong and at which point. A round
  of a loop of the generator is a step, so the goroutine runs in between.
- *StreamPipe.* A text is the sequence of its pieces, 0 a block that is no text, a
  frame its number. That a prompt which was blocked has no candidates, so that no reason
  follows, is how the upstream behaves and not of this code: `BlockIsLast` assumes it, and
  `Merged`, what the upstream answers when it is not asked for a stream, is external too. URLs, headers and generation parameters are left out. A filter
  keeps, changes or fails on what it gets; the change itself is data. What the
  transport cannot know (that a broken stream was broken) is not told to the mapper
  here either.
- *Console.* A revision is the moment of a write and never the same for two
  writes that leave a row. A save that leaves nothing to store (kind "clear", as after a
  reset to the defaults) removes the row and returns 0 (`plugin/settings.go:211-216`);
  that `Put` inserts the empty document before it removes it, in two statements, is not modelled. A handler's request has the revision it claims (`base`), the one its
  content was made of (`seen`, with whether the form was shown when it was sent),
  and the stored one at the moment of the comparison, so that `NoBlindOverwrite` can
  relate them. `calls` is a function from the number of a request to its handler, as
  each handler is a promise of its own. `draft.submitted` says that the copy is the
  one the save under way has sent: when that save returns, only then is the copy what
  the server now has (`made`). Structural sharing of
  vue-query is modelled where it decides whether a watcher runs. An admin stays on
  one page, his `home`, besides the login: pages share the cache only through what
  is kept in it. `excused` marks a list that someone else wrote to, or whose refetch
  failed: then nothing promises that the screen is up to date. `joined` marks a fetch that had
  read the server already when somebody else asked for it again. Mounting, a selection and the
  focus always join; a handler's own refetch cancels the earlier fetch, but only if the list has
  been fetched before. The handlers of a page
  that was left run on as `orphan`s: each still fetches the query its page had
  (`Counterpart`), and for the lists of a page that was opened since it is someone else.
  The server gives an id once, so two requests under way never make the same item
  (`Given`).

Each module has operators introduced by "A plausible slip": variants of the
definition that follows, used as mutants (a property is only kept when some
mutant of the code violates it). They are not part of any specification.


## 3. The runs

A run finishes in about three minutes or less with two workers; the numbers are
distinct states.

| run | bounds | shows |
|---|---|---|
| `slot_locks` | 4 calls, 2 slots; 10.9 thousand | one holder (`OneHolder`), no grant lost, no waiter forgotten; SlotLocks implements SlotLine (`FifoService`); every call returns and every slot becomes free (`LocksMoveOn`) |
| `vm_pool` | 3 borrowers, 2 pools in 2 packages (one of handlers), 3 VM identities, `WarmCap` 1, `MaxBorrow` 2, caps 3 and 2; 278 thousand | `BudgetExact` (the counters are the VMs that exist or are being built, within both caps), `ExclusiveUse` (an instance is in one place and bound to the request of its borrower), `ClosedPoolIsEmpty` |
| `vm_pool_live` | 2 borrowers, 1 pool, a budget of one VM; 2.4 thousand | every Borrow and every Close returns (`CallsReturn`) |
| `handler_store` | 2 executions, 2 slots (one token), 1 value; 579 thousand | `RegistryMatchesLocks`, `NoLeakedLock`; a locked refresh loses no update (`HolderSeesLatest`); what was stored in an authoritative slot survives late merges (`RefreshesSurvive`); `EveryExecutionEnds` |
| `handler_reply` | 2 executions on one instance, 3 writes before a terminal one, 1 promise job; 201 thousand | `ReplyStateMatchesWire`, `FailureIsTold`, `NothingAfterTerminal` |
| `parts_cache` | 3 requests, 1 change beside the deletion of the group; 889 thousand | exact counts, an entry is cached or evicted once (`RefsExact`); what is held stays open, what is not held is closed at last (`HeldPartsStayOpen`, without requests in `late`); nobody is served something older than his request (`ServedCurrent`, without torn entries) |
| `upstream_registry` | 2 operations at a time, 2 groups, 2 members, 2 prefixes, 2 names, 1 id below zero; 881 thousand | `IndexMatchesDB`, `NoAmbiguousPrefix`, `OrderMatchesMembers` (the two indexes of members agree), `RoundsAreCleaned` |
| `event_stream` | streams of three frames, the third sound or with one of four flaws, cut at 7 places, ended or broken; reads of 4, 6, 12 or 27 bytes; a channel of one item; 317 thousand | `NoByteLost`, `NothingHeldBack`, `SourceIsReleased`; EventStream implements FrameReader (`DeliversFrames`); the goroutine ends (`ReaderEnds`) |
| `stream_pipe` | requests of up to 3 messages of every role and shape, answers of up to 3 frames, one filter, a channel of one frame; 515 thousand | `RequestIsFaithful`, `NoFrameLost`, `StreamAgreesWithWhole`, `UsageAddsUp`, `StreamsEnd` |
| `console` | 8 pages, 2 requests of handlers in one behaviour (3 on the history), one fault, redirects up to depth 3; 2.4 million | `NoBlindOverwrite`, `ListsCatchUp`, `CopyFollowsSelection`, `SummaryIsOfPending`, `PageMatchesRows`, `SentBackOnlySignedOut` |
| `answered_requests_end`, `acts_on_what_is_shown` | as above; the second with the keys panel only | disagreements, section 5 |

Why the bounds are enough to meet the interesting cases:

- *Four calls, two slots*: an owner with three waiters on one slot, so that a
  waiter in the middle gives up while the one before it is granted and the owner
  releases again; two slots show that lines do not mix.
- *Pools*: with two borrowers on one pool and one on another, the per-package gate
  refuses while the global one would not and the other way round; `WarmCap` 1
  overflows the idle channel; `MaxBorrow` 2 reaches the discard after a reuse.
- *Storage*: two slots are what a cyclic wait needs; two executions are a holder
  and a waiter. One value and its absence tell "my value" from "another".
- *Replies*: two executions are what a leak from one to the next needs. Three
  writes are head, event, and one more.
- *Parts*: three requests are two that race to build and one that uses the entry
  of the loser; every race in `acquire` has two parties.
- *Registry*: two operations overlap at all of their points; two ids each suffice
  for a conflict and for what must not be affected; one id below zero meets both of them in its
  prefix.
- *Event stream*: frames of 16, 21 and 17 bytes behind preludes of the real 12
  bytes; reads of 4 and 6 cut inside a prelude and inside a frame, 12 falls on the end
  of a prelude, 27 spans two frames. The stream is cut before, in and behind a
  prelude and at the boundary of each frame. A channel of one item is full as
  soon as the JS does not read.
- *Stream pipe*: three messages reach every merging of neighbouring roles with a
  system message between them; three frames are a beginning, a middle and an end,
  each of them with or without text, unreadable or empty; a channel of one frame
  makes the reader wait.
- *Console*: two requests under way at once are what an overtaking needs, three
  on the history for an answer overtaken twice. Two packages, two keys, two groups:
  one that is selected and another. `Ending` names the pages on which the session
  may end (all requests are refused alike), `Faulty` those on which a fetch may fail or
  someone else write, `Mixing` those on which requests that only ask overlap others.
  Three rows of two a page (`PAGE_SIZE` is 50) give a last page that is not full.
  Two writes within one millisecond would have one version; the clock of the model
  never repeats.

Deadlock is checked in the runs of `HandlerStore` and `UpstreamRegistry`, where
external writers and restarts are always possible. The other instances may stop
rightly: calls are made once, pools are closed, executions and requests end.

### Fairness

- `SlotLocks!FairSpec`: goroutines that can run do; timers fire (`timer.C` is
  always in the select); and an owner releases, which is the duty of
  `handlerExec.finalize`, that calls each registered release function on every
  path. No fairness is assumed of which ready case a select takes.
- `VMPool!FairSpec`: goroutines run, constructions return, hooks end since they
  are interrupted at a deadline, and instances are returned. The deadline of a
  queued borrower has strong fairness: its channel stays ready while the poll
  loop comes back to the select, and Go chooses uniformly among ready cases.
  Nobody is obliged to begin a Borrow or a Close.
- `HandlerStore!FairSpec`: steps of the host happen; the overall budget of an
  execution expires; a program whose context is done is interrupted, so its JS
  ends (strong fairness, because it may be inside a primitive in between).
- `EventStream!FairSpec`: the goroutine runs, and a read of a closed body returns;
  the generator runs on once it is called, where a silent upstream is ended by the
  idle timer; the execution ends, since its statement cap and overall budget
  interrupt it. No call of the JS is assumed to happen.
- `StreamPipe!FairSpec`: `Run` and the three goroutines run; the upstream goes on
  sending or breaks off. A client need not leave.
- HandlerReply, PartsCache, UpstreamRegistry and Console have safety properties
  only and assume no fairness. `HeldPartsStayOpen` and `ListsCatchUp` say as
  invariants what one would say with "eventually": after the last step that could
  do it, the entry is closed; when nothing is under way, the list is up to date.


## 4. What is proved

Every theorem is for all values of the constants, from the named assumptions only.

| module | theorems | assumptions |
|---|---|---|
| `SlotLocks_proofs` | `Invariance` (`Spec => []IndInv`), `MutualExclusion` (`OneHolder`), `GrantsAreTaken` (`NoLostGrant`), `WaitersAreQueued` (`NoForgottenWaiter`); `Implementation`: SlotLocks implements SlotLine (`FifoService`) | `NoCall` is not a call |
| `VMPool_proofs` | `BudgetIsExact` (`BudgetExact`), `InstancesAreExclusive` (`ExclusiveUse`), `ClosedMeansEmpty` (`ClosedPoolIsEmpty`) | every borrower has a pool and every pool a package; the names for "none" are none of them; caps are natural numbers; borrowers and VMs are finitely many |
| `Handlers_proofs`, of HandlerStore | `RegistriesMatch` (`RegistryMatchesLocks`), `LocksAreNotLeaked` (`NoLeakedLock`), `HoldersAreCurrent` (`HolderSeesLatest`), `RefreshesAreKept` (`RefreshesSurvive`) | `TokenSlots` are slots |
| `Handlers_proofs`, of HandlerReply | `ReplyStateIsRight` (`ReplyStateMatchesWire`), `FailureTold` (`FailureIsTold`), `TerminalIsLast` (`NothingAfterTerminal`) | none |
| `PartsCache_proofs` | `CountsAreExact` (`RefsExact`), `PartsStayOpen` (`HeldPartsStayOpen`), `PartsAreCurrent` (`ServedCurrent`) | requests are finitely many, `None` is none of them |
| `UpstreamRegistry_proofs` | `IndexesAgree` (`OrderMatchesMembers`), `TablesAreIndexed` (`IndexMatchesDB`), `PathsAreUnambiguous` (`NoAmbiguousPrefix`), `CountersAreCleaned` (`RoundsAreCleaned`) | the bounds on ids are natural numbers; `None` is not a row; no name of a model is the word for a stage |
| `EventStream_proofs` | `NoByteIsLost` (`NoByteLost`), `NoFrameHeldBack` (`NothingHeldBack`), `SourceReleased` (`SourceIsReleased`), `DecoderDelivers` (`DeliversFrames`): EventStream implements FrameReader | frames follow each other without a gap and are no shorter than a prelude; sizes of reads, the channel's capacity and the prelude are positive |
| `StreamPipe_proofs` | `RequestSaysAll` (`RequestIsFaithful`), `FramesArriveInOrder` (`NoFrameLost`), `UsageIsTold` (`UsageAddsUp`), `StreamSaysAll` (`StreamAgreesWithWhole`) | a message has a role and a sequence of pieces (`EntriesAssumption`); an answer is a sequence of frames, each with text, a block and at most one report of usage in natural numbers, and behind a blocked frame none gives a reason (`AnswersAssumption`) |
| `Console_proofs` | `NothingIsOverwrittenBlindly` (`NoBlindOverwrite`), `CopyIsOfSelection` (`CopyFollowsSelection`), `SummaryIsInstalled` (`SummaryIsOfPending`), `HistoryIsOfOneAnswer` (`PageMatchesRows`), `NobodyIsTurnedBack` (`SentBackOnlySignedOut`), `ConsoleIsTyped` (`TypeOK`), `ListsOnScreenCatchUp` (`ListsCatchUp`); `SightedHolds`: the invariant they rest on | no page is named like the login; the pages of settings and keys have one list for each package, and any two packages may have keys of the same names; the page of the groups has the list of them and one of members for each; the tests with a dialog are those of chat and keys; a package has a name; the history has a page size and counts; revisions at the start are older than the clock, and lists do not share one |

None of the properties is inductive as it stands; each module of proofs defines
an `IndInv` (`IInv` for the console, `ReplyInv` for HandlerReply, `PipeInv`, `AskOK` and
`EndOK` for StreamPipe), with a lemma that it holds at first, a lemma that every step
keeps it with one part for each action, and a theorem for each property.

- *SlotLocks.* That a slot has one holder depends on a grant going to a call
  without a live ticket; that the head of the queue is such a call depends on
  queues containing exactly the goroutines that wait without a ticket, each once
  and in the queue of its own slot only; and that depends on who may be an owner.
  `IndInv` says these: `TypeOK`, `QueuesOK`, `TicketsOK`, `OwnersOK`,
  `NoForgottenWaiter`. The hard cases are `Abandon`, where an element is taken from
  the middle of a queue, and `Release`, where the head becomes the owner. For the
  refinement the line of a slot is its owner followed by its queue: a fast acquire
  joins an empty line, queueing joins at the end, an abandoned wait leaves from behind
  the head, a release takes the head away, and the other steps change no line.
- *VMPool.* The counters are cardinalities, so the invariant must say of what: a VM
  is alive exactly while it is idle in a channel or in somebody's hands (`Known`), in
  one of these places only (`OnePlace`), and a borrower has one exactly at certain
  places of his call (`BorrowerOK`). Then each step adds one to a counter and one
  element to its set. That a closed pool is empty needs that the WaitGroup counts the
  borrowers between `wg.Add` and the end of their call (`PoolOK`): when the drain
  begins there is none left who could push.
- *HandlerStore.* A line consists of exactly the executions that claim the slot,
  each once, and the one that has it leads (`LineOK`); what an execution is doing
  agrees with its registry (`ExecOK`). With that a locked read sees a value nobody else
  can write until the release, which is `HolderSeesLatest`; it is part of the
  invariant. `RefreshesSurvive` is inductive beside it: a slot becomes authoritative only by a step that
  stores what `latest` notes, no step but these writes it from then on, and the one that holds
  its lock is alone in storing by `unlock`, so what he read stays true.
- *HandlerReply.* A step changes one execution, so `ReplyInv` is `Good(e)` for
  each of them: its state agrees with the wire (`Agrees`), an answer that is complete
  for the client is so for the host (`Settled`), and what has ended has been told
  (`Told`), but for the bodiless answer. Each primitive is looked at by what it writes.
- *PartsCache.* `EntryOK` follows an entry from its making to its end: the count is
  its holders plus the share of the cache, `dead` and `closed` tell how far `evict` has
  come. `RequestOK` follows a request: what it looks at exists, and what it builds is
  no older than itself. The cardinality of the holders changes by one where a request
  acquires or releases.
- *UpstreamRegistry.* Here the invariant has three layers, because the properties
  assume different things. `Base` holds whatever overlaps: an id beyond the counters of
  the database is nowhere in use (`Fresh`), a member is of one group for good, in the
  table, in the index and in every operation about it (`OneHome`), the constraints of
  the database hold and what was deleted stays deleted (`TablesOK`). `OneHome` is why
  the memory part of an operation that comes late cannot put a member into a second
  list, which `OrderMatchesMembers` needs. `InStep` holds until operations meet
  on one group (`clash`): those under way on a group are one, or additions of members
  (`Apart`); what an operation found at its check is still so at its last step
  (`Steady`); and where no memory part is due, index and table are equal (`Synced`).
  With nothing under way this is `IndexMatchesDB`, and with the UNIQUE constraint it
  gives `NoAmbiguousPrefix`. `Rounds` holds until a lookup is overlapped: the lookup
  is alone (`PickAlone`), and a counter has a member of its name or a cleaning that will
  look at it (`Counted`). The hard cases are `UnindexGroup`, where many members
  go at once while other groups are being changed, and `IndexMember`, where the list
  grows only if the member was not tracked.
- *EventStream.* The decoder keeps an interval that begins where the delivered
  frames end, the channel and the goroutine continue it (`NoByteLost`), nothing is
  known of bytes that were not read (`WithinRead`), and the flags of the iterator
  agree with its place (`IteratorAgrees`). The frame at the beginning of the interval is
  then the next one of the stream, which is what the refinement of FrameReader needs.
- *Console.* `IInv` has two parts, and `CatchUp` is a third. `Base` does not depend on what is written: the route
  is a chain of logins and admin pages and "signed out" is not remembered by one who has
  signed in since (`SessionOK`); requests keep what they were sent with while they are
  out (`CallsOK`, `CallsAreOf`); the rows, the number and the total of the history come
  from one answer because an answer brings all of them (`TableOK`); a summary is shown only
  where it was made (`DialogOK`). `Sighted` is about versions. A row may go back to
  revision 0, by a save that leaves nothing to store, so the revisions of a row do not only grow. But
  two lists never share a positive one (`ServerOK`), so it belongs to its list for good
  (`Owned`), and a positive version that was overwritten or removed never comes back (`Stale`);
  what the cache holds is no newer than the row, if there is one (`NotNewer`). Hence a save that claims a stale
  version is refused whenever it arrives, and a key edited in a list that is no longer
  the selected one is refused too. What is left are saves of settings. The copy on the
  page is then in one of four situations (`Placed`): it claims what it was made from, or
  nothing, or a version the server will refuse, or it is `Ahead`: it has the version of a
  save, but not its content. In the last one the save that did it still awaits a refetch
  or the refetch has failed; so either a save is under way, which blocks another, or the
  form is hidden. That is where `seen.shown` in `NoBlindOverwrite` comes from: TLC refuted
  the invariant without it, and section 5 tells the behaviour. The proof then
  classifies the steps: what any of them may do to the session (`SessionMoves`), to
  the calls (`CallsMove`), to the cache (`CacheMoves`) and to the server
  (`ServerMoves`), each shown once for all handlers of all pages; the parts of the
  invariant are preserved by these moves, and only the handlers of settings and keys are
  looked at one by one. `Sighted` was checked by TLC on the pages of settings and keys
  before it was proved.

  `ListsCatchUp` rests on `CatchUp`. Its heart is `Caught`: of a list
  on the screen (`OnIt`), what has been fetched, or is shown at rest, is what the
  server has, or the fetch under way will still read the server, or a handler owes the
  list a fetch (`Owed`), or it is excused. The write makes the handler owe
  (`ServedIsOwed`), and every step of every handler either leaves it owing or begins the
  fetch (`Pays`, from `ClientPays` to `NextPays`): a handler may end without a fetch only if
  it wrote nothing. For that the queries must ask for what they are keyed by (`QueriesOK`), a
  handler must refetch the list of the kind it writes to (`CallsFit`), and the hard case is
  an import: its first refetch is of the groups, and only the second pays for the
  members. A list comes on the screen with a fetch (`OnItBefore`), except for one case: the
  members of a group that was removed can be shown again when a request under way makes a
  group of that id, which is why an id is given once (`CreatesOK`). The
  attempt to prove the property brought up this id and the handlers of a page that
  was left; section 2 says how both are modelled since.

- *StreamPipe.* What is taken from the channel is the frames up to `Taken`; the invariant
  `PipeInv` says that the channel holds the frames behind it up to `readAt` (`ReadOK`) and that
  each frame up to it was skipped, is on offer or was written, in this order and
  unaltered (`TakenOK`). `NoFrameLost` and `UsageAddsUp` follow. `AskOK` says that what is
  asked is the translation of the messages, and `EndOK` that a goroutine which ended has
  done its work unless the client left. What remains is about data of any length, and
  needs induction. The theorems of the library take an operator for the statement and
  none of the provers can instantiate it, but a set does as well: `Induction` says that a
  set with 0 and the successors of its numbers has all numbers, and its proof is that
  the numbers outside would have a least one (`WFMin` of WellFoundedInduction).
  `FlattenSeq` and `FoldLeft` of the community modules are CHOOSE of a table; by
  induction the table exists, and so a join is known by what one more element adds
  (`FlattenAppend`) and a translation by its last message (`TranslationSteps`). Then
  `TranslationIsFaithful` goes through the messages: a text that joins the last turn
  and one that starts a turn are said behind all others (`AddTurnKeeps`). `PickedText` goes
  through the frames: those written are the ones that say something, so their texts
  joined are the text of all. The last usage and the last reason are found at the
  greatest numbers (`LastPicked`); for the reason the assumption on blocked prompts is needed,
  as a client of the stream keeps the last reason and the whole answer prefers the block.

`Handlers_proofs` extends both modules about handlers: they have the executions in
common (`Executions`) and no variable. Otherwise each module of proofs stands alone,
so the lemma on what `RemoveAt` does to a queue is in three of them.

TLC checks the same properties on the instances of section 3. Only model-checked:

- everything with fairness (`LocksMoveOn`, `CallsReturn`, `EveryExecutionEnds`,
  `ReaderEnds`, `StreamsEnd`), which is out of reach of the proof system.

Every safety property of a passing run has a theorem.


## 5. Where code and documentation disagree

Two runs state what a comment or a text of the program says and find it violated:

1. `answered_requests_end`: `internal/pipeline/executor.go:199` says that with both forms
   declared the request decides and the actual type of the answer is checked as a
   fallback, and the answer handled as what it is. `decideStream` (`:213`) skips the check
   when the answer has no type. If the request intended a stream, the answer counts as one
   (`:216`), although the body was read whole and `Events` is nil: the mapper
   ranges over it for ever, and the request never ends. (A protocol that declares one form is
   fixed to it, as the same line says and `TestDecideStream_DeclarationRules` in
   `executor_test.go:355` asserts. An answer of the other form makes a
   streaming-only protocol wait in the same way; the property leaves that out.)
2. `acts_on_what_is_shown`: `KeysPanel.vue:15` builds its query key once. The panel
   stays mounted when another package is selected, goes on showing the keys of the
   first, and sends its edits and removals with the name of the second.

Seven more are definitions at the end of their modules; adding them to the run of
the module, as an invariant or a property, shows the trace:

- `FailedWritesDropped` (HandlerStore): `sdk/docs/05-handler.md:135` says the buffer
  of an execution that throws or times out is dropped; `finalize` (`handler.go:399`)
  merges on every path.
- `AnswersAreOwn` (HandlerReply): `sdk/ai-api-proxy.d.ts:394` says leaks between
  requests are impossible. A promise job left by a handler that returned no promise
  stays in the instance; it runs when the next execution awaits one, and the
  primitives act on the execution the instance serves then (`handlerctx.go:217`).
- `UsedPartsAreOpen` (PartsCache): `acquire` (`upstream/registry.go:119`) loads
  `dead` before the count; between the two, `evict` may run to its end, and the
  compare-and-swap from 0 to 1 succeeds on closed pools. The comment at 112 says
  "refused after death".
- `SavedSettingsAreServed` (PartsCache): `instantiateParts` reads the values of the
  settings before the version it stamps (`registry.go:838`). A save in between leaves
  old values under the new version until the next change.
- `LookupsNeverStick` (UpstreamRegistry): `SaveMember` may index a member after
  `DeleteGroup` removed its group; the next lookup by short name dereferences a nil
  group, and the panic passes the `RUnlock` of `Pick`, which is not deferred.
- `NoLostUpdate` (Console): the comparison of versions and the write are two
  statements (`admin/handlers.go:585` and `:638`; for keys `:832` and `:836`), so a
  write may pass the comparison and still overwrite another one.
- `StaleSavesAreRefused` (Console): `sdk/docs/03-settings-keys.md:41` says that a save
  carries the version it was made from and is refused when that has expired. A save that
  returns puts its version on whatever copy there is (`PackageSettingsPage.vue:102`). If
  another package was selected and this one again while the save was under way, the copy
  was made anew of what the cache had, the settings before the save; when the refetch
  behind the save fails, the form gives way to an error, but the tab of the tasks (`:259`)
  still offers to save the old copy under the new version, and the server accepts
  it: the first save is undone. The proof of `NoBlindOverwrite` shows that with the form
  on the screen this cannot happen.

Observed while modelling, and not made into definitions. Server:

- `reply.json` with status 204 or 304 and a body: the status goes out, the body is refused
  with the client present (`gateway/handler.go:25-31`), the call throws, and the failed
  execution is told to nobody, as `serveHandler` adds nothing once a status is set (`:142`).
  The client has a clean 204. A second `reply.json` then writes nothing. `FailureIsTold`
  excepts this case.
- A save of a group under a negative id: the body's id counts (`admin/handlers.go:1073-1075`),
  only `ID > 0` is looked up (`upstream/registry.go:277`; the comment at 264 knows of 0
  and above), the UPDATE meets no row and the entry is indexed until a restart, with its
  prefix taken. `IndexMatchesDB` and `NoAmbiguousPrefix` speak of the ids of the database.
- `upstream/registry.go:799` says an entry just built cannot be dead; a change or
  another builder may evict it before its builder acquires it, and the request
  fails. An entry built across `DeleteGroup` (`:374`, `:794`) is stored after the cache
  was cleared and stays.
- Members are listed in the order of their ids after a restart only (`:81`, `:213`);
  concurrent additions may be indexed the other way round.
- A counter created by a lookup that overlaps a deletion stays (`:414`, `:577`):
  hence `raced` in `RoundsAreCleaned`. The counter is converted to `int` before the
  modulo (`:644`), so beyond 2^63 lookups the index is negative; the comment calls
  the wrap harmless.
- Two requests that save one group may take the database and the memory in
  opposite orders (`admin/handlers.go:1073`): hence `clash` in `IndexMatchesDB`.
- A second `reply.sse` is accepted (`handlerctx.go:450`; `05-handler.md:127` says
  once), and a handler that claims a form and answers nothing ends as a success
  (`05-handler.md:126`).
- A slot another execution has locked can be written by a merge of a buffer filled
  before the lock was taken (`05-handler.md:141`; `handlerctx.go:317`). This is why
  `HolderSeesLatest` speaks of slots accessed with locks only. `storage.get` does not
  see a deletion the same execution has buffered (`storagetx.go:6`, `handlerctx.go:258`).
- A GET of settings reads content and version in two statements
  (`plugin/settings.go:201`); not modelled.

Pipeline:

- The error of a stream that breaks off is dropped (`transport/stream.go:96`), so the
  client sees a normal end, `[DONE]` included.
- `RawPass` writes the envelope of the mapped chunk instead of the frame it came with,
  and a filter that fails drops what earlier filters changed.
- An answer with an error status and the type of an event stream loses its body: nobody
  reads `Events`.
- The anthropic-compatible package asks `util.key("api_key")` for a string; the whole
  rotated data of the key come back.

Console:

- Selecting a package whose settings have the version of the first one, while it
  loads on the tasks tab, and saving: the copy of the first is saved to the second.
- Revisiting settings that did not change while they are still cached leaves the copy
  empty: the watcher does not run.
- A save that returns after another package was selected puts its version on the copy
  of that package; every later save is refused (`sdk/docs/03-settings-keys.md:41`).
- Coming back to a package may join a refetch that began before the save.
- What a URL holds may have changed between the summary and the installation, and so may
  the URL: the page installs what is in the input when the inspection returns
  (`PackagesPage.vue:66-68`), not what it sent for inspection.
- A handler's refetch cancels an earlier fetch of the list only if the list has been
  fetched before. A key added while the panel first loads may stay off the screen:
  the refetch joins the first fetch, which has read already (`joined` in
  `ListsCatchUp`).
- A question to the server that is lost counts as signed out and is remembered
  (`auth.ts:26`): the guard turns an admin with a good session back to the login until he signs in or
  reloads (`SentBackOnlySignedOut` excepts it).
- A save that leaves nothing to store returns version 0 (`plugin/settings.go:211-216`); until
  the refetch the copy has 0 while the cache still has the version before: hence the case of
  0 in `CopyFollowsSelection`.
- Several requests refused at once nest the redirects of the login (`http.ts:27`).
- The answer of a test, a chat or a detail is shown under the group or row that is
  selected when it comes; answers of the history may overtake each other; the end
  of one handler closes the dialog of another; the dialog of members stays open
  when its group has been deleted.


## 6. What remains

- `UpstreamRegistry`: the choice among the hits (longest prefix, rotation,
  capabilities) keeps no state besides the counter; a model of it would be its code.
- Hazards without a property: a factory that panics leaves the budget and the
  WaitGroup counted (`plugin/pool.go:118`); `For` may hand out an engine whose pool
  `CloseAll` is closing (`plugin/handlerproto.go:71`), and an engine of an old revision
  stays until the watchdog trips (`:68`); the pointer of the keys is moved outside the
  mutex the list was read under (`plugin/keys.go:139`); `saveIfChanged` compares outside
  its mutex and versions are milliseconds (`plugin/settings.go:57`);
  `ProtocolSupports` writes a probe back after the package may have been replaced
  (`plugin/registry.go:360`), and `DeclaredProtocol` may answer from an older revision
  (`upstream/registry.go:556`); a long task, a full semaphore and `Refresh` meet in
  `scheduler/scheduler.go:124`; a failure after a key was picked must give its count
  back (`gateway/handler.go:89`).
- Compositions: HandlerStore stands on the line that SlotLine promises, and SlotLocks
  is shown to keep that promise, so the two need not be explored together. PartsCache
  relies on `Close` of VMPool in the same way: it returns and leaves the pool empty.
