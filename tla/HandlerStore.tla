---------------------------- MODULE HandlerStore ----------------------------
(***************************************************************************)
(* The two-level storage of handler executions: the private write buffer of *)
(* each execution (StorageTx), the persistent slots and their authority     *)
(* marks (SlotStore), the slot locks, and the end of an execution           *)
(* (handlerExec.finalize).  Sources: internal/plugin/handlerctx.go,         *)
(* handler.go, slotstore.go, storagetx.go.                                  *)
(*                                                                          *)
(* Slot locks are used through what SlotLine promises of them (SlotLocks    *)
(* implements it): line[s] is the holder of s followed by the waiters.  An  *)
(* execution is one goroutine running a JS program that calls the host's    *)
(* storage primitives in any order; a primitive that blocks or does two     *)
(* separate things to shared state takes several steps.                     *)
(*                                                                          *)
(* A value is a non-empty string, a member of Values; a stored empty string *)
(* reads as undefined, like a missing row, so both are Absent.              *)
(***************************************************************************)
EXTENDS Executions, Naturals, Sequences, SequencesExt

CONSTANTS Slots, Values, Absent,
          Untouched,    \* no entry in the buffer
          Deleted,      \* the buffer's nil entry
          NoSlot,
          Outdated,     \* what a holder knows of a slot that was written from outside
          TokenSlots    \* slots that are accessed with locks only

ASSUME ClassAssumption == TokenSlots \subseteq Slots

VARIABLES
  pc,         \* execution -> primitive in progress, or stage of the end
  arg,        \* execution -> slot argument of that primitive
  cancelled,  \* executions whose context is done (budget, client, watchdog)
  failed,     \* executions whose JS ended with an error
  buf,        \* execution -> slot -> buffered write
  held,       \* execution -> registry of held locks
  line,       \* slot -> holder and waiters
  kv,         \* slot -> persistent value
  auth,       \* slots with an authority mark
  latest,     \* history: slot -> what unlock or a writer from outside last stored
  seen        \* execution -> slot -> what it knows the slot holds while it has
              \* the lock: the value it read, or wrote with unlock

vars == <<pc, arg, cancelled, failed, buf, held, line, kv, auth, latest, seen>>

shared == <<kv, auth, latest>>
private == <<cancelled, failed, buf, seen>>

Entry == Values \cup {Untouched, Deleted}
Stored == Values \cup {Absent}

Places == {"js", "waiting", "acquired", "reading", "unlocking",
           "merging", "releasing", "ended"}

TypeOK ==
  /\ pc \in [Execs -> Places]
  /\ arg \in [Execs -> Slots \cup {NoSlot}]
  /\ cancelled \in SUBSET Execs /\ failed \in SUBSET Execs
  /\ buf \in [Execs -> [Slots -> Entry]]
  /\ held \in [Execs -> SUBSET Slots]
  /\ line \in [Slots -> Seq(Execs)]
  /\ kv \in [Slots -> Stored] /\ auth \in SUBSET Slots
  /\ latest \in [Slots -> Stored]
  /\ seen \in [Execs -> [Slots -> Stored \cup {Outdated}]]

EmptyBuffer == [s \in Slots |-> Untouched]

Init ==
  /\ pc = [e \in Execs |-> "js"]
  /\ arg = [e \in Execs |-> NoSlot]
  /\ cancelled = {} /\ failed = {}
  /\ buf = [e \in Execs |-> EmptyBuffer]
  /\ held = [e \in Execs |-> {}]
  /\ line = [s \in Slots |-> <<>>]
  /\ kv \in [Slots -> Stored] /\ auth \in SUBSET Slots
  /\ latest = [s \in Slots |-> IF s \in auth THEN kv[s] ELSE Absent]
  /\ seen = [e \in Execs |-> [s \in Slots |-> Absent]]

goto(e, place) == pc' = [pc EXCEPT ![e] = place]

Locked(s) == line[s] # <<>>      \* SlotLocks.Held
Holder(s) == Head(line[s])

\* The entry leaves the registry and the lock goes to the next in line.
releaseHeld(e, s) ==
  /\ held' = [held EXCEPT ![e] = @ \ {s}]
  /\ line' = [line EXCEPT ![s] = Tail(@)]
  /\ seen' = [seen EXCEPT ![e][s] = Absent]

-----------------------------------------------------------------------------
(* storage.set and delete; storage.get changes nothing *)

\* __h2_st_set and __h2_st_del: refused while anybody holds the slot.  The
\* package keeps to the classes of its slots.
Write(e, s, w) ==
  /\ pc[e] = "js" /\ s \notin TokenSlots
  /\ ~Locked(s)
  /\ buf' = [buf EXCEPT ![e][s] = w]
  /\ UNCHANGED <<pc, arg, cancelled, failed, held, line, shared, seen>>

-----------------------------------------------------------------------------
(* storage.getWithLock *)

\* A plausible slip: the slot counts as free while one execution holds it.
LockOffByOne(e, s) ==
  /\ pc[e] = "js" /\ s \notin held[e]
  /\ line' = [line EXCEPT ![s] = Append(@, e)]
  /\ arg' = [arg EXCEPT ![e] = s]
  /\ goto(e, IF Len(line[s]) > 1 THEN "waiting" ELSE "acquired")
  /\ UNCHANGED <<held, shared, private>>

\* __h2_st_lock: refused if this execution holds the slot, otherwise Acquire.
Lock(e, s) ==
  /\ pc[e] = "js" /\ s \notin held[e]
  /\ line' = [line EXCEPT ![s] = Append(@, e)]
  /\ arg' = [arg EXCEPT ![e] = s]
  /\ goto(e, IF Locked(s) THEN "waiting" ELSE "acquired")
  /\ UNCHANGED <<held, shared, private>>

Granted(e) ==
  /\ pc[e] = "waiting" /\ Holder(arg[e]) = e
  /\ goto(e, "acquired")
  /\ UNCHANGED <<arg, held, line, shared, private>>

\* A plausible slip: a waiter gives up only together with the holder.
WaitRefusedLate(e) ==
  LET s == arg[e] IN
  /\ pc[e] = "waiting" /\ e \in cancelled /\ pc[Holder(s)] \in {"merging", "releasing"}
  /\ line' = [line EXCEPT ![s] = SelectSeq(@, LAMBDA x : x # e)]
  /\ arg' = [arg EXCEPT ![e] = NoSlot]
  /\ goto(e, "js")
  /\ UNCHANGED <<held, shared, private>>

\* The wait ends without the lock: the context is done or the budget is over
\* (the wait is bounded by the deadline of the same context).  JS gets an error.
WaitRefused(e) ==
  LET s == arg[e] IN
  /\ pc[e] = "waiting" /\ e \in cancelled /\ Holder(s) # e
  /\ \E i \in 2..Len(line[s]) :
       line[s][i] = e /\ line' = [line EXCEPT ![s] = RemoveAt(@, i)]
  /\ arg' = [arg EXCEPT ![e] = NoSlot]
  /\ goto(e, "js")
  /\ UNCHANGED <<held, shared, private>>

\* A plausible slip: a lock that cannot be registered is not given back.
RegisterLeaks(e) ==
  LET s == arg[e] IN
  /\ pc[e] = "acquired"
  /\ \/ e \notin cancelled /\ held' = [held EXCEPT ![e] = @ \cup {s}]
        /\ goto(e, "reading") /\ UNCHANGED arg
     \/ e \in cancelled /\ goto(e, "js")
        /\ arg' = [arg EXCEPT ![e] = NoSlot] /\ UNCHANGED held
  /\ UNCHANGED <<line, shared, private>>

\* registerHeld refuses a cancelled execution, whose lock is released at once.
Register(e) ==
  LET s == arg[e] IN
  /\ pc[e] = "acquired"
  /\ \/ /\ e \notin cancelled
        /\ held' = [held EXCEPT ![e] = @ \cup {s}]
        /\ goto(e, "reading")
        /\ UNCHANGED <<arg, line>>
     \/ /\ e \in cancelled
        /\ line' = [line EXCEPT ![s] = Tail(@)]
        /\ arg' = [arg EXCEPT ![e] = NoSlot]
        /\ goto(e, "js")
        /\ UNCHANGED held
  /\ UNCHANGED <<shared, private>>

\* A plausible slip: after a failed read the lock is released behind the
\* registry's back.
ReadErrorKeepsEntry(e) ==
  LET s == arg[e] IN
  /\ pc[e] = "reading"
  /\ \/ /\ seen' = [seen EXCEPT ![e][s] = kv[s]]
        /\ UNCHANGED line
     \/ /\ line' = [line EXCEPT ![s] = Tail(@)]
        /\ UNCHANGED seen
  /\ arg' = [arg EXCEPT ![e] = NoSlot]
  /\ goto(e, "js")
  /\ UNCHANGED <<cancelled, failed, buf, held, shared>>

\* GetAuth under the lock: the persistent value, whatever is buffered; an
\* error of the store releases the lock.
ReadLocked(e) ==
  LET s == arg[e] IN
  /\ pc[e] = "reading"
  /\ \/ /\ seen' = [seen EXCEPT ![e][s] = kv[s]]
        /\ UNCHANGED <<held, line>>
     \/ releaseHeld(e, s)
  /\ arg' = [arg EXCEPT ![e] = NoSlot]
  /\ goto(e, "js")
  /\ UNCHANGED <<cancelled, failed, buf, shared>>

-----------------------------------------------------------------------------
(* storage.unlock *)

\* UnlockWrite: value and authority mark in one transaction.
UnlockWrite(e, s, v) ==
  /\ pc[e] = "js" /\ s \in held[e]
  /\ kv' = [kv EXCEPT ![s] = v] /\ auth' = auth \cup {s}
  /\ latest' = [latest EXCEPT ![s] = v]
  /\ seen' = [seen EXCEPT ![e][s] = v]
  /\ arg' = [arg EXCEPT ![e] = s]
  /\ goto(e, "unlocking")
  /\ UNCHANGED <<cancelled, failed, buf, held, line>>

\* unlock without a value, with an oversized one, or with a failed write: the
\* lock is released and nothing is written.
UnlockBlank(e, s) ==
  /\ pc[e] = "js" /\ s \in held[e]
  /\ arg' = [arg EXCEPT ![e] = s]
  /\ goto(e, "unlocking")
  /\ UNCHANGED <<held, line, shared, private>>

\* releaseHeld.
UnlockRelease(e) ==
  /\ pc[e] = "unlocking"
  /\ releaseHeld(e, arg[e])
  /\ arg' = [arg EXCEPT ![e] = NoSlot]
  /\ goto(e, "js")
  /\ UNCHANGED <<cancelled, failed, buf, shared>>

-----------------------------------------------------------------------------
(* The end of an execution *)

\* The context is done: overall budget, client gone, or statement watchdog.
Cancel(e) ==
  /\ pc[e] # "ended"
  /\ cancelled' = cancelled \cup {e}
  /\ UNCHANGED <<pc, arg, failed, buf, held, line, shared, seen>>

\* JS returns or throws (an interrupted program throws).
JSEnds(e) ==
  /\ pc[e] = "js"
  /\ \/ failed' = failed \cup {e}
     \/ UNCHANGED failed
  /\ goto(e, "merging")
  /\ UNCHANGED <<arg, cancelled, buf, held, line, shared, seen>>

MergeInto(b, s) ==
  IF b[s] = Untouched \/ s \in auth THEN kv[s]
  ELSE IF b[s] = Deleted THEN Absent ELSE b[s]

\* A plausible slip: the authority marks are not looked at.
MergeAll(e) ==
  /\ pc[e] = "merging"
  /\ kv' = [s \in Slots |-> IF buf[e][s] = Untouched THEN kv[s]
                            ELSE IF buf[e][s] = Deleted THEN Absent ELSE buf[e][s]]
  /\ goto(e, "releasing")
  /\ UNCHANGED <<arg, held, line, auth, latest, private>>

\* finalize merges the buffer in one transaction, whatever ended the execution;
\* writes to authoritative slots are dropped.  A failed merge is logged.
Merge(e) ==
  /\ pc[e] = "merging"
  /\ \/ kv' = [s \in Slots |-> MergeInto(buf[e], s)]
     \/ UNCHANGED kv
  /\ goto(e, "releasing")
  /\ UNCHANGED <<arg, held, line, auth, latest, private>>

\* finalize runs the release functions of the registry one after the other.
ReleaseOne(e, s) ==
  /\ pc[e] = "releasing" /\ s \in held[e]
  /\ releaseHeld(e, s)
  /\ UNCHANGED <<pc, arg, cancelled, failed, buf, shared>>

\* Execute returns: its deferred cancel ends the context, and the transaction
\* view goes away with the execution.
End(e) ==
  /\ pc[e] = "releasing" /\ held[e] = {}
  /\ goto(e, "ended")
  /\ cancelled' = cancelled \cup {e}
  /\ buf' = [buf EXCEPT ![e] = EmptyBuffer]
  /\ UNCHANGED <<arg, failed, held, line, shared, seen>>

-----------------------------------------------------------------------------
(* Writers that are not handler executions: the GUI bridge, login, tasks.   *)
(* They take no lock; ExternalWrite marks the slot authoritative.  A token  *)
(* slot is one its package never writes that way.                           *)

\* Whoever holds the lock does not learn of it.
Stores(s, w) ==
  /\ s \notin TokenSlots
  /\ kv' = [kv EXCEPT ![s] = w] /\ latest' = [latest EXCEPT ![s] = w]
  /\ seen' = [e \in Execs |-> IF s \in held[e] THEN [seen[e] EXCEPT ![s] = Outdated]
                              ELSE seen[e]]
  /\ UNCHANGED <<pc, arg, cancelled, failed, buf, held, line>>

ExternalWrite(s, v) == Stores(s, v) /\ auth' = auth \cup {s}

ExternalDelete(s) == Stores(s, Absent) /\ UNCHANGED auth

-----------------------------------------------------------------------------
JSStep(e) ==
  \/ \E s \in Slots :
       \/ Lock(e, s) \/ UnlockBlank(e, s)
       \/ \E w \in Values \cup {Deleted} : Write(e, s, w)
       \/ \E v \in Values : UnlockWrite(e, s, v)
  \/ JSEnds(e)

\* Steps a goroutine takes on its own once JS has called a primitive or ended.
HostStep(e) ==
  \/ Granted(e) \/ WaitRefused(e) \/ Register(e) \/ ReadLocked(e)
  \/ UnlockRelease(e) \/ Merge(e) \/ End(e)
  \/ \E s \in Slots : ReleaseOne(e, s)

Execution(e) == JSStep(e) \/ HostStep(e) \/ Cancel(e)

External(s) == ExternalDelete(s) \/ \E v \in Values : ExternalWrite(s, v)

Next ==
  \/ \E e \in Execs : Execution(e)
  \/ \E s \in Slots : External(s)

Spec == Init /\ [][Next]_vars

(***************************************************************************)
(* Fairness.  The host's own steps happen.  The overall budget ends, so     *)
(* every execution is cancelled eventually, and the engine interrupts a     *)
(* cancelled program: its JS ends.                                          *)
(***************************************************************************)
Fairness ==
  \A e \in Execs :
    /\ WF_vars(HostStep(e)) /\ WF_vars(Cancel(e))
    /\ SF_vars(e \in cancelled /\ JSEnds(e))

FairSpec == Spec /\ Fairness

-----------------------------------------------------------------------------
(* Properties that hold *)

\* The registry of an execution and the lock manager agree: an execution is the
\* holder of every slot it has registered, so no two have the same slot and
\* every release function in the registry is good.
RegistryMatchesLocks ==
  \A e \in Execs : \A s \in held[e] : Locked(s) /\ Holder(s) = e

\* No lock leaks between Acquire and the registry, also when the execution is
\* cancelled in between: the holder of a slot has it in its registry, or is about
\* to, and an execution that has ended holds no slot and waits for none.
NoLeakedLock ==
  /\ \A s \in Slots : Locked(s) =>
       LET e == Holder(s) IN
         s \in held[e] \/ (arg[e] = s /\ pc[e] \in {"waiting", "acquired"})
  /\ \A e \in Execs : pc[e] = "ended" =>
       held[e] = {} /\ \A s \in Slots : e \notin ToSet(line[s])

\* Late merges undo no refresh.  What a locked refresh (unlock with a value) or a writer
\* from outside has stored stays until the next of them, whatever other executions had
\* buffered before it and whenever they merge.  And once a slot is authoritative, an
\* execution that reads it under its lock knows its value until it gives the lock back,
\* unless a writer from outside, who takes no lock, comes in between.  Of a slot that is
\* not authoritative yet this is not so: see HolderSeesLatest.
RefreshesSurvive ==
  \A s \in auth :
    /\ kv[s] = latest[s]
    /\ \A e \in Execs :
         s \in held[e] /\ ~(pc[e] = "reading" /\ arg[e] = s) /\ seen[e][s] # Outdated
           => kv[s] = seen[e][s]

\* Read-modify-write of a token slot loses no update: from the read under the
\* lock to the release, the stored value is the one the holder read or wrote.
\* It needs the packages to keep token slots apart from those they write
\* without a lock.
HolderSeesLatest ==
  \A e \in Execs : \A s \in held[e] \cap TokenSlots :
    ~(pc[e] = "reading" /\ arg[e] = s) => kv[s] = seen[e][s]

\* Every execution ends, although executions may wait for each other's slots in
\* a cycle: the wait is bounded by the budget.
EveryExecutionEnds == \A e \in Execs : <>(pc[e] = "ended")

-----------------------------------------------------------------------------
(* What the documentation says and the code does not do *)

MergeStep(e) == pc[e] = "merging" /\ pc'[e] = "releasing"

\* "Buffered writes of an execution that throws or times out are dropped."
FailedWritesDropped ==
  [][\A e \in Execs : MergeStep(e) /\ e \in failed => kv' = kv]_vars
=============================================================================
