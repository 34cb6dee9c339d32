----------------------------- MODULE SlotLocks ------------------------------
(***************************************************************************)
(* The slot lock manager of internal/plugin/slotlock.go: a mutex per        *)
(* storage slot, shared by every handler execution of one package, with a   *)
(* FIFO queue of waiters, a bounded and cancellable wait, and ownership     *)
(* tickets that make a repeated release harmless.                           *)
(*                                                                          *)
(* A call of Acquire gets at most one ticket in its life (a new one on the  *)
(* fast path, or the one the releasing owner makes for it), so a ticket and *)
(* a slotWaiter are identified with the call they belong to.  Every action  *)
(* is one critical section of SlotLocks.mu or one step of the goroutine     *)
(* outside it; calls of different goroutines interleave between them.       *)
(***************************************************************************)
EXTENDS Naturals, Sequences, SequencesExt

CONSTANTS Calls,      \* calls of Acquire, each made once
          Slots,      \* slot names
          NoCall      \* absent from owners: the slot is free

ASSUME NoCallAssumption == NoCall \notin Calls

VARIABLES pc,         \* call -> where its goroutine is
          slotOf,     \* call -> slot argument, chosen when it starts
          owners,     \* slot -> ticket of the owner, or NoCall
          slots,      \* slot -> queue of waiters
          ticketed,   \* calls whose ticket exists (granted is closed)
          consumed    \* tickets already used by an effective release

vars == <<pc, slotOf, owners, slots, ticketed, consumed>>

(***************************************************************************)
(* Where a call is: "new" before Acquire; "select" blocked in the select;   *)
(* "leaving" after the timer or done branch was taken and before abandon;   *)
(* "granting" at the final receive from w.granted, abandon having failed;   *)
(* "held" once Acquire has returned a release function; "refused" once it   *)
(* has returned ErrSlotWaitTimeout or ErrSlotCancelled.                     *)
(***************************************************************************)
Places == {"new", "select", "leaving", "granting", "held", "refused"}

Enqueued(c) == pc[c] \in {"select", "leaving"} /\ c \notin ticketed

Live(c) == c \in ticketed \ consumed

TypeOK ==
  /\ pc \in [Calls -> Places]
  /\ slotOf \in [Calls -> Slots]
  /\ owners \in [Slots -> Calls \cup {NoCall}]
  /\ slots \in [Slots -> Seq(Calls)]
  /\ ticketed \in SUBSET Calls
  /\ consumed \in SUBSET Calls

Init ==
  /\ pc = [c \in Calls |-> "new"]
  /\ slotOf \in [Calls -> Slots]
  /\ owners = [s \in Slots |-> NoCall]
  /\ slots = [s \in Slots |-> <<>>]
  /\ ticketed = {}
  /\ consumed = {}

-----------------------------------------------------------------------------
(* Acquire *)

\* lockFree: the slot is free, so the call becomes its owner at once.
AcquireFree(c) ==
  /\ pc[c] = "new"
  /\ owners[slotOf[c]] = NoCall
  /\ owners' = [owners EXCEPT ![slotOf[c]] = c]
  /\ ticketed' = ticketed \cup {c}
  /\ pc' = [pc EXCEPT ![c] = "held"]
  /\ UNCHANGED <<slotOf, slots, consumed>>

\* A plausible slip: the newcomer pushes itself in front of the queue.
EnqueueInFront(c) ==
  /\ pc[c] = "new"
  /\ owners[slotOf[c]] # NoCall
  /\ slots' = [slots EXCEPT ![slotOf[c]] = <<c>> \o @]
  /\ pc' = [pc EXCEPT ![c] = "select"]
  /\ UNCHANGED <<slotOf, owners, ticketed, consumed>>

\* The slot is held: join the queue in the critical section of lockFree.
Enqueue(c) ==
  /\ pc[c] = "new"
  /\ owners[slotOf[c]] # NoCall
  /\ slots' = [slots EXCEPT ![slotOf[c]] = Append(@, c)]
  /\ pc' = [pc EXCEPT ![c] = "select"]
  /\ UNCHANGED <<slotOf, owners, ticketed, consumed>>

\* case <-w.granted, in the select or after a failed abandon.
TakeGrant(c) ==
  /\ pc[c] \in {"select", "granting"}
  /\ c \in ticketed
  /\ pc' = [pc EXCEPT ![c] = "held"]
  /\ UNCHANGED <<slotOf, owners, slots, ticketed, consumed>>

\* case <-done or case <-timer.C: either may be chosen even when granted is
\* closed too, and nothing is locked yet.
StopWaiting(c) ==
  /\ pc[c] = "select"
  /\ pc' = [pc EXCEPT ![c] = "leaving"]
  /\ UNCHANGED <<slotOf, owners, slots, ticketed, consumed>>

\* A plausible slip: the caller reports the timeout whatever abandon says.
AbandonUnconditionally(c) ==
  /\ pc[c] = "leaving"
  /\ slots' = [slots EXCEPT ![slotOf[c]] = SelectSeq(@, LAMBDA x : x # c)]
  /\ pc' = [pc EXCEPT ![c] = "refused"]
  /\ UNCHANGED <<slotOf, owners, ticketed, consumed>>

\* abandon removes the waiter from the queue; when it is no longer there, it
\* has been granted the slot and the call must take the grant.
Abandon(c) ==
  /\ pc[c] = "leaving"
  /\ \/ \E i \in 1 .. Len(slots[slotOf[c]]) :
          /\ slots[slotOf[c]][i] = c
          /\ slots' = [slots EXCEPT ![slotOf[c]] = RemoveAt(@, i)]
          /\ pc' = [pc EXCEPT ![c] = "refused"]
     \/ /\ \A i \in 1 .. Len(slots[slotOf[c]]) : slots[slotOf[c]][i] # c
        /\ pc' = [pc EXCEPT ![c] = "granting"]
        /\ UNCHANGED slots
  /\ UNCHANGED <<slotOf, owners, ticketed, consumed>>

-----------------------------------------------------------------------------
(* release *)

\* A plausible slip: the last-owner branch is taken with waiters queued.
ReleaseDropsQueue(c) ==
  /\ pc[c] = "held"
  /\ owners[slotOf[c]] = c /\ c \notin consumed
  /\ consumed' = consumed \cup {c}
  /\ owners' = [owners EXCEPT ![slotOf[c]] = NoCall]
  /\ slots' = [slots EXCEPT ![slotOf[c]] = <<>>]
  /\ UNCHANGED <<pc, slotOf, ticketed>>

\* A plausible slip: the ticket is not compared with the current owner's, so
\* a release called again frees the slot of whoever holds it now.
ReleaseUnchecked(c) ==
  LET s == slotOf[c] IN
  /\ pc[c] = "held"
  /\ owners[s] # NoCall
  /\ consumed' = consumed \cup {c}
  /\ IF slots[s] # <<>>
     THEN /\ owners' = [owners EXCEPT ![s] = Head(slots[s])]
          /\ slots' = [slots EXCEPT ![s] = Tail(@)]
          /\ ticketed' = ticketed \cup {Head(slots[s])}
     ELSE /\ owners' = [owners EXCEPT ![s] = NoCall]
          /\ UNCHANGED <<slots, ticketed>>
  /\ UNCHANGED <<pc, slotOf>>

\* The release function Acquire returned may be called any number of times;
\* only the ticket of the current owner has an effect (the no-op is a stutter).
\* The slot goes to the head of the queue, or becomes free.
Release(c) ==
  LET s == slotOf[c] IN
  /\ pc[c] = "held"
  /\ owners[s] = c /\ c \notin consumed
  /\ consumed' = consumed \cup {c}
  /\ \/ /\ slots[s] # <<>>
        /\ owners' = [owners EXCEPT ![s] = Head(slots[s])]
        /\ slots' = [slots EXCEPT ![s] = Tail(@)]
        /\ ticketed' = ticketed \cup {Head(slots[s])}
     \/ /\ slots[s] = <<>>
        /\ owners' = [owners EXCEPT ![s] = NoCall]
        /\ UNCHANGED <<slots, ticketed>>
  /\ UNCHANGED <<pc, slotOf>>

\* What storage.set and storage.delete consult before a buffered write.
Held(s) == owners[s] # NoCall /\ owners[s] \notin consumed

-----------------------------------------------------------------------------
Acquire(c) == AcquireFree(c) \/ Enqueue(c)

Waiting(c) == TakeGrant(c) \/ StopWaiting(c) \/ Abandon(c)

Next == \E c \in Calls : Acquire(c) \/ Waiting(c) \/ Release(c)

(***************************************************************************)
(* Fairness.  A goroutine that can take a step of Acquire takes one: the    *)
(* timer of the select fires, a mutex is not held forever.  Every owner     *)
(* releases: handlerExec.finalize runs every release function it recorded.  *)
(* Nothing obliges a call to be made.                                       *)
(***************************************************************************)
Fairness ==
  \A c \in Calls : WF_vars(Waiting(c)) /\ WF_vars(Release(c))

Spec == Init /\ [][Next]_vars

FairSpec == Spec /\ Fairness

-----------------------------------------------------------------------------
(* Properties *)

\* Mutual exclusion: two calls never both have a ticket for the same slot that
\* is still good for a release, whichever way each of them got it.
OneHolder ==
  \A c, d \in Calls :
    Live(c) /\ Live(d) /\ slotOf[c] = slotOf[d] => c = d

\* A slot granted to a waiter is never lost in the race between the grant and
\* the waiter's timeout or cancellation: whoever owns a slot has a release
\* function for it, or is a goroutine that will still return one.
NoLostGrant ==
  \A s \in Slots : owners[s] # NoCall =>
    /\ pc[owners[s]] \in {"select", "leaving", "granting", "held"}
    /\ Held(s)

\* No waiter is forgotten: a goroutine still waiting without a ticket is in the
\* queue of its slot, whose owner will hand the slot over.
NoForgottenWaiter ==
  \A c \in Calls :
    (pc[c] \in {"select", "leaving", "granting"} /\ c \notin ticketed) =>
       /\ owners[slotOf[c]] # NoCall
       /\ \E i \in 1 .. Len(slots[slotOf[c]]) : slots[slotOf[c]][i] = c

(***************************************************************************)
(* The inductive invariant.  It adds to the types what ties the four data   *)
(* structures together: a queue holds exactly the goroutines that wait      *)
(* without a ticket, each once; the owner of a slot is the only live ticket *)
(* for it; and only a call that returned a release function consumed one.   *)
(***************************************************************************)
QueuesOK ==
  \A s \in Slots :
    /\ \A i \in 1 .. Len(slots[s]) :
         Enqueued(slots[s][i]) /\ slotOf[slots[s][i]] = s
    /\ \A i, j \in 1 .. Len(slots[s]) : slots[s][i] = slots[s][j] => i = j

TicketsOK ==
  \A c \in Calls :
    /\ c \in ticketed => pc[c] \in {"select", "leaving", "granting", "held"}
    /\ pc[c] = "held" => c \in ticketed
    /\ c \in consumed => pc[c] = "held"

OwnersOK ==
  /\ \A c \in Calls : Live(c) => owners[slotOf[c]] = c
  /\ \A s \in Slots : owners[s] # NoCall =>
       Live(owners[s]) /\ slotOf[owners[s]] = s

\* Types, queues, tickets and owners of the lock manager agree in every state:
\* the fact on which each of the properties above rests.
IndInv == TypeOK /\ QueuesOK /\ TicketsOK /\ OwnersOK /\ NoForgottenWaiter

\* The line of a slot as its claimants see it: the owner and then the queue.
Line == INSTANCE SlotLine WITH
  line   <- [s \in Slots |->
               IF owners[s] = NoCall THEN <<>> ELSE <<owners[s]>> \o slots[s]],
  joined <- {c \in Calls : pc[c] # "new"}

\* SlotLocks implements the FIFO line: nobody is served before an earlier
\* claimant that has not given up, and a timeout never evicts an owner.
FifoService == Line!Spec

\* Every call of Acquire returns, with the lock or with an error, and a slot never
\* stays locked for ever once its owners are obliged to release, although grants
\* race with timeouts.
LocksMoveOn ==
  /\ \A c \in Calls : pc[c] = "select" ~> pc[c] \in {"held", "refused"}
  /\ \A s \in Slots : owners[s] # NoCall ~> owners[s] = NoCall
=============================================================================
