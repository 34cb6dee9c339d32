------------------------------- MODULE VMPool -------------------------------
(***************************************************************************)
(* The pools of JS runtimes (VMs) and the process-wide VM budget:           *)
(* runtimePool of internal/plugin/pool.go and handlerPool of                *)
(* internal/plugin/handlerpool.go, which differ only in that the handler    *)
(* pool counts how often an instance was lent and discards it at maxBorrow. *)
(*                                                                          *)
(* A borrower is a goroutine that calls a pool's Borrow, binds the instance *)
(* to its request, uses it and calls Return, again and again.  A step is a  *)
(* critical section of the pool's or the budget's mutex, a channel          *)
(* operation, or the firing of a timer.  The channel of idle instances is   *)
(* a set: their order makes no difference to what is checked.               *)
(***************************************************************************)
EXTENDS Naturals, FiniteSets

CONSTANTS Borrowers, Pools, Pkgs,
          Insts,          \* VM identities
          NoInst, Nobody,
          PoolOf,         \* borrower -> the pool it borrows from
          PkgOf,          \* pool -> the package whose budget it charges
          HandlerPools,   \* the pools that are handlerPools
          WarmCap,        \* capacity of the idle channel (poolSize)
          MaxBorrow,      \* loans after which a handler instance is discarded
          GlobalVMCap, PerPkgVMCap

ASSUME PoolAssumption ==
  /\ PoolOf \in [Borrowers -> Pools] /\ PkgOf \in [Pools -> Pkgs]
  /\ HandlerPools \subseteq Pools
  /\ NoInst \notin Insts /\ Nobody \notin Borrowers

ASSUME CapAssumption ==
  /\ WarmCap \in Nat /\ MaxBorrow \in Nat \ {0}
  /\ GlobalVMCap \in Nat /\ PerPkgVMCap \in Nat

ASSUME FiniteAssumption == IsFiniteSet(Borrowers) /\ IsFiniteSet(Insts)

VARIABLES pc,       \* borrower -> where it is in Borrow or Return
          holds,    \* borrower -> the instance lent to it
          warm,     \* pool -> idle instances in its channel
          alive,    \* instances whose VM exists
          borrows,  \* instance -> loans of its VM so far (handler pools)
          bound,    \* instance -> borrower its key slot / cur points to
          global, perPkg,  \* vmBudget
          closed,   \* pool -> flag set by Close
          wg,       \* pool -> WaitGroup counter
          closer    \* pool -> progress of the goroutine that calls Close

vars == <<pc, holds, warm, alive, borrows, bound, global, perPkg, closed, wg, closer>>

budget == <<global, perPkg>>

pool(b) == PoolOf[b]
pkg(b)  == PkgOf[PoolOf[b]]

\* Places inside Borrow; inside the caller; inside Return.
InBorrow == {"idlewait", "recheck", "try", "factory", "queued"}
InUse    == {"borrowed", "using"}
InReturn == {"returning", "pushing", "discarding", "leaving"}

TypeOK ==
  /\ pc \in [Borrowers -> {"out"} \cup InBorrow \cup InUse \cup InReturn]
  /\ holds \in [Borrowers -> Insts \cup {NoInst}]
  /\ warm \in [Pools -> SUBSET Insts]
  /\ alive \in SUBSET Insts
  /\ borrows \in [Insts -> Nat]
  /\ bound \in [Insts -> Borrowers \cup {Nobody}]
  /\ global \in Nat /\ perPkg \in [Pkgs -> Nat]
  /\ closed \in [Pools -> BOOLEAN]
  /\ wg \in [Pools -> Nat]
  /\ closer \in [Pools -> {"none", "waiting", "draining", "finished"}]

Init ==
  /\ pc = [b \in Borrowers |-> "out"]
  /\ holds = [b \in Borrowers |-> NoInst]
  /\ warm = [p \in Pools |-> {}]
  /\ alive = {}
  /\ borrows = [i \in Insts |-> 0]
  /\ bound = [i \in Insts |-> Nobody]
  /\ global = 0 /\ perPkg = [k \in Pkgs |-> 0]
  /\ closed = [p \in Pools |-> FALSE]
  /\ wg = [p \in Pools |-> 0]
  /\ closer = [p \in Pools |-> "none"]

-----------------------------------------------------------------------------
(* vmBudget *)

CanAcquire(k) == global < GlobalVMCap /\ perPkg[k] < PerPkgVMCap

acquire(k) ==
  /\ global' = global + 1
  /\ perPkg' = [perPkg EXCEPT ![k] = @ + 1]

release(k) ==
  /\ global' = global - 1
  /\ perPkg' = [perPkg EXCEPT ![k] = @ - 1]

\* release panics when a counter is already zero.
Underflow(k) == global = 0 \/ perPkg[k] = 0

-----------------------------------------------------------------------------
(* Borrow *)

goto(b, place) == pc' = [pc EXCEPT ![b] = place]

\* The closed check and wg.Add are one critical section; a closed pool
\* refuses and nothing changes.
Enter(b) ==
  /\ pc[b] = "out" /\ ~closed[pool(b)]
  /\ wg' = [wg EXCEPT ![pool(b)] = @ + 1]
  /\ goto(b, "idlewait")
  /\ UNCHANGED <<holds, warm, alive, borrows, bound, budget, closed, closer>>

\* fail(err): give the WaitGroup count back and return an error.
fail(b) ==
  /\ wg' = [wg EXCEPT ![pool(b)] = @ - 1]
  /\ goto(b, "out")
  /\ UNCHANGED <<holds, warm, alive, borrows, bound, closed, closer>>

Lend(b, i) ==
  /\ holds' = [holds EXCEPT ![b] = i]
  /\ goto(b, "borrowed")
  /\ UNCHANGED <<bound, closed, wg, closer>>

\* case inst := <-p.instances, in the idle window or while queued.
TakeWarm(b, i) ==
  /\ pc[b] \in {"idlewait", "queued"} /\ i \in warm[pool(b)]
  /\ warm' = [warm EXCEPT ![pool(b)] = @ \ {i}]
  /\ borrows' = IF pool(b) \in HandlerPools THEN [borrows EXCEPT ![i] = @ + 1] ELSE borrows
  /\ Lend(b, i)
  /\ UNCHANGED <<alive, budget>>

\* case <-wait.C: the idle window is over.
IdleWindowOver(b) ==
  /\ pc[b] = "idlewait"
  /\ goto(b, "recheck")
  /\ UNCHANGED <<holds, warm, alive, borrows, bound, budget, closed, wg, closer>>

\* A plausible slip: the cancelled borrower forgets its WaitGroup count.
CancelledUncounted(b) ==
  /\ pc[b] \in {"idlewait", "queued"}
  /\ goto(b, "out")
  /\ UNCHANGED <<holds, warm, alive, borrows, bound, budget, closed, wg, closer>>

\* case <-ctx.Done().
Cancelled(b) ==
  /\ pc[b] \in {"idlewait", "queued"}
  /\ fail(b)
  /\ UNCHANGED budget

\* The second closed check, after which the loop never looks at closed again.
Recheck(b) ==
  /\ pc[b] = "recheck"
  /\ \/ closed[pool(b)] /\ fail(b)
     \/ /\ ~closed[pool(b)] /\ goto(b, "try")
        /\ UNCHANGED <<holds, warm, alive, borrows, bound, closed, wg, closer>>
  /\ UNCHANGED budget

\* vmBudgets.tryAcquire at the top of the loop.
TryAcquire(b) ==
  /\ pc[b] = "try"
  /\ \/ CanAcquire(pkg(b)) /\ acquire(pkg(b)) /\ goto(b, "factory")
     \/ ~CanAcquire(pkg(b)) /\ goto(b, "queued") /\ UNCHANGED budget
  /\ UNCHANGED <<holds, warm, alive, borrows, bound, closed, wg, closer>>

\* p.factory(): a new VM, for which the budget is already taken.
FactoryOK(b, i) ==
  /\ pc[b] = "factory" /\ i \notin alive
  /\ alive' = alive \cup {i}
  /\ borrows' = [borrows EXCEPT ![i] = IF pool(b) \in HandlerPools THEN 1 ELSE 0]
  /\ holds' = [holds EXCEPT ![b] = i]
  /\ bound' = [bound EXCEPT ![i] = Nobody]
  /\ goto(b, "borrowed")
  /\ UNCHANGED <<warm, budget, closed, wg, closer>>

\* A plausible slip: the failed construction keeps its share of the budget.
FactoryErrLeaks(b) ==
  /\ pc[b] = "factory"
  /\ fail(b)
  /\ UNCHANGED budget

\* p.factory() returns an error: the budget goes back.
FactoryErr(b) ==
  /\ pc[b] = "factory"
  /\ release(pkg(b))
  /\ fail(b)

\* case <-tick.C: poll the budget again.
PollTick(b) ==
  /\ pc[b] = "queued"
  /\ goto(b, "try")
  /\ UNCHANGED <<holds, warm, alive, borrows, bound, budget, closed, wg, closer>>

\* case <-deadline.C: ErrPoolTimeout.
Deadline(b) ==
  /\ pc[b] = "queued"
  /\ fail(b)
  /\ UNCHANGED budget

-----------------------------------------------------------------------------
(* The caller, and Return *)

\* A plausible slip: the key slot is filled only when it is empty.
BindIfEmpty(b) ==
  /\ pc[b] = "borrowed"
  /\ bound' = [bound EXCEPT ![holds[b]] = IF @ = Nobody THEN b ELSE @]
  /\ goto(b, "using")
  /\ UNCHANGED <<holds, warm, alive, borrows, budget, closed, wg, closer>>

\* rebindKey, or inst.cur = ex: the instance now serves this request.
Bind(b) ==
  /\ pc[b] = "borrowed"
  /\ bound' = [bound EXCEPT ![holds[b]] = b]
  /\ goto(b, "using")
  /\ UNCHANGED <<holds, warm, alive, borrows, budget, closed, wg, closer>>

\* The call ends and Return begins; a broken instance, or one lent maxBorrow
\* times, is to be discarded.  A handler execution clears cur on its way out.
Finish(b) ==
  /\ pc[b] = "using"
  /\ \/ goto(b, "discarding")
     \/ /\ pool(b) \in HandlerPools => borrows[holds[b]] < MaxBorrow
        /\ goto(b, "returning")
  /\ bound' = IF pool(b) \in HandlerPools
              THEN [bound EXCEPT ![holds[b]] = Nobody] ELSE bound
  /\ UNCHANGED <<holds, warm, alive, borrows, budget, closed, wg, closer>>

\* Return reads closed under the pool's mutex and acts on it later.
ReadClosed(b) ==
  /\ pc[b] = "returning"
  /\ goto(b, IF closed[pool(b)] THEN "discarding" ELSE "pushing")
  /\ UNCHANGED <<holds, warm, alive, borrows, bound, budget, closed, wg, closer>>

\* select { case p.instances <- inst: default: p.discard(inst) }
Push(b) ==
  /\ pc[b] = "pushing"
  /\ \/ /\ Cardinality(warm[pool(b)]) < WarmCap
        /\ warm' = [warm EXCEPT ![pool(b)] = @ \cup {holds[b]}]
        /\ holds' = [holds EXCEPT ![b] = NoInst]
        /\ goto(b, "leaving")
     \/ /\ Cardinality(warm[pool(b)]) >= WarmCap
        /\ goto(b, "discarding")
        /\ UNCHANGED <<warm, holds>>
  /\ UNCHANGED <<alive, borrows, bound, budget, closed, wg, closer>>

\* discard: close the VM, then give the budget back.
Discard(b) ==
  /\ pc[b] = "discarding"
  /\ alive' = alive \ {holds[b]}
  /\ release(pkg(b))
  /\ holds' = [holds EXCEPT ![b] = NoInst]
  /\ goto(b, "leaving")
  /\ UNCHANGED <<warm, borrows, bound, closed, wg, closer>>

\* defer p.wg.Done()
Leave(b) ==
  /\ pc[b] = "leaving"
  /\ wg' = [wg EXCEPT ![pool(b)] = @ - 1]
  /\ goto(b, "out")
  /\ UNCHANGED <<holds, warm, alive, borrows, bound, budget, closed, closer>>

-----------------------------------------------------------------------------
(* Close *)

CloseBegin(p) ==
  /\ closer[p] = "none"
  /\ closed' = [closed EXCEPT ![p] = TRUE]
  /\ closer' = [closer EXCEPT ![p] = "waiting"]
  /\ UNCHANGED <<pc, holds, warm, alive, borrows, bound, budget, wg>>

\* A plausible slip: the drain does not wait for the borrowers.
CloseUnwaited(p) ==
  /\ closer[p] = "waiting"
  /\ closer' = [closer EXCEPT ![p] = "draining"]
  /\ UNCHANGED <<pc, holds, warm, alive, borrows, bound, budget, closed, wg>>

\* p.wg.Wait()
CloseWaited(p) ==
  /\ closer[p] = "waiting" /\ wg[p] = 0
  /\ closer' = [closer EXCEPT ![p] = "draining"]
  /\ UNCHANGED <<pc, holds, warm, alive, borrows, bound, budget, closed, wg>>

Drain(p, i) ==
  /\ closer[p] = "draining" /\ i \in warm[p]
  /\ warm' = [warm EXCEPT ![p] = @ \ {i}]
  /\ alive' = alive \ {i}
  /\ release(PkgOf[p])
  /\ UNCHANGED <<pc, holds, borrows, bound, closed, wg, closer>>

CloseEnd(p) ==
  /\ closer[p] = "draining" /\ warm[p] = {}
  /\ closer' = [closer EXCEPT ![p] = "finished"]
  /\ UNCHANGED <<pc, holds, warm, alive, borrows, bound, budget, closed, wg>>

-----------------------------------------------------------------------------
\* Steps of a borrower that has entered Borrow.
Advance(b) ==
  \/ \E i \in Insts : TakeWarm(b, i) \/ FactoryOK(b, i)
  \/ IdleWindowOver(b) \/ Cancelled(b) \/ Recheck(b) \/ TryAcquire(b)
  \/ FactoryErr(b) \/ PollTick(b) \/ Deadline(b)

\* Steps of a borrower that has an instance, up to the end of Return.
GiveBack(b) ==
  Bind(b) \/ Finish(b) \/ ReadClosed(b) \/ Push(b) \/ Discard(b) \/ Leave(b)

Close(p) ==
  CloseWaited(p) \/ CloseEnd(p) \/ \E i \in Insts : Drain(p, i)

Next ==
  \/ \E b \in Borrowers : Enter(b) \/ Advance(b) \/ GiveBack(b)
  \/ \E p \in Pools : CloseBegin(p) \/ Close(p)

Spec == Init /\ [][Next]_vars

(***************************************************************************)
(* Fairness.  Goroutines run; timers fire.  A hook or handler call ends     *)
(* (HookTimeout, the statement cap and the overall budget interrupt it), so *)
(* every instance is returned.  The deadline channel stays ready once its   *)
(* timer has fired while the poll loop comes back to the select, and Go     *)
(* picks among the ready cases at random: strong fairness of Deadline.      *)
(***************************************************************************)
Fairness ==
  /\ \A b \in Borrowers :
       WF_vars(Advance(b)) /\ SF_vars(Deadline(b)) /\ WF_vars(GiveBack(b))
  /\ \A p \in Pools : WF_vars(Close(p))

FairSpec == Spec /\ Fairness

-----------------------------------------------------------------------------
(* Properties *)

Builders == {b \in Borrowers : pc[b] = "factory"}
BuildersOf(k) == {b \in Builders : pkg(b) = k}

\* Instances of a package: idle in one of its pools or in somebody's hands.
LiveOf(k) ==
  {i \in Insts : \/ \E p \in Pools : PkgOf[p] = k /\ i \in warm[p]
                 \/ \E b \in Borrowers : pkg(b) = k /\ holds[b] = i}

CountsExact ==
  /\ global = Cardinality(alive) + Cardinality(Builders)
  /\ \A k \in Pkgs : perPkg[k] = Cardinality(LiveOf(k)) + Cardinality(BuildersOf(k))

WithinCaps == global <= GlobalVMCap /\ \A k \in Pkgs : perPkg[k] <= PerPkgVMCap

NoOrphans == alive = UNION {LiveOf(k) : k \in Pkgs}

\* The budget is exact: it counts the VMs that exist and those being built, for
\* the process and for each package, whatever fails or is discarded, so release
\* never finds a zero counter (where it panics); both counts stay within their
\* caps; and no VM exists that neither a pool nor a borrower knows of, nor is one
\* used after it was closed.
BudgetExact == CountsExact /\ WithinCaps /\ NoOrphans

\* An instance is never in two hands, nor in a hand and a channel, nor in two
\* channels, so no two calls use one VM at a time.  While a borrower runs its hook or
\* execution, the key slot or `cur` of the instance is that of its own request, not of
\* the loan before; an idle handler instance belongs to no execution; and none is lent
\* more than maxBorrow times.  What JS of an earlier loan left behind in the VM (its
\* promise jobs) is not spoken of here: AnswersAreOwn of HandlerReply tells that such
\* a job runs in the next loan, and then acts on the request bound now.
ExclusiveUse ==
  /\ \A b, c \in Borrowers : holds[b] # NoInst /\ holds[b] = holds[c] => b = c
  /\ \A b \in Borrowers, p \in Pools : holds[b] \notin warm[p]
  /\ \A p, q \in Pools : warm[p] \cap warm[q] # {} => p = q
  /\ \A b \in Borrowers : pc[b] = "using" => bound[holds[b]] = b
  /\ \A p \in HandlerPools : \A i \in warm[p] : bound[i] = Nobody
  /\ \A b \in Borrowers :
       pool(b) \in HandlerPools /\ holds[b] # NoInst => borrows[holds[b]] <= MaxBorrow

\* When Close has returned, nothing of the pool is left or can come back.
ClosedPoolIsEmpty ==
  \A p \in Pools : closer[p] = "finished" =>
    /\ warm[p] = {}
    /\ \A b \in Borrowers : pool(b) = p => pc[b] = "out" /\ holds[b] = NoInst

\* A borrower always gets an instance or an error, and Close always returns: no
\* borrower leaves a WaitGroup count behind.
CallsReturn ==
  /\ \A b \in Borrowers : pc[b] = "idlewait" ~> pc[b] \in {"borrowed", "out"}
  /\ \A p \in Pools : closer[p] = "waiting" ~> closer[p] = "finished"
=============================================================================
