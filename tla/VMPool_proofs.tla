--------------------------- MODULE VMPool_proofs ---------------------------
(***************************************************************************)
(* Proofs about VMPool: for every number of borrowers, pools, packages and  *)
(* VMs and every setting of the caps, the VM budget is exact, an instance   *)
(* is in one place only and serves one request, and a closed pool is empty. *)
(***************************************************************************)
EXTENDS VMPool, FiniteSetTheorems, TLAPS

\* Places at which a borrower has an instance.
HasInst == InUse \cup {"returning", "pushing", "discarding"}

\* Borrowers between Borrow's wg.Add and the end of their call.
Inside(p) == {b \in Borrowers : pool(b) = p /\ pc[b] # "out"}

BorrowerOK(b) ==
  /\ holds[b] # NoInst <=> pc[b] \in HasInst
  /\ pc[b] = "using" => bound[holds[b]] = b

\* A VM exists exactly while it is idle in a channel or in somebody's hands.
Known ==
  \A i \in Insts :
    i \in alive <=> (\E p \in Pools : i \in warm[p]) \/ (\E b \in Borrowers : holds[b] = i)

OnePlace ==
  /\ \A b, c \in Borrowers : holds[b] # NoInst /\ holds[b] = holds[c] => b = c
  /\ \A b \in Borrowers, p \in Pools : holds[b] \notin warm[p]
  /\ \A p, q \in Pools : warm[p] \cap warm[q] # {} => p = q

\* The WaitGroup counts the borrowers inside, so the drain begins without them.
PoolOK(p) ==
  /\ closed[p] <=> closer[p] # "none"
  /\ wg[p] = Cardinality(Inside(p))
  /\ closer[p] \in {"draining", "finished"} => Inside(p) = {}
  /\ closer[p] = "finished" => warm[p] = {}

IndInv ==
  /\ TypeOK /\ Known /\ OnePlace /\ CountsExact /\ WithinCaps
  /\ \A b \in Borrowers : BorrowerOK(b)
  /\ \A p \in Pools : PoolOK(p)

-----------------------------------------------------------------------------
\* Everything that is counted is finite.
LEMMA Finite ==
  ASSUME TypeOK
  PROVE  /\ IsFiniteSet(alive) /\ Cardinality(alive) \in Nat
         /\ IsFiniteSet(Builders) /\ Cardinality(Builders) \in Nat
         /\ \A k \in Pkgs :
              /\ IsFiniteSet(BuildersOf(k)) /\ Cardinality(BuildersOf(k)) \in Nat
              /\ IsFiniteSet(LiveOf(k)) /\ Cardinality(LiveOf(k)) \in Nat
         /\ \A p \in Pools : IsFiniteSet(Inside(p)) /\ Cardinality(Inside(p)) \in Nat
<1>1. IsFiniteSet(Borrowers) /\ IsFiniteSet(Insts)
  BY FiniteAssumption
<1>2. IsFiniteSet(alive) /\ IsFiniteSet(Builders)
  BY <1>1, FS_Subset DEF TypeOK, Builders
<1>3. \A k \in Pkgs : IsFiniteSet(BuildersOf(k)) /\ IsFiniteSet(LiveOf(k))
  <2> TAKE k \in Pkgs
  <2>1. BuildersOf(k) \subseteq Borrowers /\ LiveOf(k) \subseteq Insts
    BY DEF BuildersOf, Builders, LiveOf
  <2> QED BY <1>1, <2>1, FS_Subset
<1>4. \A p \in Pools : IsFiniteSet(Inside(p))
  <2> TAKE p \in Pools
  <2>1. Inside(p) \subseteq Borrowers
    BY DEF Inside
  <2> QED BY <1>1, <2>1, FS_Subset
<1> QED BY <1>2, <1>3, <1>4, FS_CardinalityType

LEMMA PoolTypes ==
  ASSUME NEW b \in Borrowers
  PROVE  pool(b) \in Pools /\ pkg(b) \in Pkgs
BY PoolAssumption DEF pool, pkg

\* The sets of borrowers when one of them moves: nothing, one more, one less.
LEMMA BuildersMove ==
  ASSUME TypeOK, NEW b \in Borrowers, \A c \in Borrowers \ {b} : pc'[c] = pc[c]
  PROVE  /\ (pc'[b] = "factory" <=> pc[b] = "factory") =>
              Builders' = Builders /\ \A k \in Pkgs : BuildersOf(k)' = BuildersOf(k)
         /\ pc'[b] = "factory" /\ pc[b] # "factory" =>
              /\ Cardinality(Builders') = Cardinality(Builders) + 1
              /\ Cardinality(BuildersOf(pkg(b))') = Cardinality(BuildersOf(pkg(b))) + 1
              /\ \A k \in Pkgs \ {pkg(b)} : BuildersOf(k)' = BuildersOf(k)
         /\ pc'[b] # "factory" /\ pc[b] = "factory" =>
              /\ Cardinality(Builders') = Cardinality(Builders) - 1
              /\ Cardinality(BuildersOf(pkg(b))') = Cardinality(BuildersOf(pkg(b))) - 1
              /\ \A k \in Pkgs \ {pkg(b)} : BuildersOf(k)' = BuildersOf(k)
<1> USE PoolTypes
<1>1. CASE pc'[b] = "factory" <=> pc[b] = "factory"
  <2>1. Builders' = Builders
    BY <1>1 DEF Builders
  <2> QED BY <1>1, <2>1 DEF BuildersOf
<1>2. CASE pc'[b] = "factory" /\ pc[b] # "factory"
  <2>1. Builders' = Builders \cup {b} /\ b \notin Builders
    BY <1>2 DEF Builders
  <2>2. BuildersOf(pkg(b))' = BuildersOf(pkg(b)) \cup {b} /\ b \notin BuildersOf(pkg(b))
    BY <2>1 DEF BuildersOf
  <2>3. \A k \in Pkgs \ {pkg(b)} : BuildersOf(k)' = BuildersOf(k)
    BY <2>1 DEF BuildersOf
  <2> QED BY <1>2, <2>1, <2>2, <2>3, Finite, FS_AddElement
<1>3. CASE pc'[b] # "factory" /\ pc[b] = "factory"
  <2>1. Builders' = Builders \ {b} /\ b \in Builders
    BY <1>3 DEF Builders
  <2>2. BuildersOf(pkg(b))' = BuildersOf(pkg(b)) \ {b} /\ b \in BuildersOf(pkg(b))
    BY <2>1 DEF BuildersOf
  <2>3. \A k \in Pkgs \ {pkg(b)} : BuildersOf(k)' = BuildersOf(k)
    BY <2>1 DEF BuildersOf
  <2> QED BY <1>3, <2>1, <2>2, <2>3, Finite, FS_RemoveElement
<1> QED BY <1>1, <1>2, <1>3

LEMMA InsideMove ==
  ASSUME TypeOK, NEW b \in Borrowers, \A c \in Borrowers \ {b} : pc'[c] = pc[c]
  PROVE  /\ (pc'[b] = "out" <=> pc[b] = "out") => \A p \in Pools : Inside(p)' = Inside(p)
         /\ pc'[b] # "out" /\ pc[b] = "out" =>
              /\ Cardinality(Inside(pool(b))') = Cardinality(Inside(pool(b))) + 1
              /\ \A p \in Pools \ {pool(b)} : Inside(p)' = Inside(p)
         /\ pc'[b] = "out" /\ pc[b] # "out" =>
              /\ Cardinality(Inside(pool(b))') = Cardinality(Inside(pool(b))) - 1
              /\ Cardinality(Inside(pool(b))) >= 1
              /\ b \in Inside(pool(b))
              /\ \A p \in Pools \ {pool(b)} : Inside(p)' = Inside(p)
<1> USE PoolTypes
<1>1. CASE pc'[b] = "out" <=> pc[b] = "out"
  BY <1>1 DEF Inside
<1>2. CASE pc'[b] # "out" /\ pc[b] = "out"
  <2>1. Inside(pool(b))' = Inside(pool(b)) \cup {b} /\ b \notin Inside(pool(b))
    BY <1>2 DEF Inside
  <2>2. \A p \in Pools \ {pool(b)} : Inside(p)' = Inside(p)
    BY DEF Inside
  <2> QED BY <1>2, <2>1, <2>2, Finite, FS_AddElement
<1>3. CASE pc'[b] = "out" /\ pc[b] # "out"
  <2>1. Inside(pool(b))' = Inside(pool(b)) \ {b} /\ b \in Inside(pool(b))
    BY <1>3 DEF Inside
  <2>2. \A p \in Pools \ {pool(b)} : Inside(p)' = Inside(p)
    BY DEF Inside
  <2>3. IsFiniteSet(Inside(pool(b))) /\ Cardinality(Inside(pool(b))) \in Nat
    BY Finite
  <2>4. Cardinality(Inside(pool(b))) # 0
    BY <2>1, <2>3, FS_EmptySet
  <2>5. Cardinality(Inside(pool(b))) >= 1
    BY <2>3, <2>4
  <2>6. Cardinality(Inside(pool(b))') = Cardinality(Inside(pool(b))) - 1
    BY <2>1, <2>3, FS_RemoveElement
  <2> QED BY <1>3, <2>1, <2>2, <2>5, <2>6
<1> QED BY <1>1, <1>2, <1>3

\* The VMs of a package, when an instance goes from a channel to a hand or back.
LEMMA LiveSame ==
  ASSUME UNCHANGED <<holds, warm>>
  PROVE  \A k \in Pkgs : LiveOf(k)' = LiveOf(k)
BY DEF LiveOf

-----------------------------------------------------------------------------
(* Steps that move a borrower and no instance *)

Places == {"out"} \cup InBorrow \cup InUse \cup InReturn

LEMMA GoesTo ==
  ASSUME TypeOK, NEW b \in Borrowers, NEW s \in Places, goto(b, s)
  PROVE  /\ pc'[b] = s /\ \A c \in Borrowers \ {b} : pc'[c] = pc[c]
         /\ pc' \in [Borrowers -> Places]
BY DEF TypeOK, goto, Places

LEMMA PoolFrame ==
  ASSUME NEW p \in Pools, PoolOK(p), closed'[p] = closed[p], closer'[p] = closer[p],
         wg'[p] = wg[p], Inside(p)' = Inside(p),
         closer[p] = "finished" => warm'[p] = warm[p]
  PROVE  PoolOK(p)'
BY DEF PoolOK

\* A step inside a call that changes no count.
LEMMA Silent ==
  ASSUME IndInv, NEW b \in Borrowers, NEW s \in Places, goto(b, s),
         UNCHANGED <<holds, warm, alive, borrows, budget, closed, wg, closer>>,
         bound' \in [Insts -> Borrowers \cup {Nobody}],
         s = "factory" <=> pc[b] = "factory",
         s # "out", pc[b] # "out",
         s \in HasInst <=> pc[b] \in HasInst,
         \A c \in Borrowers \ {b} : pc[c] = "using" => bound'[holds[c]] = bound[holds[c]],
         s = "using" => bound'[holds[b]] = b
  PROVE  IndInv'
<1>1. /\ TypeOK /\ pc'[b] = s /\ \A c \in Borrowers \ {b} : pc'[c] = pc[c]
      /\ pc' \in [Borrowers -> Places]
  BY GoesTo DEF IndInv
<1>2. TypeOK'
  BY <1>1 DEF TypeOK, budget, Places
<1>3. Known' /\ OnePlace' /\ WithinCaps'
  BY DEF IndInv, Known, OnePlace, WithinCaps, budget
<1>4. CountsExact'
  <2>1. Builders' = Builders /\ \A k \in Pkgs : BuildersOf(k)' = BuildersOf(k)
    BY <1>1, BuildersMove
  <2> QED BY <2>1, LiveSame DEF IndInv, CountsExact, budget
<1>5. \A c \in Borrowers : BorrowerOK(c)'
  BY <1>1 DEF IndInv, BorrowerOK
<1>6. \A p \in Pools : PoolOK(p)'
  <2>1. \A p \in Pools : Inside(p)' = Inside(p)
    BY <1>1, InsideMove
  <2> QED BY <2>1, PoolFrame DEF IndInv
<1> QED BY <1>2, <1>3, <1>4, <1>5, <1>6 DEF IndInv

\* The pools when a borrower leaves without an instance.
LEMMA DepartPools ==
  ASSUME IndInv, NEW b \in Borrowers, pc[b] # "out", goto(b, "out"),
         wg' = [wg EXCEPT ![pool(b)] = @ - 1], UNCHANGED <<warm, closed, closer>>
  PROVE  wg' \in [Pools -> Nat] /\ \A p \in Pools : PoolOK(p)'
<1>1. /\ TypeOK /\ pc'[b] = "out" /\ \A c \in Borrowers \ {b} : pc'[c] = pc[c]
      /\ pool(b) \in Pools
  BY GoesTo, PoolTypes DEF IndInv, Places
<1>2. /\ Cardinality(Inside(pool(b))') = Cardinality(Inside(pool(b))) - 1
      /\ Cardinality(Inside(pool(b))) >= 1 /\ b \in Inside(pool(b))
      /\ \A p \in Pools \ {pool(b)} : Inside(p)' = Inside(p)
  BY <1>1, InsideMove
<1>3. /\ wg[pool(b)] = Cardinality(Inside(pool(b))) /\ wg[pool(b)] \in Nat
      /\ closer[pool(b)] \notin {"draining", "finished"}
  BY <1>1, <1>2 DEF IndInv, PoolOK, TypeOK
<1>4. /\ wg' \in [Pools -> Nat] /\ wg'[pool(b)] = wg[pool(b)] - 1
      /\ \A p \in Pools \ {pool(b)} : wg'[p] = wg[p]
  BY <1>1, <1>2, <1>3 DEF TypeOK
<1>5. PoolOK(pool(b))'
  BY <1>1, <1>2, <1>3, <1>4 DEF IndInv, PoolOK
<1>6. \A p \in Pools \ {pool(b)} : PoolOK(p)'
  BY <1>2, <1>4, PoolFrame DEF IndInv
<1> QED BY <1>4, <1>5, <1>6

\* A borrower leaves: with an error, or after Return.
LEMMA DepartStep ==
  ASSUME IndInv, NEW b \in Borrowers, pc[b] \notin HasInst \cup {"out", "factory"},
         goto(b, "out"), wg' = [wg EXCEPT ![pool(b)] = @ - 1],
         UNCHANGED <<holds, warm, alive, borrows, bound, budget, closed, closer>>
  PROVE  IndInv'
<1>1. /\ TypeOK /\ pc'[b] = "out" /\ \A c \in Borrowers \ {b} : pc'[c] = pc[c]
      /\ pc' \in [Borrowers -> Places]
  BY GoesTo DEF IndInv, Places
<1>2. wg' \in [Pools -> Nat] /\ \A p \in Pools : PoolOK(p)'
  BY DepartPools
<1>3. TypeOK'
  BY <1>1, <1>2 DEF TypeOK, budget, Places
<1>4. Known' /\ OnePlace' /\ WithinCaps'
  BY DEF IndInv, Known, OnePlace, WithinCaps, budget
<1>5. CountsExact'
  <2>1. Builders' = Builders /\ \A k \in Pkgs : BuildersOf(k)' = BuildersOf(k)
    BY <1>1, BuildersMove
  <2> QED BY <2>1, LiveSame DEF IndInv, CountsExact, budget
<1>6. \A c \in Borrowers : BorrowerOK(c)'
  BY <1>1 DEF IndInv, BorrowerOK, HasInst, InUse
<1> QED BY <1>2, <1>3, <1>4, <1>5, <1>6 DEF IndInv

\* A failed construction gives the budget back.
LEMMA FactoryErrStep ==
  ASSUME IndInv, NEW b \in Borrowers, FactoryErr(b)
  PROVE  IndInv'
<1>1. /\ TypeOK /\ pc[b] = "factory" /\ pc'[b] = "out"
      /\ \A c \in Borrowers \ {b} : pc'[c] = pc[c]
      /\ pc' \in [Borrowers -> Places]
      /\ global' = global - 1 /\ perPkg' = [perPkg EXCEPT ![pkg(b)] = @ - 1]
      /\ UNCHANGED <<holds, warm, alive, borrows, bound, closed, closer>>
      /\ pkg(b) \in Pkgs
  BY GoesTo, PoolTypes DEF IndInv, FactoryErr, fail, release, Places
<1>2. wg' \in [Pools -> Nat] /\ \A p \in Pools : PoolOK(p)'
  BY <1>1, DepartPools DEF FactoryErr, fail
<1>3. /\ Cardinality(Builders') = Cardinality(Builders) - 1
      /\ Cardinality(BuildersOf(pkg(b))') = Cardinality(BuildersOf(pkg(b))) - 1
      /\ \A k \in Pkgs \ {pkg(b)} : BuildersOf(k)' = BuildersOf(k)
  BY <1>1, BuildersMove
<1>4. b \in Builders /\ b \in BuildersOf(pkg(b))
  BY <1>1 DEF Builders, BuildersOf
<1>5. Cardinality(Builders) >= 1 /\ Cardinality(BuildersOf(pkg(b))) >= 1
  <2>1. Cardinality(Builders) # 0 /\ Cardinality(BuildersOf(pkg(b))) # 0
    BY <1>1, <1>4, Finite, FS_EmptySet
  <2> QED BY <1>1, <2>1, Finite
<1>6. /\ global \in Nat /\ global >= 1 /\ perPkg[pkg(b)] \in Nat /\ perPkg[pkg(b)] >= 1
      /\ global = Cardinality(alive) + Cardinality(Builders)
      /\ \A k \in Pkgs : perPkg[k] = Cardinality(LiveOf(k)) + Cardinality(BuildersOf(k))
  BY <1>1, <1>5, Finite DEF IndInv, CountsExact, TypeOK
<1>7. /\ global' \in Nat /\ perPkg' \in [Pkgs -> Nat]
      /\ perPkg'[pkg(b)] = perPkg[pkg(b)] - 1 /\ \A k \in Pkgs \ {pkg(b)} : perPkg'[k] = perPkg[k]
  BY <1>1, <1>6 DEF TypeOK
<1>8. TypeOK'
  BY <1>1, <1>2, <1>7 DEF TypeOK, Places
<1>9. Known' /\ OnePlace'
  BY <1>1 DEF IndInv, Known, OnePlace
<1>10. WithinCaps'
  BY <1>1, <1>6, <1>7, CapAssumption DEF IndInv, WithinCaps, TypeOK
<1>11. CountsExact'
  <2>1. \A k \in Pkgs : LiveOf(k)' = LiveOf(k)
    BY <1>1, LiveSame
  <2>2. global' = Cardinality(alive') + Cardinality(Builders')
    BY <1>1, <1>3, <1>6, Finite
  <2>3. \A k \in Pkgs : perPkg'[k] = Cardinality(LiveOf(k)') + Cardinality(BuildersOf(k)')
    <3> TAKE k \in Pkgs
    <3>1. CASE k = pkg(b)
      BY <1>1, <1>3, <1>6, <1>7, <2>1, <3>1, Finite
    <3>2. CASE k # pkg(b)
      BY <1>3, <1>6, <1>7, <2>1, <3>2
    <3> QED BY <3>1, <3>2
  <2> QED BY <2>2, <2>3 DEF CountsExact
<1>12. \A c \in Borrowers : BorrowerOK(c)'
  BY <1>1 DEF IndInv, BorrowerOK, HasInst, InUse
<1> QED BY <1>2, <1>8, <1>9, <1>10, <1>11, <1>12 DEF IndInv

LEMMA EnterStep ==
  ASSUME IndInv, NEW b \in Borrowers, Enter(b)
  PROVE  IndInv'
<1>1. /\ TypeOK /\ pc[b] = "out" /\ pc'[b] = "idlewait" /\ ~closed[pool(b)]
      /\ \A c \in Borrowers \ {b} : pc'[c] = pc[c]
      /\ pc' \in [Borrowers -> Places]
      /\ wg' = [wg EXCEPT ![pool(b)] = @ + 1]
      /\ UNCHANGED <<holds, warm, alive, borrows, bound, budget, closed, closer>>
      /\ pool(b) \in Pools
  BY GoesTo, PoolTypes DEF IndInv, Enter, Places, InBorrow
<1>2. /\ Cardinality(Inside(pool(b))') = Cardinality(Inside(pool(b))) + 1
      /\ \A p \in Pools \ {pool(b)} : Inside(p)' = Inside(p)
  BY <1>1, InsideMove
<1>3. /\ wg[pool(b)] = Cardinality(Inside(pool(b))) /\ wg[pool(b)] \in Nat
      /\ closer[pool(b)] = "none"
  BY <1>1 DEF IndInv, PoolOK, TypeOK
<1>4. /\ wg' \in [Pools -> Nat] /\ wg'[pool(b)] = wg[pool(b)] + 1
      /\ \A p \in Pools \ {pool(b)} : wg'[p] = wg[p]
  BY <1>1, <1>3 DEF TypeOK
<1>5. \A p \in Pools : PoolOK(p)'
  <2>1. PoolOK(pool(b))'
    BY <1>1, <1>2, <1>3, <1>4 DEF IndInv, PoolOK
  <2>2. \A p \in Pools \ {pool(b)} : PoolOK(p)'
    BY <1>1, <1>2, <1>4, PoolFrame DEF IndInv
  <2> QED BY <2>1, <2>2
<1>6. TypeOK'
  BY <1>1, <1>4 DEF TypeOK, budget, Places
<1>7. Known' /\ OnePlace' /\ WithinCaps'
  BY <1>1 DEF IndInv, Known, OnePlace, WithinCaps, budget
<1>8. CountsExact'
  <2>1. Builders' = Builders /\ \A k \in Pkgs : BuildersOf(k)' = BuildersOf(k)
    BY <1>1, BuildersMove
  <2> QED BY <1>1, <2>1, LiveSame DEF IndInv, CountsExact, budget
<1>9. \A c \in Borrowers : BorrowerOK(c)'
  BY <1>1 DEF IndInv, BorrowerOK, HasInst, InUse
<1> QED BY <1>5, <1>6, <1>7, <1>8, <1>9 DEF IndInv

\* Waiting, polling, and the steps of the caller and of Return that only decide.
LEMMA QuietStep ==
  ASSUME IndInv, NEW b \in Borrowers,
         \/ IdleWindowOver(b) \/ PollTick(b) \/ ReadClosed(b)
         \/ Recheck(b) /\ ~closed[pool(b)]
         \/ TryAcquire(b) /\ ~CanAcquire(pkg(b))
         \/ Push(b) /\ Cardinality(warm[pool(b)]) >= WarmCap
  PROVE  IndInv'
<1> USE DEF HasInst, InUse, InBorrow, InReturn, Places
<1>0. bound \in [Insts -> Borrowers \cup {Nobody}]
  BY DEF IndInv, TypeOK
<1>1. CASE IdleWindowOver(b)
  BY <1>0, <1>1, Silent DEF IdleWindowOver
<1>2. CASE PollTick(b)
  BY <1>0, <1>2, Silent DEF PollTick
<1>3. CASE ReadClosed(b)
  <2>1. PICK s \in {"discarding", "pushing"} : goto(b, s)
    BY <1>3 DEF ReadClosed
  <2> QED BY <1>0, <1>3, <2>1, Silent DEF ReadClosed
<1>4. CASE Recheck(b) /\ ~closed[pool(b)]
  BY <1>0, <1>4, Silent DEF Recheck, budget
<1>5. CASE TryAcquire(b) /\ ~CanAcquire(pkg(b))
  BY <1>0, <1>5, Silent DEF TryAcquire, budget
<1>6. CASE Push(b) /\ Cardinality(warm[pool(b)]) >= WarmCap
  <2>1. pool(b) \in Pools /\ WarmCap \in Nat
    BY PoolTypes, CapAssumption
  <2>2. Cardinality(warm[pool(b)]) \in Nat
    BY <2>1, FiniteAssumption, FS_Subset, FS_CardinalityType DEF IndInv, TypeOK
  <2>3. ~(Cardinality(warm[pool(b)]) < WarmCap)
    BY <1>6, <2>1, <2>2
  <2>4. /\ pc[b] = "pushing" /\ goto(b, "discarding")
        /\ UNCHANGED <<holds, warm, alive, borrows, bound, budget, closed, wg, closer>>
    BY <1>6, <2>3 DEF Push
  <2> QED BY <1>0, <2>4, Silent
<1> QED BY <1>1, <1>2, <1>3, <1>4, <1>5, <1>6

\* The instance is bound to its request, and freed of it.
LEMMA BoundStep ==
  ASSUME IndInv, NEW b \in Borrowers, Bind(b) \/ Finish(b)
  PROVE  IndInv'
<1> USE DEF HasInst, InUse, InBorrow, InReturn, Places
<1>0. bound \in [Insts -> Borrowers \cup {Nobody}] /\ holds \in [Borrowers -> Insts \cup {NoInst}]
  BY DEF IndInv, TypeOK
<1>1. holds[b] \in Insts /\ \A c \in Borrowers \ {b} : holds[c] # holds[b]
  <2>1. holds[b] # NoInst
    BY DEF IndInv, BorrowerOK, Bind, Finish
  <2> QED BY <1>0, <2>1 DEF IndInv, OnePlace
<1>2. CASE Bind(b)
  <2>1. /\ pc[b] = "borrowed" /\ goto(b, "using") /\ bound' = [bound EXCEPT ![holds[b]] = b]
        /\ UNCHANGED <<holds, warm, alive, borrows, budget, closed, wg, closer>>
    BY <1>2 DEF Bind
  <2>2. /\ bound' \in [Insts -> Borrowers \cup {Nobody}] /\ bound'[holds[b]] = b
        /\ \A c \in Borrowers \ {b} : bound'[holds[c]] = bound[holds[c]]
    <3>1. \A i \in Insts \ {holds[b]} : bound'[i] = bound[i]
      BY <1>0, <2>1
    <3>2. \A c \in Borrowers \ {b} : pc[c] = "using" => bound'[holds[c]] = bound[holds[c]]
      BY <1>0, <1>1, <3>1 DEF IndInv, BorrowerOK
    <3> QED BY <1>0, <1>1, <2>1
  <2> QED BY <2>1, <2>2, Silent
<1>3. CASE Finish(b)
  <2>1. PICK s \in {"discarding", "returning"} : goto(b, s)
    BY <1>3 DEF Finish
  <2>2. /\ pc[b] = "using"
        /\ UNCHANGED <<holds, warm, alive, borrows, budget, closed, wg, closer>>
        /\ \/ bound' = bound
           \/ bound' = [bound EXCEPT ![holds[b]] = Nobody]
    BY <1>3 DEF Finish
  <2>3. /\ bound' \in [Insts -> Borrowers \cup {Nobody}]
        /\ \A c \in Borrowers \ {b} : pc[c] = "using" => bound'[holds[c]] = bound[holds[c]]
    <3>1. \A c \in Borrowers : pc[c] = "using" => holds[c] \in Insts
      BY <1>0 DEF IndInv, BorrowerOK
    <3> QED BY <1>0, <1>1, <2>2, <3>1
  <2> QED BY <2>1, <2>2, <2>3, Silent
<1> QED BY <1>2, <1>3

\* A borrower goes away with an error, or Return ends.
LEMMA GoneStep ==
  ASSUME IndInv, NEW b \in Borrowers,
         \/ Cancelled(b) \/ Deadline(b) \/ Leave(b)
         \/ Recheck(b) /\ closed[pool(b)]
  PROVE  IndInv'
<1> USE DEF HasInst, InUse
<1>1. CASE Cancelled(b)
  BY <1>1, DepartStep DEF Cancelled, fail
<1>2. CASE Deadline(b)
  BY <1>2, DepartStep DEF Deadline, fail
<1>3. CASE Leave(b)
  BY <1>3, DepartStep DEF Leave
<1>4. CASE Recheck(b) /\ closed[pool(b)]
  BY <1>4, DepartStep DEF Recheck, fail
<1> QED BY <1>1, <1>2, <1>3, <1>4

\* The budget is taken before the VM is built.
LEMMA AcquireStep ==
  ASSUME IndInv, NEW b \in Borrowers, TryAcquire(b), CanAcquire(pkg(b))
  PROVE  IndInv'
<1>1. /\ TypeOK /\ pc[b] = "try" /\ pc'[b] = "factory"
      /\ \A c \in Borrowers \ {b} : pc'[c] = pc[c]
      /\ pc' \in [Borrowers -> Places]
      /\ global' = global + 1 /\ perPkg' = [perPkg EXCEPT ![pkg(b)] = @ + 1]
      /\ UNCHANGED <<holds, warm, alive, borrows, bound, closed, wg, closer>>
      /\ pkg(b) \in Pkgs
  BY GoesTo, PoolTypes DEF IndInv, TryAcquire, acquire, Places, InBorrow
<1>2. /\ Cardinality(Builders') = Cardinality(Builders) + 1
      /\ Cardinality(BuildersOf(pkg(b))') = Cardinality(BuildersOf(pkg(b))) + 1
      /\ \A k \in Pkgs \ {pkg(b)} : BuildersOf(k)' = BuildersOf(k)
  BY <1>1, BuildersMove
<1>3. /\ global \in Nat /\ perPkg[pkg(b)] \in Nat
      /\ global = Cardinality(alive) + Cardinality(Builders)
      /\ \A k \in Pkgs : perPkg[k] = Cardinality(LiveOf(k)) + Cardinality(BuildersOf(k))
  BY <1>1 DEF IndInv, CountsExact, TypeOK
<1>4. /\ global' \in Nat /\ perPkg' \in [Pkgs -> Nat]
      /\ perPkg'[pkg(b)] = perPkg[pkg(b)] + 1 /\ \A k \in Pkgs \ {pkg(b)} : perPkg'[k] = perPkg[k]
  BY <1>1, <1>3 DEF TypeOK
<1>5. TypeOK'
  BY <1>1, <1>4 DEF TypeOK, Places
<1>6. Known' /\ OnePlace'
  BY <1>1 DEF IndInv, Known, OnePlace
<1>7. WithinCaps'
  <2>1. global' <= GlobalVMCap /\ perPkg'[pkg(b)] <= PerPkgVMCap
    BY <1>1, <1>3, <1>4, CapAssumption DEF CanAcquire
  <2> QED BY <1>4, <2>1 DEF IndInv, WithinCaps
<1>8. CountsExact'
  <2>1. \A k \in Pkgs : LiveOf(k)' = LiveOf(k)
    BY <1>1, LiveSame
  <2>2. global' = Cardinality(alive') + Cardinality(Builders')
    BY <1>1, <1>2, <1>3, Finite
  <2>3. \A k \in Pkgs : perPkg'[k] = Cardinality(LiveOf(k)') + Cardinality(BuildersOf(k)')
    <3> TAKE k \in Pkgs
    <3>1. CASE k = pkg(b)
      BY <1>1, <1>2, <1>3, <1>4, <2>1, <3>1, Finite
    <3>2. CASE k # pkg(b)
      BY <1>2, <1>3, <1>4, <2>1, <3>2
    <3> QED BY <3>1, <3>2
  <2> QED BY <2>2, <2>3 DEF CountsExact
<1>9. \A c \in Borrowers : BorrowerOK(c)'
  BY <1>1 DEF IndInv, BorrowerOK, HasInst, InUse
<1>10. \A p \in Pools : PoolOK(p)'
  <2>1. \A p \in Pools : Inside(p)' = Inside(p)
    BY <1>1, InsideMove
  <2> QED BY <1>1, <2>1, PoolFrame DEF IndInv
<1> QED BY <1>5, <1>6, <1>7, <1>8, <1>9, <1>10 DEF IndInv

-----------------------------------------------------------------------------
(* Steps that move an instance *)

\* What only depends on where the borrowers are.
LEMMA SamePlaces ==
  ASSUME IndInv, NEW b \in Borrowers, NEW s \in Places, goto(b, s),
         s = "factory" <=> pc[b] = "factory", s # "out", pc[b] # "out",
         UNCHANGED <<closed, wg, closer>>,
         \A p \in Pools \ {pool(b)} : warm'[p] = warm[p]
  PROVE  /\ Builders' = Builders /\ \A k \in Pkgs : BuildersOf(k)' = BuildersOf(k)
         /\ \A p \in Pools : PoolOK(p)'
<1>1. /\ TypeOK /\ pc'[b] = s /\ \A c \in Borrowers \ {b} : pc'[c] = pc[c]
  BY GoesTo DEF IndInv
<1>2. \A p \in Pools : Inside(p)' = Inside(p)
  BY <1>1, InsideMove
<1>3. closer[pool(b)] # "finished"
  BY PoolTypes DEF IndInv, PoolOK, Inside
<1>4. \A p \in Pools : PoolOK(p)'
  BY <1>2, <1>3, PoolFrame DEF IndInv
<1> QED BY <1>1, <1>4, BuildersMove

\* An idle instance comes into a hand.
LEMMA TakeWarmStep ==
  ASSUME IndInv, NEW b \in Borrowers, NEW i \in Insts, TakeWarm(b, i)
  PROVE  IndInv'
<1>0. pool(b) \in Pools /\ pkg(b) \in Pkgs /\ pkg(b) = PkgOf[pool(b)]
  BY PoolTypes DEF pool, pkg
<1>1. /\ TypeOK /\ pc[b] \in {"idlewait", "queued"} /\ goto(b, "borrowed")
      /\ pc'[b] = "borrowed" /\ \A c \in Borrowers \ {b} : pc'[c] = pc[c]
      /\ pc' \in [Borrowers -> Places] /\ i \in warm[pool(b)]
      /\ UNCHANGED <<alive, bound, global, perPkg, closed, wg, closer>>
  BY GoesTo DEF IndInv, TakeWarm, Lend, Places, InUse, budget
<1>2. /\ holds' \in [Borrowers -> Insts \cup {NoInst}]
      /\ holds'[b] = i /\ \A c \in Borrowers \ {b} : holds'[c] = holds[c]
      /\ warm' \in [Pools -> SUBSET Insts]
      /\ warm'[pool(b)] = warm[pool(b)] \ {i} /\ \A p \in Pools \ {pool(b)} : warm'[p] = warm[p]
  BY <1>0, <1>1 DEF TakeWarm, Lend, TypeOK
<1>3. /\ holds[b] = NoInst /\ NoInst \notin Insts
      /\ \A c \in Borrowers : holds[c] # i /\ \A p \in Pools \ {pool(b)} : i \notin warm[p]
  BY <1>0, <1>1, PoolAssumption DEF IndInv, BorrowerOK, OnePlace, HasInst, InUse
<1>4. borrows' \in [Insts -> Nat]
  BY <1>1 DEF TakeWarm, TypeOK
<1>5. TypeOK'
  BY <1>1, <1>2, <1>4 DEF TypeOK, Places
<1>6. Known'
  <2> SUFFICES ASSUME NEW j \in Insts
               PROVE  j \in alive <=> \/ \E p \in Pools : j \in warm'[p]
                                      \/ \E c \in Borrowers : holds'[c] = j
    BY <1>1 DEF Known
  <2>1. j \in alive <=> (\E p \in Pools : j \in warm[p]) \/ (\E c \in Borrowers : holds[c] = j)
    BY DEF IndInv, Known
  <2>2. CASE j = i
    BY <1>0, <1>1, <1>2, <2>1, <2>2
  <2>3. CASE j # i
    <3>1. \A p \in Pools : j \in warm'[p] <=> j \in warm[p]
      BY <1>0, <1>2, <2>3
    <3>2. \A c \in Borrowers : holds'[c] = j <=> holds[c] = j
      BY <1>2, <1>3, <2>3
    <3> QED BY <2>1, <3>1, <3>2
  <2> QED BY <2>2, <2>3
<1>7. OnePlace'
  <2>1. \A p \in Pools : warm'[p] \subseteq warm[p]
    BY <1>0, <1>2
  <2>2. \A c, d \in Borrowers : holds'[c] # NoInst /\ holds'[c] = holds'[d] => c = d
    BY <1>2, <1>3 DEF IndInv, OnePlace
  <2>3. \A c \in Borrowers, p \in Pools : holds'[c] \notin warm'[p]
    BY <1>0, <1>2, <1>3, <2>1 DEF IndInv, OnePlace
  <2>4. \A p, q \in Pools : warm'[p] \cap warm'[q] # {} => p = q
    BY <2>1 DEF IndInv, OnePlace
  <2> QED BY <2>2, <2>3, <2>4 DEF OnePlace
<1>8. \A c \in Borrowers : BorrowerOK(c)'
  BY <1>1, <1>2, <1>3 DEF IndInv, BorrowerOK, HasInst, InUse
<1>9. /\ Builders' = Builders /\ \A k \in Pkgs : BuildersOf(k)' = BuildersOf(k)
      /\ \A p \in Pools : PoolOK(p)'
  BY <1>1, <1>2, SamePlaces DEF Places, InUse
<1>10. \A k \in Pkgs : LiveOf(k)' = LiveOf(k)
  <2> TAKE k \in Pkgs
  <2>1. ASSUME NEW j \in Insts, j # i PROVE j \in LiveOf(k)' <=> j \in LiveOf(k)
    <3>1. \A p \in Pools : j \in warm'[p] <=> j \in warm[p]
      BY <1>0, <1>2, <2>1
    <3>2. \A c \in Borrowers : holds'[c] = j <=> holds[c] = j
      BY <1>2, <1>3, <2>1
    <3> QED BY <3>1, <3>2 DEF LiveOf, pkg
  <2>2. i \in LiveOf(k)' <=> k = pkg(b)
    BY <1>0, <1>2, <1>3 DEF LiveOf, pkg
  <2>3. i \in LiveOf(k) <=> k = pkg(b)
    BY <1>0, <1>1, <1>3 DEF LiveOf, pkg
  <2> QED BY <2>1, <2>2, <2>3 DEF LiveOf
<1>11. CountsExact' /\ WithinCaps'
  BY <1>1, <1>9, <1>10 DEF IndInv, CountsExact, WithinCaps
<1> QED BY <1>5, <1>6, <1>7, <1>8, <1>9, <1>11 DEF IndInv

\* Return puts the instance back into the channel.
LEMMA PushStep ==
  ASSUME IndInv, NEW b \in Borrowers, Push(b), Cardinality(warm[pool(b)]) < WarmCap
  PROVE  IndInv'
<1>0. pool(b) \in Pools /\ pkg(b) \in Pkgs /\ pkg(b) = PkgOf[pool(b)]
  BY PoolTypes DEF pool, pkg
<1>00. WarmCap \in Nat /\ Cardinality(warm[pool(b)]) \in Nat
  BY <1>0, CapAssumption, FiniteAssumption, FS_Subset, FS_CardinalityType DEF IndInv, TypeOK
<1>01. ~(Cardinality(warm[pool(b)]) >= WarmCap)
  BY <1>00
<1>1. /\ TypeOK /\ pc[b] = "pushing" /\ goto(b, "leaving")
      /\ pc'[b] = "leaving" /\ \A c \in Borrowers \ {b} : pc'[c] = pc[c]
      /\ pc' \in [Borrowers -> Places]
      /\ UNCHANGED <<alive, borrows, bound, global, perPkg, closed, wg, closer>>
  BY <1>01, GoesTo DEF IndInv, Push, Places, InReturn, budget
<1> DEFINE i == holds[b]
<1>3. i \in Insts /\ NoInst \notin Insts /\ \A p \in Pools : i \notin warm[p]
  BY <1>1, PoolAssumption DEF IndInv, BorrowerOK, OnePlace, HasInst, TypeOK
<1>30. \A c \in Borrowers \ {b} : holds[c] # i
  BY <1>3 DEF IndInv, OnePlace
<1>2. /\ holds' \in [Borrowers -> Insts \cup {NoInst}]
      /\ holds'[b] = NoInst /\ \A c \in Borrowers \ {b} : holds'[c] = holds[c]
      /\ warm' \in [Pools -> SUBSET Insts]
      /\ warm'[pool(b)] = warm[pool(b)] \cup {holds[b]}
      /\ \A p \in Pools \ {pool(b)} : warm'[p] = warm[p]
  BY <1>0, <1>01, <1>1, <1>3 DEF Push, TypeOK
<1>5. TypeOK'
  BY <1>1, <1>2 DEF TypeOK, Places
<1>20. \A j \in Insts \ {i} :
         /\ \A p \in Pools : j \in warm'[p] <=> j \in warm[p]
         /\ \A c \in Borrowers : holds'[c] = j <=> holds[c] = j
  BY <1>0, <1>2, <1>3
<1>21. /\ i \in warm'[pool(b)] /\ \A p \in Pools \ {pool(b)} : i \notin warm'[p]
       /\ \A c \in Borrowers : holds'[c] # i
  BY <1>2, <1>3, <1>30
<1> HIDE DEF i
<1>6. Known'
  <2> SUFFICES ASSUME NEW j \in Insts
               PROVE  j \in alive <=> \/ \E p \in Pools : j \in warm'[p]
                                      \/ \E c \in Borrowers : holds'[c] = j
    BY <1>1 DEF Known
  <2>1. j \in alive <=> (\E p \in Pools : j \in warm[p]) \/ (\E c \in Borrowers : holds[c] = j)
    BY DEF IndInv, Known
  <2>2. CASE j = i
    BY <1>0, <1>21, <2>1, <2>2 DEF i
  <2>3. CASE j # i
    BY <1>20, <2>1, <2>3
  <2> QED BY <2>2, <2>3
<1>7. OnePlace'
  <2>1. \A c \in Borrowers : holds'[c] # NoInst => holds'[c] \in Insts \ {i} /\ holds[c] = holds'[c]
    BY <1>2, <1>21
  <2>2. \A c, d \in Borrowers : holds'[c] # NoInst /\ holds'[c] = holds'[d] => c = d
    BY <2>1 DEF IndInv, OnePlace
  <2>3. \A c \in Borrowers, p \in Pools : holds'[c] \notin warm'[p]
    <3> TAKE c \in Borrowers, p \in Pools
    <3>1. CASE holds'[c] = NoInst
      BY <1>2, <1>3, <3>1
    <3>2. CASE holds'[c] # NoInst
      <4>1. holds'[c] \in Insts \ {i} /\ holds'[c] = holds[c] /\ holds[c] \notin warm[p]
        BY <2>1, <3>2 DEF IndInv, OnePlace
      <4> QED BY <1>20, <4>1
    <3> QED BY <3>1, <3>2
  <2>4. \A p, q \in Pools : warm'[p] \cap warm'[q] # {} => p = q
    <3> SUFFICES ASSUME NEW p \in Pools, NEW q \in Pools, NEW j \in Insts,
                        j \in warm'[p], j \in warm'[q]
                 PROVE  p = q
      BY <1>2
    <3>1. CASE j = i
      BY <1>21, <3>1
    <3>2. CASE j # i
      <4>1. j \in warm[p] /\ j \in warm[q]
        BY <1>20, <3>2
      <4> QED BY <4>1 DEF IndInv, OnePlace
    <3> QED BY <3>1, <3>2
  <2> QED BY <2>2, <2>3, <2>4 DEF OnePlace
<1>8. \A c \in Borrowers : BorrowerOK(c)'
  BY <1>1, <1>2 DEF IndInv, BorrowerOK, HasInst, InUse
<1>9. /\ Builders' = Builders /\ \A k \in Pkgs : BuildersOf(k)' = BuildersOf(k)
      /\ \A p \in Pools : PoolOK(p)'
  BY <1>1, <1>2, SamePlaces DEF Places, InReturn
<1>10. \A k \in Pkgs : LiveOf(k)' = LiveOf(k)
  <2> TAKE k \in Pkgs
  <2>1. \A j \in Insts \ {i} : j \in LiveOf(k)' <=> j \in LiveOf(k)
    BY <1>20 DEF LiveOf, pkg
  <2>2. i \in LiveOf(k)' <=> k = pkg(b)
    BY <1>0, <1>21, <1>3 DEF LiveOf, pkg
  <2>3. i \in LiveOf(k) <=> k = pkg(b)
    BY <1>0, <1>3, <1>30 DEF LiveOf, pkg, i
  <2> QED BY <2>1, <2>2, <2>3 DEF LiveOf
<1>11. CountsExact' /\ WithinCaps'
  BY <1>1, <1>9, <1>10 DEF IndInv, CountsExact, WithinCaps
<1> QED BY <1>5, <1>6, <1>7, <1>8, <1>9, <1>11 DEF IndInv

\* A new VM replaces the borrower that was building it.
LEMMA FactoryOKStep ==
  ASSUME IndInv, NEW b \in Borrowers, NEW i \in Insts, FactoryOK(b, i)
  PROVE  IndInv'
<1>0. pool(b) \in Pools /\ pkg(b) \in Pkgs /\ NoInst \notin Insts
  BY PoolTypes, PoolAssumption
<1>1. /\ TypeOK /\ pc[b] = "factory" /\ pc'[b] = "borrowed" /\ i \notin alive
      /\ \A c \in Borrowers \ {b} : pc'[c] = pc[c]
      /\ pc' \in [Borrowers -> Places] /\ alive' = alive \cup {i}
      /\ UNCHANGED <<warm, global, perPkg, closed, wg, closer>>
  BY GoesTo DEF IndInv, FactoryOK, Places, InUse, budget
<1>2. /\ holds' \in [Borrowers -> Insts \cup {NoInst}]
      /\ holds'[b] = i /\ \A c \in Borrowers \ {b} : holds'[c] = holds[c]
      /\ bound' \in [Insts -> Borrowers \cup {Nobody}]
      /\ \A j \in Insts \ {i} : bound'[j] = bound[j]
  BY <1>1 DEF FactoryOK, TypeOK
<1>3. /\ holds[b] = NoInst
      /\ \A c \in Borrowers : holds[c] # i /\ \A p \in Pools : i \notin warm[p]
  BY <1>1 DEF IndInv, BorrowerOK, Known, HasInst, InUse
<1>4. borrows' \in [Insts -> Nat]
  BY <1>1 DEF FactoryOK, TypeOK
<1>5. TypeOK'
  BY <1>1, <1>2, <1>4 DEF TypeOK, Places
<1>6. Known'
  <2> SUFFICES ASSUME NEW j \in Insts
               PROVE  j \in alive' <=> \/ \E p \in Pools : j \in warm[p]
                                       \/ \E c \in Borrowers : holds'[c] = j
    BY <1>1 DEF Known
  <2>1. j \in alive <=> (\E p \in Pools : j \in warm[p]) \/ (\E c \in Borrowers : holds[c] = j)
    BY DEF IndInv, Known
  <2>2. CASE j = i
    BY <1>1, <1>2, <2>2
  <2>3. CASE j # i
    <3>1. \A c \in Borrowers : holds'[c] = j <=> holds[c] = j
      BY <1>0, <1>2, <1>3, <2>3
    <3> QED BY <1>1, <2>1, <2>3, <3>1
  <2> QED BY <2>2, <2>3
<1>7. OnePlace'
  <2>1. \A c, d \in Borrowers : holds'[c] # NoInst /\ holds'[c] = holds'[d] => c = d
    BY <1>2, <1>3 DEF IndInv, OnePlace
  <2>2. \A c \in Borrowers, p \in Pools : holds'[c] \notin warm[p]
    BY <1>2, <1>3 DEF IndInv, OnePlace
  <2> QED BY <1>1, <2>1, <2>2 DEF IndInv, OnePlace
<1>8. \A c \in Borrowers : BorrowerOK(c)'
  <2> TAKE c \in Borrowers
  <2>1. CASE c = b
    BY <1>0, <1>1, <1>2, <2>1 DEF BorrowerOK, HasInst, InUse
  <2>2. CASE c # b
    <3>1. pc'[c] = pc[c] /\ holds'[c] = holds[c] /\ BorrowerOK(c)
      BY <1>1, <1>2, <2>2 DEF IndInv
    <3>2. pc[c] = "using" => holds[c] \in Insts \ {i}
      BY <1>1, <1>3, <3>1 DEF BorrowerOK, HasInst, InUse, TypeOK
    <3> QED BY <1>2, <3>1, <3>2 DEF BorrowerOK
  <2> QED BY <2>1, <2>2
<1>9. \A p \in Pools : PoolOK(p)'
  <2>1. \A p \in Pools : Inside(p)' = Inside(p)
    BY <1>1, InsideMove
  <2> QED BY <1>1, <2>1, PoolFrame DEF IndInv
<1>10. /\ Cardinality(Builders') = Cardinality(Builders) - 1
       /\ Cardinality(BuildersOf(pkg(b))') = Cardinality(BuildersOf(pkg(b))) - 1
       /\ \A k \in Pkgs \ {pkg(b)} : BuildersOf(k)' = BuildersOf(k)
  BY <1>1, BuildersMove
<1>11. Cardinality(alive') = Cardinality(alive) + 1
  BY <1>1, Finite, FS_AddElement
<1>12. \A k \in Pkgs :
         LiveOf(k)' = IF k = pkg(b) THEN LiveOf(k) \cup {i} ELSE LiveOf(k)
  <2> TAKE k \in Pkgs
  <2>1. ASSUME NEW j \in Insts \ {i} PROVE j \in LiveOf(k)' <=> j \in LiveOf(k)
    <3>1. \A c \in Borrowers : holds'[c] = j <=> holds[c] = j
      BY <1>0, <1>2, <1>3, <2>1
    <3> QED BY <1>1, <3>1 DEF LiveOf, pkg
  <2>2. i \in LiveOf(k)' <=> k = pkg(b)
    BY <1>0, <1>1, <1>2, <1>3 DEF LiveOf, pkg
  <2>3. i \notin LiveOf(k) /\ LiveOf(k) \subseteq Insts /\ LiveOf(k)' \subseteq Insts
    BY <1>3 DEF LiveOf
  <2> QED BY <2>1, <2>2, <2>3
<1>13. i \notin LiveOf(pkg(b))
  BY <1>3 DEF LiveOf
<1>14. Cardinality(LiveOf(pkg(b))') = Cardinality(LiveOf(pkg(b))) + 1
  BY <1>0, <1>1, <1>12, <1>13, Finite, FS_AddElement
<1>15. CountsExact' /\ WithinCaps'
  <2>1. /\ global = Cardinality(alive) + Cardinality(Builders)
        /\ \A k \in Pkgs : perPkg[k] = Cardinality(LiveOf(k)) + Cardinality(BuildersOf(k))
    BY DEF IndInv, CountsExact
  <2>2. global' = Cardinality(alive') + Cardinality(Builders')
    BY <1>1, <1>10, <1>11, <2>1, Finite
  <2>3. \A k \in Pkgs : perPkg'[k] = Cardinality(LiveOf(k)') + Cardinality(BuildersOf(k)')
    <3> TAKE k \in Pkgs
    <3>1. CASE k = pkg(b)
      BY <1>1, <1>10, <1>14, <2>1, <3>1, Finite
    <3>2. CASE k # pkg(b)
      BY <1>1, <1>10, <1>12, <2>1, <3>2
    <3> QED BY <3>1, <3>2
  <2> QED BY <1>1, <2>2, <2>3 DEF IndInv, CountsExact, WithinCaps
<1> QED BY <1>5, <1>6, <1>7, <1>8, <1>9, <1>15 DEF IndInv

\* The counts when an instance of package k is closed and its budget given back.
LEMMA ClosedVM ==
  ASSUME IndInv, NEW k \in Pkgs, NEW i \in Insts, TypeOK',
         i \in alive, i \in LiveOf(k),
         alive' = alive \ {i}, LiveOf(k)' = LiveOf(k) \ {i},
         \A m \in Pkgs \ {k} : LiveOf(m)' = LiveOf(m),
         Builders' = Builders, \A m \in Pkgs : BuildersOf(m)' = BuildersOf(m),
         global' = global - 1, perPkg'[k] = perPkg[k] - 1,
         \A m \in Pkgs \ {k} : perPkg'[m] = perPkg[m]
  PROVE  CountsExact' /\ WithinCaps'
<1>0. TypeOK
  BY DEF IndInv
<1>1. /\ global \in Nat /\ perPkg[k] \in Nat
      /\ global = Cardinality(alive) + Cardinality(Builders)
      /\ \A m \in Pkgs : perPkg[m] = Cardinality(LiveOf(m)) + Cardinality(BuildersOf(m))
  BY DEF IndInv, CountsExact, TypeOK
<1>2. /\ Cardinality(alive') = Cardinality(alive) - 1
      /\ Cardinality(LiveOf(k)') = Cardinality(LiveOf(k)) - 1
  BY <1>0, Finite, FS_RemoveElement
<1>3. global' = Cardinality(alive') + Cardinality(Builders')
  BY <1>0, <1>1, <1>2, Finite
<1>4. \A m \in Pkgs : perPkg'[m] = Cardinality(LiveOf(m)') + Cardinality(BuildersOf(m)')
  <2> TAKE m \in Pkgs
  <2>1. CASE m = k
    <3>1. Cardinality(LiveOf(k)) \in Nat /\ Cardinality(BuildersOf(k)) \in Nat
      BY <1>0, Finite
    <3>2. perPkg[k] = Cardinality(LiveOf(k)) + Cardinality(BuildersOf(k))
      BY <1>1
    <3>3. Cardinality(BuildersOf(k)') = Cardinality(BuildersOf(k))
      OBVIOUS
    <3>4. perPkg'[k] = Cardinality(LiveOf(k)') + Cardinality(BuildersOf(k)')
      BY <1>2, <3>1, <3>2, <3>3
    <3> QED BY <2>1, <3>4
  <2>2. CASE m # k
    <3>1. /\ LiveOf(m)' = LiveOf(m) /\ BuildersOf(m)' = BuildersOf(m)
          /\ perPkg'[m] = perPkg[m]
      BY <2>2
    <3>2. perPkg[m] = Cardinality(LiveOf(m)) + Cardinality(BuildersOf(m))
      BY <1>1
    <3> QED BY <3>1, <3>2
  <2> QED BY <2>1, <2>2
<1>5. WithinCaps'
  <2>1. global' <= GlobalVMCap /\ perPkg'[k] <= PerPkgVMCap
    BY <1>1, CapAssumption DEF IndInv, WithinCaps
  <2> QED BY <2>1 DEF IndInv, WithinCaps
<1> QED BY <1>3, <1>4, <1>5 DEF CountsExact

\* The counters that are decremented count at least the VM that is closed.
LEMMA NoUnderflow ==
  ASSUME IndInv, NEW k \in Pkgs, NEW i \in Insts, i \in alive, i \in LiveOf(k)
  PROVE  global >= 1 /\ perPkg[k] >= 1 /\ global \in Nat /\ perPkg \in [Pkgs -> Nat]
<1>0. TypeOK
  BY DEF IndInv
<1>1. Cardinality(alive) # 0 /\ Cardinality(LiveOf(k)) # 0
  BY <1>0, Finite, FS_EmptySet
<1>2. /\ global \in Nat /\ perPkg \in [Pkgs -> Nat]
      /\ global = Cardinality(alive) + Cardinality(Builders)
      /\ perPkg[k] = Cardinality(LiveOf(k)) + Cardinality(BuildersOf(k))
  BY DEF IndInv, CountsExact, TypeOK
<1> QED BY <1>0, <1>1, <1>2, Finite

\* Return closes the instance of its hand.
LEMMA DiscardStep ==
  ASSUME IndInv, NEW b \in Borrowers, Discard(b)
  PROVE  IndInv'
<1> DEFINE i == holds[b]
<1>0. pool(b) \in Pools /\ pkg(b) \in Pkgs /\ NoInst \notin Insts
  BY PoolTypes, PoolAssumption
<1>1. /\ TypeOK /\ pc[b] = "discarding" /\ pc'[b] = "leaving" /\ goto(b, "leaving")
      /\ \A c \in Borrowers \ {b} : pc'[c] = pc[c]
      /\ pc' \in [Borrowers -> Places] /\ alive' = alive \ {i}
      /\ global' = global - 1 /\ perPkg' = [perPkg EXCEPT ![pkg(b)] = @ - 1]
      /\ UNCHANGED <<warm, borrows, bound, closed, wg, closer>>
  BY GoesTo DEF IndInv, Discard, release, Places, InReturn
<1>2. i \in Insts /\ \A p \in Pools : i \notin warm[p]
  BY <1>0, <1>1 DEF IndInv, BorrowerOK, OnePlace, HasInst, TypeOK
<1>3. \A c \in Borrowers \ {b} : holds[c] # i
  BY <1>0, <1>2 DEF IndInv, OnePlace
<1>4. /\ holds' \in [Borrowers -> Insts \cup {NoInst}]
      /\ holds'[b] = NoInst /\ \A c \in Borrowers \ {b} : holds'[c] = holds[c]
  BY <1>1 DEF Discard, TypeOK
<1>5. i \in alive /\ i \in LiveOf(pkg(b))
  BY <1>0, <1>2 DEF IndInv, Known, LiveOf
<1>6. \A c \in Borrowers : holds'[c] # i
  BY <1>0, <1>2, <1>3, <1>4
<1>7. \A j \in Insts \ {i} : \A c \in Borrowers : holds'[c] = j <=> holds[c] = j
  BY <1>0, <1>4
<1> HIDE DEF i
<1>8. global >= 1 /\ perPkg[pkg(b)] >= 1 /\ global \in Nat /\ perPkg \in [Pkgs -> Nat]
  BY <1>0, <1>2, <1>5, NoUnderflow
<1>9. /\ global' \in Nat /\ perPkg' \in [Pkgs -> Nat] /\ perPkg'[pkg(b)] = perPkg[pkg(b)] - 1
      /\ \A m \in Pkgs \ {pkg(b)} : perPkg'[m] = perPkg[m]
  BY <1>0, <1>1, <1>8
<1>10. TypeOK'
  BY <1>1, <1>4, <1>9 DEF TypeOK, Places
<1>11. Known'
  <2> SUFFICES ASSUME NEW j \in Insts
               PROVE  j \in alive' <=> \/ \E p \in Pools : j \in warm[p]
                                       \/ \E c \in Borrowers : holds'[c] = j
    BY <1>1 DEF Known
  <2>1. j \in alive <=> (\E p \in Pools : j \in warm[p]) \/ (\E c \in Borrowers : holds[c] = j)
    BY DEF IndInv, Known
  <2>2. CASE j = i
    BY <1>1, <1>2, <1>6, <2>2
  <2>3. CASE j # i
    BY <1>1, <1>7, <2>1, <2>3
  <2> QED BY <2>2, <2>3
<1>12. OnePlace'
  <2>1. \A c \in Borrowers : holds'[c] # NoInst => holds'[c] = holds[c]
    BY <1>4
  <2>2. \A c, d \in Borrowers : holds'[c] # NoInst /\ holds'[c] = holds'[d] => c = d
    BY <2>1 DEF IndInv, OnePlace
  <2>3. \A c \in Borrowers, p \in Pools : holds'[c] \notin warm[p]
    BY <1>0, <1>1, <2>1 DEF IndInv, OnePlace, TypeOK
  <2> QED BY <1>1, <2>2, <2>3 DEF IndInv, OnePlace
<1>13. \A c \in Borrowers : BorrowerOK(c)'
  BY <1>1, <1>4 DEF IndInv, BorrowerOK, HasInst, InUse
<1>14. /\ Builders' = Builders /\ \A k \in Pkgs : BuildersOf(k)' = BuildersOf(k)
       /\ \A p \in Pools : PoolOK(p)'
  BY <1>1, SamePlaces DEF Places, InReturn
<1>15. \A k \in Pkgs :
         LiveOf(k)' = IF k = pkg(b) THEN LiveOf(k) \ {i} ELSE LiveOf(k)
  <2> TAKE k \in Pkgs
  <2>1. ASSUME NEW j \in Insts \ {i} PROVE j \in LiveOf(k)' <=> j \in LiveOf(k)
    <3>1. \A c \in Borrowers : holds'[c] = j <=> holds[c] = j
      BY <1>7
    <3> QED BY <1>1, <3>1 DEF LiveOf, pkg
  <2>2. i \notin LiveOf(k)'
    BY <1>1, <1>2, <1>6 DEF LiveOf, pkg
  <2>3. i \in LiveOf(k) => k = pkg(b)
    BY <1>2, <1>3 DEF LiveOf, pkg
  <2>4. LiveOf(k) \subseteq Insts /\ LiveOf(k)' \subseteq Insts
    BY DEF LiveOf
  <2> QED BY <2>1, <2>2, <2>3, <2>4
<1>16. CountsExact' /\ WithinCaps'
  BY <1>0, <1>1, <1>2, <1>5, <1>9, <1>10, <1>14, <1>15, ClosedVM
<1> QED BY <1>10, <1>11, <1>12, <1>13, <1>14, <1>16 DEF IndInv

\* Close empties the channel, when nobody is inside.
LEMMA DrainStep ==
  ASSUME IndInv, NEW p \in Pools, NEW i \in Insts, Drain(p, i)
  PROVE  IndInv'
<1> DEFINE pk == PkgOf[p]
<1>0. pk \in Pkgs /\ NoInst \notin Insts
  BY PoolAssumption
<1>1. /\ TypeOK /\ closer[p] = "draining" /\ i \in warm[p] /\ alive' = alive \ {i}
      /\ global' = global - 1 /\ perPkg' = [perPkg EXCEPT ![pk] = @ - 1]
      /\ UNCHANGED <<pc, holds, borrows, bound, closed, wg, closer>>
  BY DEF IndInv, Drain, release
<1>2. /\ warm' \in [Pools -> SUBSET Insts] /\ warm'[p] = warm[p] \ {i}
      /\ \A q \in Pools \ {p} : warm'[q] = warm[q] /\ i \notin warm[q]
      /\ \A c \in Borrowers : holds[c] # i
  BY <1>1 DEF IndInv, OnePlace, Drain, TypeOK
<1>5. i \in alive /\ i \in LiveOf(pk)
  BY <1>0, <1>1 DEF IndInv, Known, LiveOf
<1>7. /\ \A j \in Insts \ {i} : \A q \in Pools : j \in warm'[q] <=> j \in warm[q]
      /\ \A q \in Pools : i \notin warm'[q] /\ warm'[q] \subseteq warm[q]
  BY <1>2
<1>8. global >= 1 /\ perPkg[pk] >= 1 /\ global \in Nat /\ perPkg \in [Pkgs -> Nat]
  BY <1>0, <1>5, NoUnderflow
<1>9. /\ global' \in Nat /\ perPkg' \in [Pkgs -> Nat] /\ perPkg'[pk] = perPkg[pk] - 1
      /\ \A m \in Pkgs \ {pk} : perPkg'[m] = perPkg[m]
  BY <1>0, <1>1, <1>8
<1>10. TypeOK'
  BY <1>1, <1>2, <1>9 DEF TypeOK
<1>11. Known'
  <2> SUFFICES ASSUME NEW j \in Insts
               PROVE  j \in alive' <=> \/ \E q \in Pools : j \in warm'[q]
                                       \/ \E c \in Borrowers : holds[c] = j
    BY <1>1 DEF Known
  <2>1. j \in alive <=> (\E q \in Pools : j \in warm[q]) \/ (\E c \in Borrowers : holds[c] = j)
    BY DEF IndInv, Known
  <2>2. CASE j = i
    BY <1>1, <1>2, <1>7, <2>2
  <2>3. CASE j # i
    BY <1>1, <1>7, <2>1, <2>3
  <2> QED BY <2>2, <2>3
<1>12. OnePlace'
  BY <1>1, <1>7 DEF IndInv, OnePlace
<1>13. \A c \in Borrowers : BorrowerOK(c)'
  BY <1>1 DEF IndInv, BorrowerOK
<1>14. /\ Builders' = Builders /\ \A k \in Pkgs : BuildersOf(k)' = BuildersOf(k)
       /\ \A q \in Pools : Inside(q)' = Inside(q)
  BY <1>1 DEF Builders, BuildersOf, Inside
<1>15. \A q \in Pools : PoolOK(q)'
  BY <1>1, <1>2, <1>14 DEF IndInv, PoolOK
<1>16. \A k \in Pkgs : LiveOf(k)' = IF k = pk THEN LiveOf(k) \ {i} ELSE LiveOf(k)
  <2> TAKE k \in Pkgs
  <2>1. \A j \in Insts \ {i} : j \in LiveOf(k)' <=> j \in LiveOf(k)
    BY <1>1, <1>7 DEF LiveOf, pkg
  <2>2. i \notin LiveOf(k)'
    BY <1>1, <1>2, <1>7 DEF LiveOf, pkg
  <2>3. i \in LiveOf(k) => k = pk
    BY <1>2 DEF LiveOf, pkg
  <2>4. LiveOf(k) \subseteq Insts /\ LiveOf(k)' \subseteq Insts
    BY DEF LiveOf
  <2> QED BY <2>1, <2>2, <2>3, <2>4
<1> HIDE DEF pk
<1>17. CountsExact' /\ WithinCaps'
  BY <1>0, <1>1, <1>5, <1>9, <1>10, <1>14, <1>16, ClosedVM
<1> QED BY <1>10, <1>11, <1>12, <1>13, <1>15, <1>17 DEF IndInv

\* The other steps of Close.
LEMMA CloseStep ==
  ASSUME IndInv, NEW p \in Pools, CloseBegin(p) \/ CloseWaited(p) \/ CloseEnd(p)
  PROVE  IndInv'
<1>1. /\ UNCHANGED <<pc, holds, warm, alive, borrows, bound, global, perPkg, wg>>
      /\ \A q \in Pools : Inside(q)' = Inside(q)
  BY DEF CloseBegin, CloseWaited, CloseEnd, budget, Inside
<1>2. TypeOK'
  BY <1>1 DEF IndInv, TypeOK, CloseBegin, CloseWaited, CloseEnd
<1>3. Known' /\ OnePlace' /\ WithinCaps' /\ CountsExact'
  <2>1. /\ Builders' = Builders /\ \A k \in Pkgs : BuildersOf(k)' = BuildersOf(k)
        /\ \A k \in Pkgs : LiveOf(k)' = LiveOf(k)
    BY <1>1 DEF Builders, BuildersOf, LiveOf
  <2> QED BY <1>1, <2>1 DEF IndInv, Known, OnePlace, WithinCaps, CountsExact
<1>4. \A c \in Borrowers : BorrowerOK(c)'
  BY <1>1 DEF IndInv, BorrowerOK
<1>5. \A q \in Pools \ {p} : PoolOK(q)'
  BY <1>1, PoolFrame DEF IndInv, TypeOK, CloseBegin, CloseWaited, CloseEnd
<1>6. PoolOK(p)'
  <2>0. closer[p] \in {"none", "waiting", "draining", "finished"} /\ PoolOK(p) /\ TypeOK
    BY DEF IndInv, TypeOK
  <2>1. CASE CloseBegin(p)
    BY <1>1, <2>0, <2>1 DEF PoolOK, CloseBegin, TypeOK
  <2>2. CASE CloseWaited(p)
    <3>1. Inside(p) = {}
      BY <2>0, <2>2, Finite, FS_EmptySet DEF PoolOK, CloseWaited
    <3> QED BY <1>1, <2>0, <2>2, <3>1 DEF PoolOK, CloseWaited, TypeOK
  <2>3. CASE CloseEnd(p)
    BY <1>1, <2>0, <2>3 DEF PoolOK, CloseEnd, TypeOK
  <2> QED BY <2>1, <2>2, <2>3
<1> QED BY <1>2, <1>3, <1>4, <1>5, <1>6 DEF IndInv

-----------------------------------------------------------------------------
LEMMA InitIndInv == Init => IndInv
<1> SUFFICES ASSUME Init PROVE IndInv
  OBVIOUS
<1>1. NoInst \notin Insts /\ GlobalVMCap \in Nat /\ PerPkgVMCap \in Nat
  BY PoolAssumption, CapAssumption
<1>2. TypeOK
  BY DEF Init, TypeOK
<1>3. Known /\ OnePlace
  BY <1>1 DEF Init, Known, OnePlace
<1>4. CountsExact
  <2>1. Builders = {} /\ alive = {} /\ \A k \in Pkgs : BuildersOf(k) = {} /\ LiveOf(k) = {}
    BY <1>1 DEF Init, Builders, BuildersOf, LiveOf
  <2>2. global = 0 /\ \A k \in Pkgs : perPkg[k] = 0
    BY DEF Init
  <2>3. Cardinality({}) = 0
    BY FS_EmptySet
  <2>4. global = Cardinality(alive) + Cardinality(Builders)
    BY <2>1, <2>2, <2>3
  <2>5. \A k \in Pkgs : perPkg[k] = Cardinality(LiveOf(k)) + Cardinality(BuildersOf(k))
    BY <2>1, <2>2, <2>3
  <2> QED BY <2>4, <2>5 DEF CountsExact
<1>5. WithinCaps
  BY <1>1 DEF Init, WithinCaps
<1>6. \A b \in Borrowers : BorrowerOK(b)
  BY DEF Init, BorrowerOK, HasInst, InUse
<1>7. \A p \in Pools : PoolOK(p)
  <2>1. \A p \in Pools : Inside(p) = {}
    BY DEF Init, Inside
  <2> QED BY <2>1, FS_EmptySet DEF Init, PoolOK
<1> QED BY <1>2, <1>3, <1>4, <1>5, <1>6, <1>7 DEF IndInv

LEMMA StepIndInv == IndInv /\ [Next]_vars => IndInv'
<1> SUFFICES ASSUME IndInv, [Next]_vars PROVE IndInv'
  OBVIOUS
<1>1. ASSUME NEW b \in Borrowers, Enter(b) PROVE IndInv'
  BY <1>1, EnterStep
<1>2. ASSUME NEW b \in Borrowers, Advance(b) PROVE IndInv'
  <2>1. ASSUME NEW i \in Insts, TakeWarm(b, i) \/ FactoryOK(b, i) PROVE IndInv'
    BY <2>1, TakeWarmStep, FactoryOKStep
  <2>2. CASE Cancelled(b) \/ Deadline(b)
    BY <2>2, GoneStep
  <2>3. CASE Recheck(b)
    <3>1. CASE closed[pool(b)]
      BY <2>3, <3>1, GoneStep
    <3>2. CASE ~closed[pool(b)]
      BY <2>3, <3>2, QuietStep
    <3> QED BY <3>1, <3>2
  <2>4. CASE TryAcquire(b)
    <3>1. CASE CanAcquire(pkg(b))
      BY <2>4, <3>1, AcquireStep
    <3>2. CASE ~CanAcquire(pkg(b))
      BY <2>4, <3>2, QuietStep
    <3> QED BY <3>1, <3>2
  <2>5. CASE IdleWindowOver(b) \/ PollTick(b)
    BY <2>5, QuietStep
  <2>6. CASE FactoryErr(b)
    BY <2>6, FactoryErrStep
  <2> QED BY <1>2, <2>1, <2>2, <2>3, <2>4, <2>5, <2>6 DEF Advance
<1>3. ASSUME NEW b \in Borrowers, GiveBack(b) PROVE IndInv'
  <2>1. CASE Bind(b) \/ Finish(b)
    BY <2>1, BoundStep
  <2>2. CASE ReadClosed(b)
    BY <2>2, QuietStep
  <2>3. CASE Push(b)
    <3>1. CASE Cardinality(warm[pool(b)]) < WarmCap
      BY <2>3, <3>1, PushStep
    <3>2. CASE Cardinality(warm[pool(b)]) >= WarmCap
      BY <2>3, <3>2, QuietStep
    <3> QED BY <2>3, <3>1, <3>2 DEF Push
  <2>4. CASE Discard(b)
    BY <2>4, DiscardStep
  <2>5. CASE Leave(b)
    BY <2>5, GoneStep
  <2> QED BY <1>3, <2>1, <2>2, <2>3, <2>4, <2>5 DEF GiveBack
<1>4. ASSUME NEW p \in Pools, CloseBegin(p) \/ Close(p) PROVE IndInv'
  BY <1>4, CloseStep, DrainStep DEF Close
<1>5. CASE UNCHANGED vars
  <2>1. /\ UNCHANGED <<pc, holds, warm, alive, bound, global, perPkg, closed, wg, closer, borrows>>
    BY <1>5 DEF vars
  <2>2. /\ Builders' = Builders /\ \A k \in Pkgs : BuildersOf(k)' = BuildersOf(k)
        /\ \A k \in Pkgs : LiveOf(k)' = LiveOf(k)
        /\ \A p \in Pools : Inside(p)' = Inside(p)
    BY <2>1 DEF Builders, BuildersOf, LiveOf, Inside
  <2>3. TypeOK' /\ Known' /\ OnePlace' /\ CountsExact' /\ WithinCaps'
    BY <2>1, <2>2 DEF IndInv, TypeOK, Known, OnePlace, CountsExact, WithinCaps
  <2>4. /\ \A b \in Borrowers : BorrowerOK(b)'
        /\ \A p \in Pools : PoolOK(p)'
    BY <2>1, <2>2 DEF IndInv, BorrowerOK, PoolOK
  <2> QED BY <2>3, <2>4 DEF IndInv
<1> QED BY <1>1, <1>2, <1>3, <1>4, <1>5 DEF Next

LEMMA Inductive == Spec => []IndInv
BY InitIndInv, StepIndInv, PTL DEF Spec

\* The VM budget counts the VMs that exist and those being built, never beyond
\* its caps, and no VM is lost or used after it was closed (vmBudget, Borrow,
\* Return, discard and Close of the pools).
THEOREM BudgetIsExact == Spec => []BudgetExact
<1>1. IndInv => NoOrphans
  <2> SUFFICES ASSUME IndInv PROVE NoOrphans
    OBVIOUS
  <2>1. alive \subseteq UNION {LiveOf(k) : k \in Pkgs}
    BY PoolAssumption, PoolTypes DEF IndInv, TypeOK, Known, LiveOf
  <2>2. UNION {LiveOf(k) : k \in Pkgs} \subseteq alive
    BY DEF IndInv, Known, LiveOf
  <2> QED BY <2>1, <2>2 DEF NoOrphans
<1>2. IndInv => BudgetExact
  BY <1>1 DEF IndInv, BudgetExact
<1> QED BY <1>2, Inductive, PTL

\* Handler instances: what is idle, just borrowed or on its way back has no execution,
\* and what is not to be discarded has a loan left.
HandlersOK ==
  /\ \A p \in HandlerPools : \A i \in warm[p] : bound[i] = Nobody /\ borrows[i] < MaxBorrow
  /\ \A b \in Borrowers : pool(b) \in HandlerPools =>
       /\ pc[b] \in HasInst \ {"using"} => bound[holds[b]] = Nobody
       /\ pc[b] \in {"returning", "pushing"} => borrows[holds[b]] < MaxBorrow
       /\ pc[b] \in HasInst => borrows[holds[b]] <= MaxBorrow

\* Every step keeps this: a loan adds one, a build starts at one, and the end of an
\* execution clears what it bound.
LEMMA HandlersStep == IndInv /\ IndInv' /\ HandlersOK /\ [Next]_vars => HandlersOK'
<1> SUFFICES ASSUME IndInv, IndInv', HandlersOK, [Next]_vars
             PROVE  HandlersOK'
  OBVIOUS
<1> USE PoolTypes, CapAssumption, PoolAssumption
<1>0. HandlerPools \subseteq Pools
  OBVIOUS
<1>1. CASE UNCHANGED vars
  BY <1>1 DEF vars, HandlersOK
<1>2. ASSUME NEW b \in Borrowers, NEW i \in Insts, TakeWarm(b, i)
      PROVE  HandlersOK'
  BY <1>0, <1>2 DEF IndInv, TypeOK, BorrowerOK, OnePlace, HandlersOK, HasInst, InUse, TakeWarm, Lend, goto
<1>3. ASSUME NEW b \in Borrowers, NEW i \in Insts, FactoryOK(b, i)
      PROVE  HandlersOK'
  BY <1>0, <1>3 DEF IndInv, TypeOK, BorrowerOK, Known, HandlersOK, HasInst, InUse, FactoryOK, goto
<1>4. ASSUME NEW b \in Borrowers,
             \/ Enter(b) \/ IdleWindowOver(b) \/ Cancelled(b) \/ Recheck(b) \/ TryAcquire(b)
             \/ FactoryErr(b) \/ PollTick(b) \/ Deadline(b) \/ Leave(b)
      PROVE  HandlersOK'
  BY <1>0, <1>4 DEF IndInv, TypeOK, HandlersOK, HasInst, InUse, Enter, IdleWindowOver, Cancelled,
     Recheck, TryAcquire, FactoryErr, PollTick, Deadline, Leave, fail, goto
<1>5. ASSUME NEW b \in Borrowers, Bind(b) \/ Finish(b)
      PROVE  HandlersOK'
  BY <1>0, <1>5 DEF IndInv, TypeOK, BorrowerOK, OnePlace, HandlersOK, HasInst, InUse, Bind, Finish, goto
<1>6. ASSUME NEW b \in Borrowers, ReadClosed(b) \/ Push(b) \/ Discard(b)
      PROVE  HandlersOK'
  BY <1>0, <1>6 DEF IndInv, TypeOK, HandlersOK, HasInst, InUse, ReadClosed, Push, Discard, goto
<1>7. ASSUME NEW p \in Pools, CloseBegin(p) \/ Close(p)
      PROVE  HandlersOK'
  BY <1>0, <1>7 DEF IndInv, TypeOK, HandlersOK, HasInst, InUse, CloseBegin, Close, CloseWaited,
     CloseEnd, Drain
<1> QED BY <1>1, <1>2, <1>3, <1>4, <1>5, <1>6, <1>7 DEF Next, Advance, GiveBack

\* No instance is in two places; a running hook or execution finds its own request
\* bound to the instance it was lent, an idle handler instance has no execution, and no
\* handler instance is lent more often than maxBorrow.
THEOREM InstancesAreExclusive == Spec => []ExclusiveUse
<1>1. Init => HandlersOK
  BY PoolAssumption DEF Init, HandlersOK, HasInst, InUse
<1>2. Spec => []HandlersOK
  BY <1>1, HandlersStep, Inductive, PTL DEF Spec
<1>3. IndInv /\ HandlersOK => ExclusiveUse
  <2> SUFFICES ASSUME IndInv, HandlersOK
               PROVE  ExclusiveUse
    OBVIOUS
  <2>1. OnePlace /\ \A b \in Borrowers : BorrowerOK(b)
    BY DEF IndInv
  <2> QED BY <2>1 DEF HandlersOK, OnePlace, BorrowerOK, ExclusiveUse
<1> QED BY <1>2, <1>3, Inductive, PTL

\* Once Close has returned, no VM of the pool is left, and none comes back.
THEOREM ClosedMeansEmpty == Spec => []ClosedPoolIsEmpty
<1>1. IndInv => ClosedPoolIsEmpty
  BY DEF IndInv, PoolOK, BorrowerOK, Inside, HasInst, InUse, ClosedPoolIsEmpty
<1> QED BY <1>1, Inductive, PTL

=============================================================================
