------------------------- MODULE PartsCache_proofs -------------------------
(***************************************************************************)
(* Proofs about PartsCache: for every number of requests and of changes,    *)
(* the reference counts are exact, held parts stay open, evicted ones are   *)
(* closed, and a request is served with parts no older than itself.         *)
(***************************************************************************)
EXTENDS PartsCache, FiniteSetTheorems, TLAPS

\* Before its entry exists; between its making and its first use.
Early == {"new", "look", "check", "inc", "match", "unhold", "read", "stamp"}
Own == {"store", "checkFresh", "incFresh"}

share(p) == IF part[p].evict = "done" THEN 0 ELSE 1

\* An entry: the requests that hold it, its place in the cache, its end.
EntryOK(p) ==
  /\ pc[p] \in Early => ~part[p].built
  /\ pc[p] \in Own => part[p].built
  /\ ~part[p].built \/ pc[p] = "store" =>
       ~part[p].dead /\ ~part[p].closed /\ part[p].evict = "no" /\ cache # p
  /\ part[p].built => part[p].refs = Cardinality(Holders(p)) + share(p)
  /\ part[p].built /\ pc[p] # "store" =>
       /\ (cache = p) <=> (part[p].evict = "no")
       /\ part[p].dead <=> part[p].evict \in {"drop", "done"}
  /\ part[p].closed => part[p].evict = "done"
  /\ \A q \in Holders(p) : q \notin late => ~part[p].closed
  /\ part[p].evict = "done" /\ Holders(p) = {} => part[p].closed

Current(q, p) ==
  /\ part[p].code >= born[q][1] /\ part[p].vals >= born[q][2]
  /\ part[p].fingerprint = mine[q]

\* A request: what it looks at exists, what it builds is no older than itself.
RequestOK(q) ==
  /\ born[q][1] <= rev /\ born[q][2] <= ver
  /\ pc[q] \in {"check", "inc", "match", "unhold", "use"} =>
       using[q] \in Reqs /\ part[using[q]].built
  /\ pc[q] \in {"stamp"} \cup Own =>
       using[q] = q /\ part[q].code >= born[q][1] /\ part[q].vals >= born[q][2]
  /\ pc[q] \in Own => part[q].fingerprint = mine[q]
  /\ pc[q] = "use" /\ ~torn(using[q]) => Current(q, using[q])

IndInv == TypeOK /\ \A q \in Reqs : EntryOK(q) /\ RequestOK(q)

-----------------------------------------------------------------------------
\* Holders are counted by natural numbers.
LEMMA HoldersFinite ==
  ASSUME NEW p \in Reqs
  PROVE  IsFiniteSet(Holders(p)) /\ Cardinality(Holders(p)) \in Nat
<1>1. IsFiniteSet(Holders(p))
  BY ReqAssumption, FS_Subset DEF Holders
<1> QED BY <1>1, FS_CardinalityType

\* What a request that moves does to the holders of an entry, and to their number.
LEMMA HoldersMove ==
  ASSUME NEW q \in Reqs, NEW p \in Reqs,
         \A r \in Reqs \ {q} : pc'[r] = pc[r] /\ using'[r] = using[r]
  PROVE  /\ holds(q, p)' <=> holds(q, p) => Holders(p)' = Holders(p)
         /\ holds(q, p)' /\ ~holds(q, p) =>
              /\ Holders(p)' = Holders(p) \cup {q}
              /\ Cardinality(Holders(p)') = Cardinality(Holders(p)) + 1
         /\ ~holds(q, p)' /\ holds(q, p) =>
              /\ Holders(p)' = Holders(p) \ {q}
              /\ Cardinality(Holders(p)') = Cardinality(Holders(p)) - 1
<1>1. \A r \in Reqs \ {q} : holds(r, p)' <=> holds(r, p)
  BY DEF holds
<1>2. CASE holds(q, p)' <=> holds(q, p)
  BY <1>1, <1>2 DEF Holders
<1>3. CASE holds(q, p)' /\ ~holds(q, p)
  <2>1. Holders(p)' = Holders(p) \cup {q} /\ q \notin Holders(p)
    BY <1>1, <1>3 DEF Holders
  <2> QED BY <1>3, <2>1, HoldersFinite, FS_AddElement
<1>4. CASE ~holds(q, p)' /\ holds(q, p)
  <2>1. Holders(p)' = Holders(p) \ {q} /\ q \in Holders(p)
    BY <1>1, <1>4 DEF Holders
  <2> QED BY <1>4, <2>1, HoldersFinite, FS_RemoveElement
<1> QED BY <1>2, <1>3, <1>4

\* An entry that a step leaves alone, whatever its builder does meanwhile.
LEMMA EntryFrame ==
  ASSUME NEW p \in Reqs, EntryOK(p), part'[p] = part[p], cache' = p <=> cache = p,
         Holders(p)' = Holders(p), \A q \in Holders(p) : q \in late => q \in late',
         \/ pc'[p] = pc[p]
         \/ /\ pc[p] # "store" /\ pc'[p] # "store"
            /\ pc'[p] \in Early => pc[p] \in Early
            /\ pc'[p] \in Own => pc[p] \in Own
  PROVE  EntryOK(p)'
BY DEF EntryOK, share

\* What a request knows of entries stays true while their values stay.
LEMMA RequestFrame ==
  ASSUME TypeOK, TypeOK', NEW q \in Reqs, RequestOK(q),
         pc'[q] = pc[q], using'[q] = using[q], mine'[q] = mine[q], born'[q] = born[q],
         rev' >= rev, ver' >= ver,
         \A p \in Reqs : part[p].built =>
           /\ part'[p].built
           /\ part'[p].code = part[p].code /\ part'[p].vals = part[p].vals
           /\ part'[p].baseRev = part[p].baseRev /\ part'[p].settingsVer = part[p].settingsVer
           /\ part'[p].fingerprint = part[p].fingerprint,
         pc[q] \in {"stamp"} \cup Own =>
           /\ part'[q].code = part[q].code /\ part'[q].vals = part[q].vals
           /\ part'[q].fingerprint = part[q].fingerprint
  PROVE  RequestOK(q)'
<1>1. born[q][1] \in Nat /\ born[q][2] \in Nat /\ rev \in Nat /\ ver \in Nat /\ rev' \in Nat /\ ver' \in Nat
  BY DEF TypeOK
<1>2. (born[q][1] <= rev /\ born[q][2] <= ver)'
  BY <1>1 DEF RequestOK
<1> QED BY <1>2 DEF RequestOK, Current, torn, Own

\* Steps that leave the entries' values alone and concern one request.
LEMMA OneRequest ==
  ASSUME IndInv, TypeOK', NEW q \in Reqs, UNCHANGED <<rev, ver>>,
         \A r \in Reqs \ {q} :
           pc'[r] = pc[r] /\ using'[r] = using[r] /\ mine'[r] = mine[r] /\ born'[r] = born[r],
         \A p \in Reqs : part[p].built \/ p # q =>
           /\ part'[p].built = part[p].built
           /\ part'[p].code = part[p].code /\ part'[p].vals = part[p].vals
           /\ part'[p].baseRev = part[p].baseRev /\ part'[p].settingsVer = part[p].settingsVer
           /\ part'[p].fingerprint = part[p].fingerprint,
         RequestOK(q)'
  PROVE  \A r \in Reqs : RequestOK(r)'
<1> TAKE r \in Reqs
<1>1. rev' >= rev /\ ver' >= ver
  BY DEF IndInv, TypeOK
<1>2. CASE r # q
  BY <1>1, <1>2, RequestFrame DEF IndInv
<1> QED BY <1>2

\* Steps of a request that change no entry, nor who holds what.
LEMMA OnlyMoves ==
  ASSUME IndInv, TypeOK', NEW q \in Reqs, UNCHANGED <<world, cache, part>>,
         \A r \in Reqs \ {q} :
           /\ pc'[r] = pc[r] /\ using'[r] = using[r] /\ mine'[r] = mine[r] /\ born'[r] = born[r]
           /\ r \in late => r \in late',
         \A p \in Reqs : holds(q, p)' <=> holds(q, p),
         \A p \in Reqs : holds(q, p) /\ q \in late => q \in late',
         pc[q] # "store" /\ pc'[q] # "store",
         pc'[q] \in Early => pc[q] \in Early,
         pc'[q] \in Own => pc[q] \in Own,
         RequestOK(q)'
  PROVE  IndInv'
<1>1. \A p \in Reqs : EntryOK(p)'
  <2> TAKE p \in Reqs
  <2>1. Holders(p)' = Holders(p)
    BY HoldersMove
  <2>2. \A r \in Holders(p) : r \in late => r \in late'
    BY DEF Holders
  <2>3. EntryOK(p) /\ part'[p] = part[p] /\ cache' = cache
    BY DEF IndInv
  <2> QED BY <2>1, <2>2, <2>3, EntryFrame
<1>2. \A r \in Reqs : RequestOK(r)'
  BY OneRequest DEF world
<1> QED BY <1>1, <1>2 DEF IndInv

\* A request that leaves knows nothing.
LEMMA LeaveTypes ==
  ASSUME TypeOK, NEW q \in Reqs, NEW s \in {"failed", "done"}, leave(q, s)
  PROVE  /\ pc' \in [Reqs -> Steps] /\ using' \in [Reqs -> Reqs \cup {None}]
         /\ mine' \in [Reqs -> Nat] /\ born' \in [Reqs -> Nat \X Nat] /\ late' \in SUBSET Reqs
         /\ pc'[q] = s /\ born'[q] = <<0, 0>>
         /\ \A r \in Reqs \ {q} :
              /\ pc'[r] = pc[r] /\ using'[r] = using[r] /\ mine'[r] = mine[r] /\ born'[r] = born[r]
              /\ r \in late => r \in late'
BY DEF TypeOK, leave, goto, Steps

LEMMA LeftIsOK ==
  ASSUME NEW q \in Reqs, pc'[q] \in {"failed", "done"}, born'[q] = <<0, 0>>, rev' \in Nat, ver' \in Nat
  PROVE  RequestOK(q)'
BY DEF RequestOK, Own

LEMMA BeginStep ==
  ASSUME IndInv, NEW q \in Reqs, Begin(q)
  PROVE  IndInv'
<1>1. /\ TypeOK /\ RequestOK(q) /\ pc[q] = "new" /\ pc'[q] = "look"
      /\ born'[q] = <<rev, ver>>
      /\ UNCHANGED <<world, cache, part, using, late>>
      /\ \A r \in Reqs \ {q} : pc'[r] = pc[r] /\ mine'[r] = mine[r] /\ born'[r] = born[r]
  BY DEF IndInv, TypeOK, Begin, goto
<1>2. TypeOK'
  BY DEF IndInv, TypeOK, Begin, goto, Steps, world
<1>3. RequestOK(q)'
  BY <1>1 DEF RequestOK, Own, world, TypeOK
<1>4. \A p \in Reqs : ~holds(q, p) /\ ~holds(q, p)'
  BY <1>1 DEF holds
<1> QED BY <1>1, <1>2, <1>3, <1>4, OnlyMoves DEF Early, Own

LEMMA LookStep ==
  ASSUME IndInv, NEW q \in Reqs, Look(q)
  PROVE  IndInv'
<1>1. /\ TypeOK /\ RequestOK(q) /\ pc[q] = "look"
      /\ pc'[q] = IF cache = None THEN "read" ELSE "check"
      /\ using'[q] = cache
      /\ UNCHANGED <<world, cache, part, request, late>>
      /\ \A r \in Reqs \ {q} : pc'[r] = pc[r] /\ using'[r] = using[r]
  BY DEF IndInv, TypeOK, Look, goto
<1>2. TypeOK'
  BY DEF IndInv, TypeOK, Look, goto, Steps, world, request
<1>3. cache # None => cache \in Reqs /\ part[cache].built
  BY DEF IndInv, TypeOK, EntryOK
<1>4. RequestOK(q)'
  BY <1>1, <1>3 DEF RequestOK, Own, world, request
<1>5. \A p \in Reqs : ~holds(q, p) /\ ~holds(q, p)'
  BY <1>1 DEF holds
<1> QED BY <1>1, <1>2, <1>4, <1>5, OnlyMoves DEF Early, Own, request

LEMMA CheckDeadStep ==
  ASSUME IndInv, NEW q \in Reqs, CheckDead(q)
  PROVE  IndInv'
<1>1. /\ TypeOK /\ RequestOK(q) /\ pc[q] = "check" /\ pc'[q] \in {"read", "inc"}
      /\ UNCHANGED <<world, cache, part, using, request, late>>
      /\ \A r \in Reqs \ {q} : pc'[r] = pc[r]
  BY DEF IndInv, TypeOK, CheckDead, goto
<1>2. TypeOK'
  BY DEF IndInv, TypeOK, CheckDead, goto, Steps, world, request
<1>3. RequestOK(q)'
  BY <1>1 DEF RequestOK, Own, world, request
<1>4. \A p \in Reqs : ~holds(q, p) /\ ~holds(q, p)'
  BY <1>1 DEF holds
<1> QED BY <1>1, <1>2, <1>3, <1>4, OnlyMoves DEF Early, Own, request

LEMMA CheckFreshStep ==
  ASSUME IndInv, NEW q \in Reqs, CheckFresh(q)
  PROVE  IndInv'
<1>1. TypeOK /\ RequestOK(q) /\ pc[q] = "checkFresh" /\ UNCHANGED <<world, cache, part>>
  BY DEF IndInv, CheckFresh
<1>2. CASE leave(q, "failed")
  <2>1. TypeOK'
    BY <1>1, <1>2, LeaveTypes DEF TypeOK, world
  <2>2. RequestOK(q)'
    BY <1>1, <1>2, <2>1, LeaveTypes, LeftIsOK DEF TypeOK
  <2>3. \A p \in Reqs : ~holds(q, p) /\ ~holds(q, p)'
    BY <1>1, <1>2, LeaveTypes DEF holds
  <2> QED BY <1>1, <1>2, <2>1, <2>2, <2>3, LeaveTypes, OnlyMoves DEF Early, Own
<1>3. CASE goto(q, "incFresh") /\ UNCHANGED <<using, request, late>>
  <2>1. pc'[q] = "incFresh" /\ \A r \in Reqs \ {q} : pc'[r] = pc[r]
    BY <1>1, <1>3 DEF goto, TypeOK
  <2>2. TypeOK'
    BY <1>1, <1>3 DEF TypeOK, goto, Steps, world, request
  <2>3. RequestOK(q)'
    BY <1>1, <1>3, <2>1 DEF RequestOK, Own, world, request
  <2>4. \A p \in Reqs : ~holds(q, p) /\ ~holds(q, p)'
    BY <1>1, <2>1 DEF holds
  <2> QED BY <1>1, <1>3, <2>1, <2>2, <2>3, <2>4, OnlyMoves DEF Early, Own, request
<1> QED BY <1>2, <1>3 DEF CheckFresh

\* matches compares the entry with what is installed now.
LEMMA MatchStep ==
  ASSUME IndInv, NEW q \in Reqs, Match(q)
  PROVE  IndInv'
<1> DEFINE x == part[using[q]]
<1>1. /\ TypeOK /\ RequestOK(q) /\ pc[q] = "match"
      /\ pc'[q] = IF x.baseRev = rev /\ x.settingsVer = ver /\ x.fingerprint = mine[q]
                  THEN "use" ELSE "unhold"
      /\ UNCHANGED <<world, cache, part, using, request, late>>
      /\ \A r \in Reqs \ {q} : pc'[r] = pc[r]
  BY DEF IndInv, TypeOK, Match, goto
<1>2. TypeOK'
  BY DEF IndInv, TypeOK, Match, goto, Steps, world, request
<1>3. using[q] \in Reqs /\ x \in PartState
  BY <1>1 DEF RequestOK, TypeOK
<1>4. /\ x.code \in Nat /\ x.vals \in Nat
      /\ pc'[q] = "use" /\ ~torn(using[q]) => x.code = rev /\ x.vals = ver /\ x.fingerprint = mine[q]
  BY <1>1, <1>3 DEF PartState, torn
<1>5. RequestOK(q)'
  BY <1>1, <1>4 DEF RequestOK, Current, torn, Own, world, request, TypeOK
<1>6. \A p \in Reqs : holds(q, p)' <=> holds(q, p)
  BY <1>1 DEF holds
<1> QED BY <1>1, <1>2, <1>5, <1>6, OnlyMoves DEF Early, Own, request

LEMMA BuildFailsStep ==
  ASSUME IndInv, NEW q \in Reqs, BuildFails(q)
  PROVE  IndInv'
<1>1. TypeOK /\ pc[q] = "stamp" /\ UNCHANGED <<world, cache, part>> /\ leave(q, "failed")
  BY DEF IndInv, BuildFails
<1>2. TypeOK'
  BY <1>1, LeaveTypes DEF TypeOK, world
<1>3. RequestOK(q)'
  BY <1>1, <1>2, LeaveTypes, LeftIsOK DEF TypeOK
<1>4. \A p \in Reqs : ~holds(q, p) /\ ~holds(q, p)'
  BY <1>1, LeaveTypes DEF holds
<1> QED BY <1>1, <1>2, <1>3, <1>4, LeaveTypes, OnlyMoves DEF Early, Own

\* What an update of one entry leaves alone.
LEMMA PartUpdate ==
  ASSUME TypeOK, NEW p \in Reqs, NEW x \in PartState, part' = [part EXCEPT ![p] = x]
  PROVE  part'[p] = x /\ part' \in [Reqs -> PartState] /\ \A r \in Reqs \ {p} : part'[r] = part[r]
BY DEF TypeOK

\* acquire increments the count of an entry that may be closed by now.
LEMMA IncStep ==
  ASSUME IndInv, NEW q \in Reqs, Inc(q)
  PROVE  IndInv'
<1>e. PICK e \in Reqs : e = using[q]
  BY DEF IndInv, Inc, RequestOK, Own
<1> DEFINE x == [part[e] EXCEPT !.refs = part[e].refs + 1]
<1>1. /\ TypeOK /\ RequestOK(q) /\ EntryOK(e) /\ e \in Reqs /\ part[e].built /\ part[e] \in PartState
      /\ pc[q] \in {"inc", "incFresh"} /\ pc'[q] = IF pc[q] = "inc" THEN "match" ELSE "use"
      /\ part' = [part EXCEPT ![e] = x]
      /\ late' = IF part[e].closed THEN late \cup {q} ELSE late
      /\ UNCHANGED <<world, cache, using, request>>
      /\ \A r \in Reqs \ {q} : pc'[r] = pc[r]
  <2>1. TypeOK /\ RequestOK(q) /\ EntryOK(q) /\ pc[q] \in {"inc", "incFresh"}
    BY DEF IndInv, Inc
  <2>2. part[e].built
    BY <1>e, <2>1 DEF RequestOK, EntryOK, Own
  <2> QED BY <1>e, <2>1, <2>2 DEF IndInv, TypeOK, Inc, goto
<1>2. /\ x \in PartState /\ x.refs = part[e].refs + 1
      /\ x.built = part[e].built /\ x.dead = part[e].dead /\ x.closed = part[e].closed
      /\ x.evict = part[e].evict /\ x.code = part[e].code /\ x.vals = part[e].vals
      /\ x.baseRev = part[e].baseRev /\ x.settingsVer = part[e].settingsVer
      /\ x.fingerprint = part[e].fingerprint
  <2>1. part[e].refs \in Nat
    BY <1>1 DEF PartState
  <2>2. part[e].refs + 1 \in Nat
    BY <2>1
  <2> QED BY <1>1, <2>2 DEF PartState
<1> HIDE DEF x
<1>3. part'[e] = x /\ part' \in [Reqs -> PartState] /\ \A r \in Reqs \ {e} : part'[r] = part[r]
  BY <1>1, <1>2, PartUpdate
<1>4. TypeOK'
  BY <1>1, <1>3 DEF TypeOK, Inc, goto, Steps, world, request
<1>5. /\ ~holds(q, e) /\ holds(q, e)'
      /\ \A p \in Reqs \ {e} : holds(q, p)' <=> holds(q, p)
  BY <1>e, <1>1 DEF holds
<1>6. \A p \in Reqs : EntryOK(p)'
  <2> TAKE p \in Reqs
  <2>1. CASE p # e
    <3>1. Holders(p)' = Holders(p)
      BY <1>1, <1>5, <2>1, HoldersMove
    <3>2. \A r \in Holders(p) : r \in late => r \in late'
      BY <1>1
    <3>3. \/ pc'[p] = pc[p]
          \/ /\ pc[p] # "store" /\ pc'[p] # "store"
             /\ pc'[p] \in Early => pc[p] \in Early
             /\ pc'[p] \in Own => pc[p] \in Own
      BY <1>1 DEF Early, Own
    <3>4. EntryOK(p) /\ part'[p] = part[p] /\ cache' = cache
      BY <1>1, <1>3, <2>1 DEF IndInv
    <3> QED BY <3>1, <3>2, <3>3, <3>4, EntryFrame
  <2>2. CASE p = e
    <3>1. /\ Holders(e)' = Holders(e) \cup {q}
          /\ Cardinality(Holders(e)') = Cardinality(Holders(e)) + 1
          /\ Cardinality(Holders(e)) \in Nat
      BY <1>1, <1>5, HoldersMove, HoldersFinite
    <3>2. (part[e].built => part[e].refs = Cardinality(Holders(e)) + share(e))'
      BY <1>1, <1>2, <1>3, <3>1 DEF EntryOK, share
    <3>3. (\A r \in Holders(e) : r \notin late => ~part[e].closed)'
      BY <1>1, <1>2, <1>3, <3>1 DEF EntryOK
    <3>4. Holders(e)' # {}
      BY <3>1
    <3>5. /\ pc'[e] = "store" <=> pc[e] = "store"
          /\ pc'[e] \in Early => pc[e] \in Early
          /\ pc'[e] \in Own => pc[e] \in Own
      BY <1>e, <1>1 DEF Early, Own
    <3>6. EntryOK(e)'
      BY <1>1, <1>2, <1>3, <3>2, <3>3, <3>4, <3>5 DEF EntryOK
    <3> QED BY <2>2, <3>6
  <2> QED BY <2>1, <2>2
<1>7. RequestOK(q)'
  <2>1. CASE pc[q] = "inc"
    BY <1>e, <1>1, <1>2, <1>3, <2>1 DEF RequestOK, Own, world, request
  <2>2. CASE pc[q] = "incFresh"
    <3>1. e = q /\ Current(q, q)
      BY <1>e, <1>1, <2>2 DEF RequestOK, Own, Current
    <3>2. Current(q, q)'
      BY <1>1, <1>2, <1>3, <3>1 DEF Current, request
    <3> QED BY <1>e, <1>1, <1>2, <1>3, <2>2, <3>1, <3>2 DEF RequestOK, Own, world, request
  <2> QED BY <1>1, <2>1, <2>2
<1>8. \A r \in Reqs : RequestOK(r)'
  BY <1>1, <1>2, <1>3, <1>4, <1>7, OneRequest DEF world, request
<1> QED BY <1>4, <1>6, <1>8 DEF IndInv

\* A request gives an entry back; the last one closes it once it has been evicted.
LEMMA ReleaseStep ==
  ASSUME IndInv, NEW q \in Reqs, pc[q] \in {"unhold", "use"},
         pc'[q] \in {"read", "done"},
         part' = [part EXCEPT ![using[q]] = released(@)],
         UNCHANGED <<world, cache>>,
         pc' \in [Reqs -> Steps], using' \in [Reqs -> Reqs \cup {None}], mine' \in [Reqs -> Nat],
         born' \in [Reqs -> Nat \X Nat], late' \in SUBSET Reqs,
         \A r \in Reqs \ {q} :
           /\ pc'[r] = pc[r] /\ using'[r] = using[r] /\ mine'[r] = mine[r] /\ born'[r] = born[r]
           /\ r \in late => r \in late',
         pc[q] = "unhold" => pc'[q] = "read",
         pc[q] = "use" => pc'[q] = "done",
         RequestOK(q)'
  PROVE  IndInv'
<1>e. PICK e \in Reqs : e = using[q]
  BY DEF IndInv, RequestOK
<1> DEFINE x == released(part[e])
<1>1. TypeOK /\ RequestOK(q) /\ EntryOK(e) /\ e \in Reqs /\ part[e].built /\ part[e] \in PartState
  <2>1. TypeOK /\ RequestOK(q)
    BY DEF IndInv
  <2>2. part[e].built
    BY <1>e, <2>1 DEF RequestOK
  <2> QED BY <2>1, <2>2 DEF IndInv, TypeOK
<1>2. holds(q, e) /\ ~holds(q, e)' /\ \A p \in Reqs \ {e} : holds(q, p)' <=> holds(q, p)
  BY <1>e DEF holds
<1>3. /\ Holders(e)' = Holders(e) \ {q} /\ q \in Holders(e)
      /\ Cardinality(Holders(e)') = Cardinality(Holders(e)) - 1
      /\ Cardinality(Holders(e)) \in Nat /\ Cardinality(Holders(e)') \in Nat
  <2>1. IsFiniteSet(Holders(e)) /\ Cardinality(Holders(e)) \in Nat
    BY <1>1, HoldersFinite
  <2>2. Holders(e)' = Holders(e) \ {q} /\ Cardinality(Holders(e)') = Cardinality(Holders(e)) - 1
    BY <1>1, <1>2, HoldersMove DEF holds
  <2>3. IsFiniteSet(Holders(e)')
    BY <2>1, <2>2, FS_Subset
  <2> QED BY <1>2, <2>1, <2>2, <2>3, FS_CardinalityType DEF Holders
<1>4. part[e].refs >= 1 /\ part[e].refs \in Nat
  <2>1. Cardinality(Holders(e)) >= 1
    BY <1>3
  <2> QED BY <1>1, <1>3, <2>1 DEF EntryOK, share
<1>5. /\ x \in PartState /\ x.refs = part[e].refs - 1
      /\ x.closed <=> part[e].closed \/ (part[e].refs = 1 /\ part[e].dead)
      /\ x.built = part[e].built /\ x.dead = part[e].dead
      /\ x.evict = part[e].evict /\ x.code = part[e].code /\ x.vals = part[e].vals
      /\ x.baseRev = part[e].baseRev /\ x.settingsVer = part[e].settingsVer
      /\ x.fingerprint = part[e].fingerprint
  <2> DEFINE n == part[e].refs - 1
             c == part[e].closed \/ (part[e].refs = 1 /\ part[e].dead)
  <2>1. n \in Nat /\ c \in BOOLEAN
    BY <1>4
  <2>2. x = [part[e] EXCEPT !.refs = n, !.closed = c]
    BY <1>1 DEF released, PartState
  <2> HIDE DEF n, c
  <2>3. /\ x \in PartState /\ x.refs = n /\ x.closed = c
        /\ x.built = part[e].built /\ x.dead = part[e].dead
        /\ x.evict = part[e].evict /\ x.code = part[e].code /\ x.vals = part[e].vals
        /\ x.baseRev = part[e].baseRev /\ x.settingsVer = part[e].settingsVer
        /\ x.fingerprint = part[e].fingerprint
    <3> HIDE DEF x
    <3> QED BY <1>1, <2>1, <2>2 DEF PartState
  <2> HIDE DEF x
  <2> QED BY <2>3 DEF n, c
<1> HIDE DEF x
<1>6. part'[e] = x /\ part' \in [Reqs -> PartState] /\ \A r \in Reqs \ {e} : part'[r] = part[r]
  BY <1>e, <1>1, <1>5, PartUpdate DEF x
<1>7. \A p \in Reqs : EntryOK(p)'
  <2> TAKE p \in Reqs
  <2>1. CASE p # e
    <3>1. Holders(p)' = Holders(p)
      BY <1>2, <2>1, HoldersMove
    <3>2. \A r \in Holders(p) : r # q
      BY <1>2, <2>1 DEF Holders, holds
    <3>3. \A r \in Holders(p) : r \in late => r \in late'
      BY <3>2 DEF Holders
    <3>4. \/ pc'[p] = pc[p]
          \/ /\ pc[p] # "store" /\ pc'[p] # "store"
             /\ pc'[p] \in Early => pc[p] \in Early
             /\ pc'[p] \in Own => pc[p] \in Own
      BY DEF Early, Own
    <3>5. EntryOK(p) /\ part'[p] = part[p] /\ cache' = cache
      BY <1>6, <2>1 DEF IndInv
    <3> QED BY <3>1, <3>3, <3>4, <3>5, EntryFrame
  <2>2. CASE p = e
    <3>1. (part[e].built => part[e].refs = Cardinality(Holders(e)) + share(e))'
      BY <1>1, <1>3, <1>4, <1>5, <1>6 DEF EntryOK, share
    <3>2. x.closed => part[e].closed \/ (Holders(e)' = {} /\ part[e].evict = "done")
      <4> SUFFICES ASSUME part[e].refs = 1 /\ part[e].dead /\ ~part[e].closed
                   PROVE  Holders(e)' = {} /\ part[e].evict = "done"
        BY <1>5
      <4>1. Cardinality(Holders(e)) = 1 /\ share(e) = 0
        <5>1. Cardinality(Holders(e)) >= 1
          BY <1>3
        <5> QED BY <1>1, <1>3, <5>1 DEF EntryOK, share
      <4>2. Cardinality(Holders(e)') = 0
        BY <1>3, <4>1
      <4>3. IsFiniteSet(Holders(e)')
        BY <1>1, <1>3, HoldersFinite, FS_RemoveElement
      <4>4. Holders(e)' = {}
        BY <4>2, <4>3, FS_EmptySet
      <4> QED BY <4>1, <4>4 DEF share
    <3>3. part[e].evict = "done" /\ Holders(e)' = {} => x.closed
      <4> SUFFICES ASSUME part[e].evict = "done", Holders(e)' = {} PROVE x.closed
        OBVIOUS
      <4>1. Cardinality(Holders(e)') = 0
        BY FS_EmptySet
      <4>2. part[e].refs = 1
        <5>1. share(e) = 0
          BY DEF share
        <5>2. Cardinality(Holders(e)) = 1
          BY <1>3, <4>1
        <5>3. part[e].refs = Cardinality(Holders(e)) + share(e)
          BY <1>1 DEF EntryOK
        <5> QED BY <5>1, <5>2, <5>3
      <4>3. part[e].dead
        BY <1>1 DEF EntryOK
      <4> QED BY <4>2, <4>3, <1>5
    <3>4. (\A r \in Holders(e) : r \notin late => ~part[e].closed)'
      <4> SUFFICES ASSUME NEW r \in Holders(e)', r \notin late', x.closed PROVE FALSE
        BY <1>6
      <4>1. r \in Holders(e) /\ r # q /\ r \in Reqs
        BY <1>3 DEF Holders
      <4>2. part[e].closed
        BY <3>2
      <4> QED BY <4>1, <4>2, <1>1 DEF EntryOK
    <3>5. /\ pc'[e] = "store" <=> pc[e] = "store"
          /\ pc'[e] \in Early => pc[e] \in Early
          /\ pc'[e] \in Own => pc[e] \in Own
      BY <1>e, <1>1 DEF Early, Own
    <3>6. part[e].closed => part[e].evict = "done"
      BY <1>1 DEF EntryOK
    <3>7. pc[e] = "store" => ~x.closed
      BY <1>1, <1>5, <3>6 DEF EntryOK
    <3>8. EntryOK(e)'
      BY <1>1, <1>5, <1>6, <3>1, <3>2, <3>3, <3>4, <3>5, <3>6, <3>7 DEF EntryOK
    <3> QED BY <2>2, <3>8
  <2> QED BY <2>1, <2>2
<1>8. TypeOK'
  BY <1>1, <1>6 DEF TypeOK, world
<1>9. \A r \in Reqs : RequestOK(r)'
  BY <1>5, <1>6, <1>8, OneRequest DEF world
<1> QED BY <1>7, <1>8, <1>9 DEF IndInv

LEMMA UnholdStep ==
  ASSUME IndInv, NEW q \in Reqs, Unhold(q)
  PROVE  IndInv'
<1>1. /\ TypeOK /\ RequestOK(q) /\ pc[q] = "unhold" /\ pc'[q] = "read"
      /\ UNCHANGED <<world, cache, using, request, late>>
      /\ \A r \in Reqs \ {q} : pc'[r] = pc[r]
      /\ pc' \in [Reqs -> Steps]
  BY DEF IndInv, TypeOK, Unhold, goto, Steps
<1>2. RequestOK(q)'
  BY <1>1 DEF RequestOK, Own, world, request
<1> QED BY <1>1, <1>2, ReleaseStep DEF Unhold, TypeOK, request

LEMMA FinishStep ==
  ASSUME IndInv, NEW q \in Reqs, Finish(q)
  PROVE  IndInv'
<1>1. TypeOK /\ pc[q] = "use" /\ leave(q, "done") /\ UNCHANGED <<world, cache>>
  BY DEF IndInv, Finish
<1>2. RequestOK(q)'
  BY <1>1, LeaveTypes, LeftIsOK DEF TypeOK, world
<1> QED BY <1>1, <1>2, LeaveTypes, ReleaseStep DEF Finish

\* The entry under construction is nobody else's.
LEMMA BuildingIsOwn ==
  ASSUME IndInv, NEW q \in Reqs, pc[q] \in Early
  PROVE  /\ ~part[q].built /\ Holders(q) = {}
         /\ ~part[q].dead /\ ~part[q].closed /\ part[q].evict = "no" /\ cache # q
<1>1. /\ ~part[q].built /\ ~part[q].dead /\ ~part[q].closed /\ part[q].evict = "no" /\ cache # q
  BY DEF IndInv, EntryOK
<1>2. \A r \in Reqs : ~holds(r, q)
  BY <1>1 DEF IndInv, RequestOK, holds
<1> QED BY <1>1, <1>2 DEF Holders

LEMMA ReadStep ==
  ASSUME IndInv, NEW q \in Reqs, Read(q)
  PROVE  IndInv'
<1> DEFINE x == [part[q] EXCEPT !.code = rev, !.vals = ver]
<1>1. /\ TypeOK /\ RequestOK(q) /\ pc[q] = "read" /\ pc'[q] = "stamp" /\ using'[q] = q
      /\ UNCHANGED <<world, cache, request, late>> /\ part[q] \in PartState
      /\ \A r \in Reqs \ {q} : pc'[r] = pc[r] /\ using'[r] = using[r]
      /\ pc' \in [Reqs -> Steps] /\ using' \in [Reqs -> Reqs \cup {None}]
  BY DEF IndInv, TypeOK, Read, goto, Steps
<1>2. /\ x \in PartState /\ x.built = part[q].built /\ x.dead = part[q].dead
      /\ x.closed = part[q].closed /\ x.evict = part[q].evict /\ x.code = rev /\ x.vals = ver
  BY <1>1 DEF PartState, TypeOK
<1>3. part' = [part EXCEPT ![q] = x]
  BY <1>1 DEF Read, TypeOK
<1> HIDE DEF x
<1>4. part'[q] = x /\ part' \in [Reqs -> PartState] /\ \A r \in Reqs \ {q} : part'[r] = part[r]
  BY <1>1, <1>2, <1>3, PartUpdate
<1>5. TypeOK'
  BY <1>1, <1>4 DEF TypeOK, world, request
<1>6. ~part[q].built /\ Holders(q) = {} /\ ~part[q].dead /\ ~part[q].closed /\ part[q].evict = "no" /\ cache # q
  BY <1>1, BuildingIsOwn DEF Early
<1>7. \A p \in Reqs : Holders(p)' = Holders(p)
  <2>1. \A p \in Reqs : ~holds(q, p) /\ ~holds(q, p)'
    BY <1>1 DEF holds
  <2> QED BY <1>1, <2>1, HoldersMove
<1>8. \A p \in Reqs : EntryOK(p)'
  <2> TAKE p \in Reqs
  <2>1. CASE p # q
    BY <1>1, <1>4, <1>7, <2>1, EntryFrame DEF IndInv
  <2>2. CASE p = q
    <3>1. ~part'[q].built /\ ~part'[q].dead /\ ~part'[q].closed /\ part'[q].evict = "no" /\ cache' # q
      BY <1>1, <1>2, <1>4, <1>6
    <3>2. EntryOK(q)'
      BY <1>1, <3>1 DEF EntryOK, Early, Own
    <3> QED BY <2>2, <3>2
  <2> QED BY <2>1, <2>2
<1>9. RequestOK(q)'
  BY <1>1, <1>2, <1>4 DEF RequestOK, Own, world, request, TypeOK
<1>10. \A r \in Reqs : RequestOK(r)'
  BY <1>1, <1>4, <1>5, <1>6, <1>9, OneRequest DEF world, request
<1> QED BY <1>5, <1>8, <1>10 DEF IndInv

LEMMA StampStep ==
  ASSUME IndInv, NEW q \in Reqs, Stamp(q)
  PROVE  IndInv'
<1> DEFINE x == [part[q] EXCEPT !.built = TRUE, !.refs = 1, !.settingsVer = ver,
                                !.baseRev = rev, !.fingerprint = mine[q]]
<1>1. /\ TypeOK /\ RequestOK(q) /\ pc[q] = "stamp" /\ pc'[q] = "store"
      /\ UNCHANGED <<world, cache, using, request, late>> /\ part[q] \in PartState
      /\ \A r \in Reqs \ {q} : pc'[r] = pc[r]
      /\ pc' \in [Reqs -> Steps]
  BY DEF IndInv, TypeOK, Stamp, goto, Steps
<1>2. /\ x \in PartState /\ x.built = TRUE /\ x.refs = 1 /\ x.dead = part[q].dead
      /\ x.closed = part[q].closed /\ x.evict = part[q].evict
      /\ x.code = part[q].code /\ x.vals = part[q].vals /\ x.fingerprint = mine[q]
  BY <1>1 DEF PartState, TypeOK
<1>3. part' = [part EXCEPT ![q] = x]
  BY <1>1 DEF Stamp, TypeOK
<1> HIDE DEF x
<1>4. part'[q] = x /\ part' \in [Reqs -> PartState] /\ \A r \in Reqs \ {q} : part'[r] = part[r]
  BY <1>1, <1>2, <1>3, PartUpdate
<1>5. TypeOK'
  BY <1>1, <1>4 DEF TypeOK, world, request
<1>6. ~part[q].built /\ Holders(q) = {} /\ ~part[q].dead /\ ~part[q].closed /\ part[q].evict = "no" /\ cache # q
  BY <1>1, BuildingIsOwn DEF Early
<1>7. \A p \in Reqs : Holders(p)' = Holders(p)
  <2>1. \A p \in Reqs : ~holds(q, p) /\ ~holds(q, p)'
    BY <1>1 DEF holds
  <2> QED BY <1>1, <2>1, HoldersMove
<1>8. \A p \in Reqs : EntryOK(p)'
  <2> TAKE p \in Reqs
  <2>1. CASE p # q
    BY <1>1, <1>4, <1>7, <2>1, EntryFrame DEF IndInv
  <2>2. CASE p = q
    <3>1. /\ part'[q].built /\ ~part'[q].dead /\ ~part'[q].closed /\ part'[q].evict = "no"
          /\ cache' # q /\ part'[q].refs = 1 /\ Holders(q)' = {}
      BY <1>1, <1>2, <1>4, <1>6, <1>7
    <3>2. Cardinality(Holders(q)') = 0
      BY <3>1, FS_EmptySet
    <3>3. (part[q].refs = Cardinality(Holders(q)) + share(q))'
      BY <3>1, <3>2 DEF share
    <3>4. EntryOK(q)'
      BY <1>1, <3>1, <3>3 DEF EntryOK, Early
    <3> QED BY <2>2, <3>4
  <2> QED BY <2>1, <2>2
<1>9. RequestOK(q)'
  BY <1>1, <1>2, <1>4 DEF RequestOK, Own, world, request
<1>10. \A r \in Reqs : RequestOK(r)'
  BY <1>1, <1>4, <1>5, <1>6, <1>9, OneRequest DEF world, request
<1> QED BY <1>5, <1>8, <1>10 DEF IndInv

-----------------------------------------------------------------------------
\* Only the marks of entries differ between two states.
SameValues(x, y) ==
  /\ y.built = x.built /\ y.refs = x.refs /\ y.dead = x.dead /\ y.closed = x.closed
  /\ y.code = x.code /\ y.vals = x.vals
  /\ y.baseRev = x.baseRev /\ y.settingsVer = x.settingsVer /\ y.fingerprint = x.fingerprint

\* An entry that leaves the cache is handed to evict, once.
LEMMA EvictOldDoes ==
  ASSUME TypeOK
  PROVE  /\ evictOld(part, cache) \in [Reqs -> PartState]
         /\ \A p \in Reqs :
              /\ p # cache => evictOld(part, cache)[p] = part[p]
              /\ p = cache => /\ SameValues(part[p], evictOld(part, cache)[p])
                              /\ evictOld(part, cache)[p].evict = "mark"
<1>1. CASE cache = None
  BY <1>1, ReqAssumption DEF TypeOK, evictOld
<1>2. CASE cache # None
  <2> DEFINE x == [part[cache] EXCEPT !.evict = "mark"]
  <2>1. cache \in Reqs /\ part[cache] \in PartState
    BY <1>2 DEF TypeOK
  <2>2. x \in PartState /\ SameValues(part[cache], x) /\ x.evict = "mark"
    BY <2>1 DEF PartState, SameValues
  <2>3. evictOld(part, cache) = [part EXCEPT ![cache] = x]
    BY <1>2, <2>1 DEF evictOld, TypeOK
  <2> HIDE DEF x
  <2> QED BY <2>1, <2>2, <2>3 DEF TypeOK
<1> QED BY <1>1, <1>2

\* The entry that has just left the cache waits for evict.
LEMMA MarkedIsOK ==
  ASSUME NEW p \in Reqs, EntryOK(p), cache = p, cache' # p,
         SameValues(part[p], part'[p]), part'[p].evict = "mark",
         Holders(p)' = Holders(p), UNCHANGED late,
         pc'[p] = pc[p]
  PROVE  EntryOK(p)'
<1>1. part[p].built /\ pc[p] # "store" /\ part[p].evict = "no" /\ ~part[p].dead /\ ~part[p].closed
  BY DEF EntryOK
<1>2. (part[p].built => part[p].refs = Cardinality(Holders(p)) + share(p))'
  BY <1>1 DEF EntryOK, share, SameValues
<1> QED BY <1>1, <1>2 DEF EntryOK, SameValues, Early

LEMMA StoreStep ==
  ASSUME IndInv, NEW q \in Reqs, Store(q)
  PROVE  IndInv'
<1>1. /\ TypeOK /\ RequestOK(q) /\ EntryOK(q) /\ pc[q] = "store" /\ pc'[q] = "checkFresh"
      /\ cache' = q /\ part' = evictOld(part, cache)
      /\ UNCHANGED <<world, using, request, late>>
      /\ \A r \in Reqs \ {q} : pc'[r] = pc[r]
      /\ pc' \in [Reqs -> Steps]
  BY DEF IndInv, TypeOK, Store, goto, Steps
<1>2. /\ part[q].built /\ cache # q /\ part'[q] = part[q]
      /\ ~part[q].dead /\ ~part[q].closed /\ part[q].evict = "no"
  BY <1>1, EvictOldDoes DEF EntryOK, Own
<1>3. TypeOK'
  BY <1>1, EvictOldDoes DEF TypeOK, world, request
<1>4. \A p \in Reqs : Holders(p)' = Holders(p)
  <2>1. \A p \in Reqs : ~holds(q, p) /\ ~holds(q, p)'
    BY <1>1 DEF holds
  <2> QED BY <1>1, <2>1, HoldersMove
<1>5. \A p \in Reqs : EntryOK(p)'
  <2> TAKE p \in Reqs
  <2>1. CASE p = q
    <3>1. EntryOK(q)'
      BY <1>1, <1>2, <1>4 DEF EntryOK, share, Early, Own
    <3> QED BY <2>1, <3>1
  <2>2. CASE p # q /\ p = cache
    BY <1>1, <1>4, <2>2, EvictOldDoes, MarkedIsOK DEF IndInv
  <2>3. CASE p # q /\ p # cache
    BY <1>1, <1>4, <2>3, EvictOldDoes, EntryFrame DEF IndInv
  <2> QED BY <2>1, <2>2, <2>3
<1>6. RequestOK(q)'
  BY <1>1, <1>2 DEF RequestOK, Own, world, request
<1>7. \A r \in Reqs : RequestOK(r)'
  BY <1>1, <1>2, <1>3, <1>6, EvictOldDoes, OneRequest DEF world, request, SameValues
<1> QED BY <1>3, <1>5, <1>7 DEF IndInv

-----------------------------------------------------------------------------
\* Steps of nobody's request: the requests know what they knew.
LEMMA RequestsStay ==
  ASSUME IndInv, TypeOK', UNCHANGED <<pc, using, request>>, rev' >= rev, ver' >= ver,
         \A p \in Reqs :
           /\ part'[p].built = part[p].built
           /\ part'[p].code = part[p].code /\ part'[p].vals = part[p].vals
           /\ part'[p].baseRev = part[p].baseRev /\ part'[p].settingsVer = part[p].settingsVer
           /\ part'[p].fingerprint = part[p].fingerprint
  PROVE  /\ \A r \in Reqs : RequestOK(r)'
         /\ \A p \in Reqs : Holders(p)' = Holders(p)
<1>1. \A r \in Reqs : RequestOK(r)'
  BY RequestFrame DEF IndInv, request
<1>2. \A p \in Reqs : Holders(p)' = Holders(p)
  BY DEF Holders, holds
<1> QED BY <1>1, <1>2

LEMMA DropStep ==
  ASSUME IndInv, dropCache, UNCHANGED <<pc, using, request, late>>,
         rev' \in Nat, ver' \in Nat, gfp' \in Nat, saving' \in BOOLEAN, deleted' \in BOOLEAN,
         rev' >= rev, ver' >= ver
  PROVE  IndInv'
<1>1. TypeOK /\ cache' = None /\ part' = evictOld(part, cache)
  BY DEF IndInv, dropCache
<1>2. TypeOK'
  BY <1>1, EvictOldDoes DEF TypeOK, request
<1>3. /\ \A r \in Reqs : RequestOK(r)'
      /\ \A p \in Reqs : Holders(p)' = Holders(p)
  BY <1>1, <1>2, EvictOldDoes, RequestsStay DEF SameValues
<1>4. \A p \in Reqs : EntryOK(p)'
  <2> TAKE p \in Reqs
  <2>1. p # None
    BY ReqAssumption
  <2>2. CASE p = cache
    BY <1>1, <1>3, <2>1, <2>2, EvictOldDoes, MarkedIsOK DEF IndInv
  <2>3. CASE p # cache
    BY <1>1, <1>3, <2>1, <2>3, EvictOldDoes, EntryFrame DEF IndInv
  <2> QED BY <2>2, <2>3
<1> QED BY <1>2, <1>3, <1>4 DEF IndInv

LEMMA ChangeStep ==
  ASSUME IndInv, Change
  PROVE  IndInv'
<1>1. TypeOK /\ rev \in Nat /\ ver \in Nat /\ gfp \in Nat
  BY DEF IndInv, TypeOK
<1>2. CASE \/ Install \/ PutSettings
           \/ saving' = FALSE /\ UNCHANGED <<rev, ver, gfp, deleted, cache, part, pc, using, request, late>>
  <2>1. /\ UNCHANGED <<cache, part, pc, using, request, late>>
        /\ rev' \in Nat /\ ver' \in Nat /\ rev' >= rev /\ ver' >= ver
        /\ gfp' = gfp /\ deleted' = deleted
    BY <1>1, <1>2 DEF Install, PutSettings
  <2>2. TypeOK'
    <3>1. saving' \in BOOLEAN
      BY <1>1, <1>2 DEF TypeOK, Install, PutSettings
    <3> QED BY <1>1, <2>1, <3>1 DEF TypeOK, request
  <2>3. /\ \A r \in Reqs : RequestOK(r)'
        /\ \A p \in Reqs : Holders(p)' = Holders(p)
    BY <2>1, <2>2, RequestsStay
  <2>4. \A p \in Reqs : EntryOK(p)'
    BY <2>1, <2>3, EntryFrame DEF IndInv
  <2> QED BY <2>2, <2>3, <2>4 DEF IndInv
<1>3. CASE EvictPackageSettings
  <2>1. saving' = FALSE /\ UNCHANGED <<rev, ver, gfp, deleted, pc, using, request, late>>
    BY <1>3 DEF EvictPackageSettings
  <2>2. CASE deleted
    <3>1. UNCHANGED <<cache, part>>
      BY <1>3, <2>2 DEF EvictPackageSettings
    <3> QED BY <1>2, <2>1, <3>1
  <2>3. CASE ~deleted
    <3>1. dropCache
      BY <1>3, <2>3 DEF EvictPackageSettings
    <3>2. /\ rev' \in Nat /\ ver' \in Nat /\ gfp' \in Nat /\ rev' >= rev /\ ver' >= ver
      BY <1>1, <2>1
    <3>3. saving' \in BOOLEAN /\ deleted' \in BOOLEAN
      BY <1>1, <2>1 DEF TypeOK
    <3> QED BY <2>1, <3>1, <3>2, <3>3, DropStep
  <2> QED BY <2>2, <2>3
<1>4. CASE SaveGroup
  BY <1>1, <1>4, DropStep DEF SaveGroup, TypeOK
<1>5. CASE DeleteGroup
  BY <1>1, <1>5, DropStep DEF DeleteGroup, TypeOK
<1> QED BY <1>2, <1>3, <1>4, <1>5 DEF Change

-----------------------------------------------------------------------------
(* evict *)

LEMMA EvictMarkStep ==
  ASSUME IndInv, NEW p \in Reqs, EvictMark(p)
  PROVE  IndInv'
<1> DEFINE x == [part[p] EXCEPT !.dead = TRUE, !.evict = "drop"]
<1>1. /\ TypeOK /\ EntryOK(p) /\ part[p] \in PartState /\ part[p].evict = "mark"
      /\ part' = [part EXCEPT ![p] = x]
      /\ UNCHANGED <<world, cache, pc, using, request, late>>
  BY DEF IndInv, TypeOK, EvictMark
<1>2. /\ x \in PartState /\ x.built = part[p].built /\ x.refs = part[p].refs
      /\ x.dead = TRUE /\ x.closed = part[p].closed /\ x.evict = "drop"
      /\ x.code = part[p].code /\ x.vals = part[p].vals
      /\ x.baseRev = part[p].baseRev /\ x.settingsVer = part[p].settingsVer
      /\ x.fingerprint = part[p].fingerprint
  BY <1>1 DEF PartState
<1> HIDE DEF x
<1>3. part'[p] = x /\ part' \in [Reqs -> PartState] /\ \A r \in Reqs \ {p} : part'[r] = part[r]
  BY <1>1, <1>2, PartUpdate
<1>4. TypeOK'
  BY <1>1, <1>3 DEF TypeOK, world, request
<1>5. /\ \A r \in Reqs : RequestOK(r)'
      /\ \A r \in Reqs : Holders(r)' = Holders(r)
  <2>1. rev' >= rev /\ ver' >= ver
    BY <1>1 DEF TypeOK, world
  <2> QED BY <1>1, <1>2, <1>3, <1>4, <2>1, RequestsStay
<1>6. EntryOK(p)'
  <2>1. part[p].built /\ pc[p] # "store" /\ cache # p /\ ~part[p].closed
    BY <1>1 DEF EntryOK
  <2>2. (part[p].built => part[p].refs = Cardinality(Holders(p)) + share(p))'
    BY <1>1, <1>2, <1>3, <1>5 DEF EntryOK, share
  <2> QED BY <1>1, <1>2, <1>3, <1>5, <2>1, <2>2 DEF EntryOK
<1>7. \A r \in Reqs \ {p} : EntryOK(r)'
  BY <1>1, <1>3, <1>5, EntryFrame DEF IndInv
<1> QED BY <1>4, <1>5, <1>6, <1>7 DEF IndInv

\* evict gives back the share of the cache; without requests that closes the entry.
LEMMA EvictDropStep ==
  ASSUME IndInv, NEW p \in Reqs, EvictDrop(p)
  PROVE  IndInv'
<1> DEFINE n == part[p].refs - 1
           c == part[p].closed \/ (part[p].refs = 1 /\ part[p].dead)
           x == [part[p] EXCEPT !.refs = n, !.closed = c, !.evict = "done"]
<1>1. /\ TypeOK /\ EntryOK(p) /\ part[p] \in PartState /\ part[p].evict = "drop"
      /\ part' = [part EXCEPT ![p] = [released(part[p]) EXCEPT !.evict = "done"]]
      /\ UNCHANGED <<world, cache, pc, using, request, late>>
  BY DEF IndInv, TypeOK, EvictDrop
<1>2. part[p].built /\ part[p].dead /\ pc[p] # "store" /\ cache # p /\ ~part[p].closed
  BY <1>1 DEF EntryOK
<1>3. /\ part[p].refs = Cardinality(Holders(p)) + 1 /\ Cardinality(Holders(p)) \in Nat
  BY <1>1, <1>2, HoldersFinite DEF EntryOK, share
<1>4. n \in Nat /\ c \in BOOLEAN /\ n = Cardinality(Holders(p)) /\ (c <=> Holders(p) = {})
  <2>1. Cardinality(Holders(p)) = 0 <=> Holders(p) = {}
    BY HoldersFinite, FS_EmptySet
  <2> QED BY <1>2, <1>3, <2>1
<1>5. [released(part[p]) EXCEPT !.evict = "done"] = x
  BY <1>1 DEF released, PartState
<1> HIDE DEF n, c
<1>6. /\ x \in PartState /\ x.built = part[p].built /\ x.refs = n
      /\ x.dead = part[p].dead /\ x.closed = c /\ x.evict = "done"
      /\ x.code = part[p].code /\ x.vals = part[p].vals
      /\ x.baseRev = part[p].baseRev /\ x.settingsVer = part[p].settingsVer
      /\ x.fingerprint = part[p].fingerprint
  BY <1>1, <1>4 DEF PartState
<1> HIDE DEF x
<1>7. part'[p] = x /\ part' \in [Reqs -> PartState] /\ \A r \in Reqs \ {p} : part'[r] = part[r]
  BY <1>1, <1>5, <1>6, PartUpdate
<1>8. TypeOK'
  BY <1>1, <1>7 DEF TypeOK, world, request
<1>9. /\ \A r \in Reqs : RequestOK(r)'
      /\ \A r \in Reqs : Holders(r)' = Holders(r)
  <2>1. rev' >= rev /\ ver' >= ver
    BY <1>1 DEF TypeOK, world
  <2> QED BY <1>1, <1>6, <1>7, <1>8, <2>1, RequestsStay
<1>10. EntryOK(p)'
  <2>1. (part[p].built => part[p].refs = Cardinality(Holders(p)) + share(p))'
    BY <1>3, <1>4, <1>6, <1>7, <1>9 DEF share
  <2> QED BY <1>1, <1>2, <1>4, <1>6, <1>7, <1>9, <2>1 DEF EntryOK
<1>11. \A r \in Reqs \ {p} : EntryOK(r)'
  BY <1>1, <1>7, <1>9, EntryFrame DEF IndInv
<1> QED BY <1>8, <1>9, <1>10, <1>11 DEF IndInv

-----------------------------------------------------------------------------
LEMMA InitIndInv == Init => IndInv
<1> SUFFICES ASSUME Init PROVE IndInv
  OBVIOUS
<1>1. Unbuilt \in PartState
  BY DEF Unbuilt, PartState
<1>2. TypeOK
  BY <1>1 DEF Init, TypeOK, Steps
<1>3. \A q \in Reqs : RequestOK(q)
  BY DEF Init, RequestOK, Own
<1>4. \A p \in Reqs : EntryOK(p)
  <2> TAKE p \in Reqs
  <2>1. /\ ~part[p].built /\ ~part[p].dead /\ ~part[p].closed /\ part[p].evict = "no"
        /\ cache # p /\ pc[p] = "new"
    BY ReqAssumption DEF Init, Unbuilt
  <2> QED BY <2>1 DEF EntryOK, Own
<1> QED BY <1>2, <1>3, <1>4 DEF IndInv

LEMMA StepIndInv == IndInv /\ [Next]_vars => IndInv'
<1> SUFFICES ASSUME IndInv, [Next]_vars PROVE IndInv'
  OBVIOUS
<1>1. ASSUME NEW q \in Reqs, Begin(q) \/ RequestStep(q) \/ EvictStep(q) PROVE IndInv'
  BY <1>1, BeginStep, LookStep, CheckDeadStep, CheckFreshStep, IncStep, MatchStep, UnholdStep,
     ReadStep, StampStep, BuildFailsStep, StoreStep, FinishStep, EvictMarkStep, EvictDropStep
  DEF RequestStep, EvictStep
<1>2. CASE Change
  BY <1>2, ChangeStep
<1>3. CASE UNCHANGED vars
  <2>1. TypeOK' /\ rev' >= rev /\ ver' >= ver /\ UNCHANGED <<part, cache, pc, using, request, late>>
    BY <1>3 DEF vars, request, IndInv, TypeOK
  <2>2. /\ \A r \in Reqs : RequestOK(r)'
        /\ \A p \in Reqs : Holders(p)' = Holders(p)
    BY <2>1, RequestsStay
  <2>3. \A p \in Reqs : EntryOK(p)'
    BY <2>1, <2>2, EntryFrame DEF IndInv
  <2> QED BY <2>1, <2>2, <2>3 DEF IndInv
<1> QED BY <1>1, <1>2, <1>3 DEF Next

LEMMA Inductive == Spec => []IndInv
BY InitIndInv, StepIndInv, PTL DEF Spec

\* The count of an entry is the requests that hold it and the share of the cache.
THEOREM CountsAreExact == Spec => []RefsExact
<1>1. IndInv => RefsExact
  BY DEF IndInv, EntryOK, RefsExact, share
<1> QED BY <1>1, Inductive, PTL

\* Parts stay open for those who acquired them before they were closed, and are closed
\* at last.  Nothing is said of the requests in `late', whom acquire does not refuse.
THEOREM PartsStayOpen == Spec => []HeldPartsStayOpen
<1>1. IndInv => HeldPartsStayOpen
  BY DEF IndInv, EntryOK, HeldPartsStayOpen
<1> QED BY <1>1, Inductive, PTL

\* No request is served with parts older than itself, if they were built from one state;
\* nothing is said of torn ones, that are stamped with a version later than their values.
THEOREM PartsAreCurrent == Spec => []ServedCurrent
<1>1. IndInv => ServedCurrent
  BY DEF IndInv, RequestOK, ServedCurrent, Current
<1> QED BY <1>1, Inductive, PTL
=============================================================================
