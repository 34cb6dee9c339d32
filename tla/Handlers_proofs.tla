------------------------- MODULE Handlers_proofs -------------------------
(***************************************************************************)
(* Proofs about HandlerStore and HandlerReply: for any number of executions *)
(* and slots the registries of the executions agree with the lock manager,  *)
(* no lock leaks, the holder of a token slot always knows its value and no  *)
(* late merge undoes a refresh; a client is told how its execution ended,   *)
(* and nothing follows the terminal write.                                  *)
(***************************************************************************)
EXTENDS HandlerStore, HandlerReply, SequenceTheorems, TLAPS

-----------------------------------------------------------------------------
(* Lines of claimants, each in it once                                      *)

On(x, q) == \E i \in 1 .. Len(q) : q[i] = x

Distinct(q) == \A i, j \in 1 .. Len(q) : q[i] = q[j] => i = j

\* What RemoveAt does to a queue, element by element.
LEMMA RemoveAtElements ==
  ASSUME NEW S, NEW q \in Seq(S), NEW i \in 1 .. Len(q)
  PROVE  /\ RemoveAt(q, i) \in Seq(S)
         /\ Len(RemoveAt(q, i)) = Len(q) - 1
         /\ \A j \in 1 .. Len(q) - 1 :
              RemoveAt(q, i)[j] = IF j < i THEN q[j] ELSE q[j + 1]
<1> DEFINE a == SubSeq(q, 1, i - 1)
           b == SubSeq(q, i + 1, Len(q))
<1>1. a \in Seq(S) /\ Len(a) = i - 1 /\ \A j \in 1 .. i - 1 : a[j] = q[j]
  OBVIOUS
<1>2. /\ b \in Seq(S) /\ Len(b) = Len(q) - i
      /\ \A j \in 1 .. Len(q) - i : b[j] = q[i + j]
  OBVIOUS
<1>3. RemoveAt(q, i) = a \o b
  BY DEF RemoveAt
<1> HIDE DEF a, b
<1>4. /\ a \o b \in Seq(S) /\ Len(a \o b) = Len(a) + Len(b)
      /\ \A j \in 1 .. Len(a) + Len(b) :
           (a \o b)[j] = IF j <= Len(a) THEN a[j] ELSE b[j - Len(a)]
  BY <1>1, <1>2, ConcatProperties
<1>5. Len(a) + Len(b) = Len(q) - 1 /\ Len(q) \in Nat
  BY <1>1, <1>2
<1>6. ASSUME NEW j \in 1 .. Len(q) - 1
      PROVE  (a \o b)[j] = IF j < i THEN q[j] ELSE q[j + 1]
  <2>1. CASE j < i
    BY <2>1, <1>1, <1>4, <1>5
  <2>2. CASE ~(j < i)
    <3>1. j - (i - 1) \in 1 .. Len(q) - i /\ i + (j - (i - 1)) = j + 1
      BY <2>2, <1>5
    <3>2. (a \o b)[j] = b[j - (i - 1)]
      BY <2>2, <1>1, <1>4, <1>5
    <3> QED BY <2>2, <3>1, <3>2, <1>2
  <2> QED BY <2>1, <2>2
<1> QED BY <1>3, <1>4, <1>5, <1>6

\* Joining at the end.
LEMMA JoinLine ==
  ASSUME NEW S, NEW q \in Seq(S), NEW e \in S, Distinct(q), ~On(e, q)
  PROVE  /\ Append(q, e) \in Seq(S) /\ Append(q, e) # <<>> /\ Distinct(Append(q, e))
         /\ \A x : On(x, Append(q, e)) <=> On(x, q) \/ x = e
         /\ Head(Append(q, e)) = IF q = <<>> THEN e ELSE Head(q)
<1> DEFINE r == Append(q, e)
<1>1. /\ r \in Seq(S) /\ r # <<>> /\ Len(r) = Len(q) + 1 /\ Len(q) \in Nat
      /\ \A i \in 1 .. Len(q) : r[i] = q[i]
      /\ r[Len(q) + 1] = e
  BY AppendProperties
<1> HIDE DEF r
<1>2. Distinct(r)
  <2> SUFFICES ASSUME NEW i \in 1 .. Len(r), NEW j \in 1 .. Len(r), r[i] = r[j]
               PROVE  i = j
    BY DEF Distinct
  <2>1. CASE i \in 1 .. Len(q) /\ j \in 1 .. Len(q)
    BY <1>1, <2>1 DEF Distinct
  <2>2. CASE i = Len(q) + 1 \/ j = Len(q) + 1
    BY <1>1, <2>2 DEF On
  <2> QED BY <1>1, <2>1, <2>2
<1>3. \A x : On(x, r) <=> On(x, q) \/ x = e
  <2> TAKE x
  <2>1. On(x, r) => On(x, q) \/ x = e
    <3> SUFFICES ASSUME NEW i \in 1 .. Len(r), r[i] = x PROVE On(x, q) \/ x = e
      BY DEF On
    <3>1. i \in 1 .. Len(q) \/ i = Len(q) + 1
      BY <1>1
    <3> QED BY <1>1, <3>1 DEF On
  <2>2. On(x, q) => On(x, r)
    BY <1>1 DEF On
  <2>3. On(e, r)
    BY <1>1 DEF On
  <2> QED BY <2>1, <2>2, <2>3
<1>4. Head(r) = r[1]
  BY <1>1
<1>5. CASE q = <<>>
  <2>1. Len(q) = 0
    BY <1>5
  <2> QED BY <1>1, <1>2, <1>3, <1>4, <1>5, <2>1 DEF r
<1>6. CASE q # <<>>
  <2>1. Len(q) >= 1 /\ Head(q) = q[1]
    BY <1>6
  <2> QED BY <1>1, <1>2, <1>3, <1>4, <1>6, <2>1 DEF r
<1> QED BY <1>5, <1>6

\* The head goes away and the others move up.
LEMMA MoveUp ==
  ASSUME NEW S, NEW q \in Seq(S), q # <<>>, Distinct(q)
  PROVE  /\ Tail(q) \in Seq(S) /\ Distinct(Tail(q)) /\ On(Head(q), q)
         /\ \A x : On(x, Tail(q)) <=> On(x, q) /\ x # Head(q)
<1> DEFINE r == Tail(q)
<1>1. /\ r \in Seq(S) /\ Len(r) = Len(q) - 1 /\ Len(q) \in Nat \ {0} /\ Head(q) = q[1]
      /\ \A i \in 1 .. Len(r) : r[i] = q[i + 1]
  BY HeadTailProperties
<1> HIDE DEF r
<1>2. Distinct(r)
  <2> SUFFICES ASSUME NEW i \in 1 .. Len(r), NEW j \in 1 .. Len(r), r[i] = r[j]
               PROVE  i = j
    BY DEF Distinct
  <2>1. q[i + 1] = q[j + 1] /\ i + 1 \in 1 .. Len(q) /\ j + 1 \in 1 .. Len(q)
    BY <1>1
  <2>2. i + 1 = j + 1
    BY <2>1 DEF Distinct
  <2> QED BY <2>2
<1>3. On(Head(q), q)
  BY <1>1 DEF On
<1>4. ASSUME NEW x PROVE On(x, r) <=> On(x, q) /\ x # Head(q)
  <2>1. ASSUME NEW i \in 1 .. Len(r), r[i] = x PROVE On(x, q) /\ x # Head(q)
    <3>1. q[i + 1] = x /\ i + 1 \in 1 .. Len(q) /\ i + 1 # 1 /\ 1 \in 1 .. Len(q)
      BY <1>1, <2>1
    <3>2. q[1] # x
      BY <3>1 DEF Distinct
    <3> QED BY <1>1, <3>1, <3>2 DEF On
  <2>2. ASSUME NEW i \in 1 .. Len(q), q[i] = x, x # Head(q) PROVE On(x, r)
    <3>1. i # 1
      BY <1>1, <2>2
    <3>2. i - 1 \in 1 .. Len(r) /\ (i - 1) + 1 = i
      BY <1>1, <3>1
    <3>3. r[i - 1] = x
      BY <1>1, <2>2, <3>2
    <3> QED BY <3>2, <3>3 DEF On
  <2> QED BY <2>1, <2>2 DEF On
<1> QED BY <1>1, <1>2, <1>3, <1>4 DEF r

\* One that is not the head gives up.
LEMMA LeaveLine ==
  ASSUME NEW S, NEW q \in Seq(S), Distinct(q), NEW n \in 2 .. Len(q)
  PROVE  /\ RemoveAt(q, n) \in Seq(S) /\ RemoveAt(q, n) # <<>> /\ Distinct(RemoveAt(q, n))
         /\ Head(RemoveAt(q, n)) = Head(q) /\ q[n] # Head(q)
         /\ \A x : On(x, RemoveAt(q, n)) <=> On(x, q) /\ x # q[n]
<1> DEFINE r == RemoveAt(q, n)
<1>0. n \in 1 .. Len(q) /\ Len(q) \in Nat /\ n \in Nat /\ n >= 2 /\ n <= Len(q)
  OBVIOUS
<1>1. /\ r \in Seq(S) /\ Len(r) = Len(q) - 1
      /\ \A j \in 1 .. Len(q) - 1 : r[j] = IF j < n THEN q[j] ELSE q[j + 1]
  BY <1>0, RemoveAtElements
<1> HIDE DEF r
<1> DEFINE at(j) == IF j < n THEN j ELSE j + 1
<1>2. \A j \in 1 .. Len(r) : at(j) \in 1 .. Len(q) /\ at(j) # n /\ r[j] = q[at(j)]
  BY <1>0, <1>1
<1>3. Distinct(r)
  <2> SUFFICES ASSUME NEW i \in 1 .. Len(r), NEW j \in 1 .. Len(r), r[i] = r[j]
               PROVE  i = j
    BY DEF Distinct
  <2>1. at(i) = at(j)
    BY <1>2 DEF Distinct
  <2> QED BY <1>0, <1>1, <2>1
<1>4. r # <<>> /\ Head(r) = r[1] /\ Head(q) = q[1] /\ r[1] = q[1]
  BY <1>0, <1>1
<1>5. q[n] # q[1]
  BY <1>0 DEF Distinct
<1>6. ASSUME NEW x PROVE On(x, r) <=> On(x, q) /\ x # q[n]
  <2>1. ASSUME NEW j \in 1 .. Len(r), r[j] = x PROVE On(x, q) /\ x # q[n]
    BY <1>0, <1>2, <2>1 DEF On, Distinct
  <2>2. ASSUME NEW i \in 1 .. Len(q), q[i] = x, x # q[n] PROVE On(x, r)
    <3>1. CASE i < n
      <4>1. i \in 1 .. Len(r) /\ r[i] = x
        BY <1>0, <1>1, <2>2, <3>1
      <4> QED BY <4>1 DEF On
    <3>2. CASE i > n
      <4>1. i - 1 \in 1 .. Len(r) /\ ~(i - 1 < n) /\ (i - 1) + 1 = i
        BY <1>0, <1>1, <3>2
      <4>2. r[i - 1] = x
        BY <1>1, <2>2, <4>1
      <4> QED BY <4>1, <4>2 DEF On
    <3>3. i # n
      BY <2>2
    <3> QED BY <1>0, <3>1, <3>2, <3>3
  <2> QED BY <2>1, <2>2 DEF On
<1> QED BY <1>1, <1>3, <1>4, <1>5, <1>6 DEF r

-----------------------------------------------------------------------------

\* An execution has the slot; it has it or wants it.
Has(e, s) == s \in held[e] \/ (pc[e] = "acquired" /\ arg[e] = s)
Claims(e, s) == Has(e, s) \/ (pc[e] = "waiting" /\ arg[e] = s)

\* A line is made of those that claim the slot, each once, and who has it leads.
LineOK(s) ==
  /\ Distinct(line[s])
  /\ \A e \in Execs : On(e, line[s]) <=> Claims(e, s)
  /\ \A e \in Execs : Has(e, s) => line[s] # <<>> /\ Holder(s) = e

\* The slot a primitive is about is not yet, or still, in the registry.
ExecOK(e) ==
  /\ pc[e] \in {"waiting", "acquired"} => arg[e] \in Slots \ held[e]
  /\ pc[e] \in {"reading", "unlocking"} => arg[e] \in held[e]
  /\ pc[e] = "ended" => held[e] = {}
  /\ \A s \in TokenSlots : buf[e][s] = Untouched

IndInv ==
  /\ TypeOK
  /\ \A s \in Slots : LineOK(s)
  /\ \A e \in Execs : ExecOK(e)
  /\ HolderSeesLatest

-----------------------------------------------------------------------------
\* A line that nobody joins or leaves.
LEMMA SameLine ==
  ASSUME NEW s \in Slots, LineOK(s), line'[s] = line[s],
         \A e \in Execs : (Has(e, s)' <=> Has(e, s)) /\ (Claims(e, s)' <=> Claims(e, s))
  PROVE  LineOK(s)'
BY DEF LineOK, Holder

\* Steps that concern no lock.
LEMMA LocksAside ==
  ASSUME IndInv, NEW e \in Execs, UNCHANGED <<held, line>>,
         \A d \in Execs \ {e} : pc'[d] = pc[d] /\ arg'[d] = arg[d],
         \/ pc'[e] = pc[e] /\ arg'[e] = arg[e]
         \/ pc[e] \notin {"waiting", "acquired"} /\ pc'[e] \notin {"waiting", "acquired"}
  PROVE  \A s \in Slots : LineOK(s)'
<1> TAKE s \in Slots
<1>1. \A d \in Execs : (Has(d, s)' <=> Has(d, s)) /\ (Claims(d, s)' <=> Claims(d, s))
  BY DEF Has, Claims
<1> QED BY <1>1, SameLine DEF IndInv

\* Two executions never have one slot.
LEMMA OneHas ==
  ASSUME IndInv, NEW s \in Slots, NEW d \in Execs, NEW e \in Execs, Has(d, s), Has(e, s)
  PROVE  d = e
BY DEF IndInv, LineOK

\* The slot of an execution goes to the next in line.
LEMMA Released ==
  ASSUME IndInv, NEW e \in Execs, NEW s \in Slots, Has(e, s),
         line' = [line EXCEPT ![s] = Tail(@)],
         \A d \in Execs \ {e} : held'[d] = held[d] /\ pc'[d] = pc[d] /\ arg'[d] = arg[d],
         held'[e] = held[e] \ {s},
         \/ pc'[e] \notin {"waiting", "acquired"} /\ pc[e] \notin {"waiting", "acquired"}
         \/ pc'[e] \notin {"waiting", "acquired"} /\ arg[e] = s
  PROVE  line' \in [Slots -> Seq(Execs)] /\ \A r \in Slots : LineOK(r)'
<1>1. /\ line[s] \in Seq(Execs) /\ line[s] # <<>> /\ Head(line[s]) = e
      /\ Distinct(line[s]) /\ line \in [Slots -> Seq(Execs)]
      /\ \A d \in Execs : On(d, line[s]) <=> Claims(d, s)
  BY DEF IndInv, TypeOK, LineOK, Holder
<1>2. /\ Tail(line[s]) \in Seq(Execs) /\ Distinct(Tail(line[s]))
      /\ \A d : On(d, Tail(line[s])) <=> On(d, line[s]) /\ d # e
  BY <1>1, MoveUp
<1>3. /\ line' \in [Slots -> Seq(Execs)] /\ line'[s] = Tail(line[s])
      /\ \A r \in Slots \ {s} : line'[r] = line[r]
  BY <1>1, <1>2
<1>4. \A r \in Slots \ {s} : LineOK(r)'
  <2> TAKE r \in Slots \ {s}
  <2>1. \A d \in Execs : (Has(d, r)' <=> Has(d, r)) /\ (Claims(d, r)' <=> Claims(d, r))
    BY DEF Has, Claims, IndInv, ExecOK
  <2> QED BY <1>3, <2>1, SameLine DEF IndInv
<1>5. LineOK(s)'
  <2>1. ~Claims(e, s)'
    BY DEF Claims, Has
  <2>2. \A d \in Execs \ {e} : (Has(d, s)' <=> Has(d, s)) /\ (Claims(d, s)' <=> Claims(d, s))
    BY DEF Claims, Has
  <2>3. \A d \in Execs \ {e} : ~Has(d, s)
    BY OneHas
  <2>4. \A d \in Execs : ~Has(d, s)'
    BY <2>1, <2>2, <2>3 DEF Claims
  <2>5. \A d \in Execs : On(d, line'[s]) <=> Claims(d, s)'
    BY <1>1, <1>2, <1>3, <2>1, <2>2
  <2>6. Distinct(line'[s])
    BY <1>2, <1>3
  <2> QED BY <2>4, <2>5, <2>6 DEF LineOK
<1> QED BY <1>3, <1>4, <1>5

-----------------------------------------------------------------------------
(* The steps of an execution *)

\* The buffer, the context, the stages of the end.
LEMMA AsideStep ==
  ASSUME IndInv, NEW e \in Execs,
         \/ \E s \in Slots, w \in Values \cup {Deleted} : Write(e, s, w)
         \/ \E s \in Slots : UnlockBlank(e, s)
         \/ JSEnds(e) \/ Cancel(e) \/ Merge(e) \/ End(e)
  PROVE  IndInv'
<1>0. TypeOK /\ ExecOK(e)
  BY DEF IndInv
<1>1. ASSUME NEW s \in Slots, NEW w \in Values \cup {Deleted}, Write(e, s, w) PROVE IndInv'
  <2>1. /\ s \notin TokenSlots /\ buf' = [buf EXCEPT ![e][s] = w]
        /\ UNCHANGED <<pc, arg, cancelled, failed, held, line, kv, auth, latest, seen>>
    BY <1>1 DEF Write, shared
  <2>2. TypeOK'
    BY <1>0, <2>1 DEF TypeOK, Entry
  <2>3. \A r \in Slots : LineOK(r)'
    BY <2>1, LocksAside
  <2>4. \A d \in Execs, r \in TokenSlots : buf'[d][r] = buf[d][r]
    BY <1>0, <2>1, ClassAssumption DEF TypeOK
  <2>5. \A d \in Execs : ExecOK(d)'
    BY <2>1, <2>4 DEF IndInv, ExecOK
  <2>6. HolderSeesLatest'
    BY <2>1 DEF IndInv, HolderSeesLatest
  <2> QED BY <2>2, <2>3, <2>5, <2>6 DEF IndInv
<1>2. ASSUME NEW s \in Slots, UnlockBlank(e, s) PROVE IndInv'
  <2>1. /\ pc[e] = "js" /\ s \in held[e] /\ pc' = [pc EXCEPT ![e] = "unlocking"]
        /\ arg' = [arg EXCEPT ![e] = s]
        /\ UNCHANGED <<cancelled, failed, buf, held, line, kv, auth, latest, seen>>
    BY <1>2 DEF UnlockBlank, shared, private, goto
  <2>2. TypeOK'
    BY <1>0, <2>1 DEF TypeOK, Places
  <2>3. \A d \in Execs \ {e} : pc'[d] = pc[d] /\ arg'[d] = arg[d]
    BY <1>0, <2>1 DEF TypeOK
  <2>30. pc'[e] = "unlocking" /\ arg'[e] = s
    BY <1>0, <2>1 DEF TypeOK
  <2>4. \A r \in Slots : LineOK(r)'
    BY <2>1, <2>3, <2>30, LocksAside
  <2>5. \A d \in Execs : ExecOK(d)'
    BY <2>1, <2>3, <2>30 DEF IndInv, ExecOK
  <2>6. HolderSeesLatest'
    BY <2>1, <2>3, <2>30 DEF IndInv, HolderSeesLatest
  <2> QED BY <2>2, <2>4, <2>5, <2>6 DEF IndInv
<1>3. CASE JSEnds(e)
  <2>1. /\ pc[e] = "js" /\ pc' = [pc EXCEPT ![e] = "merging"]
        /\ failed' \in SUBSET Execs
        /\ UNCHANGED <<arg, cancelled, buf, held, line, kv, auth, latest, seen>>
    BY <1>0, <1>3 DEF JSEnds, shared, goto, TypeOK
  <2>2. TypeOK'
    BY <1>0, <2>1 DEF TypeOK, Places
  <2>3. pc'[e] = "merging" /\ \A d \in Execs \ {e} : pc'[d] = pc[d]
    BY <1>0, <2>1 DEF TypeOK
  <2>4. \A r \in Slots : LineOK(r)'
    BY <2>1, <2>3, LocksAside
  <2>5. \A d \in Execs : ExecOK(d)'
    BY <2>1, <2>3 DEF IndInv, ExecOK
  <2>6. HolderSeesLatest'
    BY <2>1, <2>3 DEF IndInv, HolderSeesLatest
  <2> QED BY <2>2, <2>4, <2>5, <2>6 DEF IndInv
<1>4. CASE Cancel(e)
  <2>1. /\ cancelled' = cancelled \cup {e}
        /\ UNCHANGED <<pc, arg, failed, buf, held, line, kv, auth, latest, seen>>
    BY <1>4 DEF Cancel, shared
  <2>2. TypeOK'
    BY <1>0, <2>1 DEF TypeOK
  <2>3. \A r \in Slots : LineOK(r)'
    BY <2>1, LocksAside
  <2>4. (\A d \in Execs : ExecOK(d)') /\ HolderSeesLatest'
    BY <2>1 DEF IndInv, ExecOK, HolderSeesLatest
  <2> QED BY <2>2, <2>3, <2>4 DEF IndInv
<1>5. CASE Merge(e)
  <2>1. /\ pc[e] = "merging" /\ pc' = [pc EXCEPT ![e] = "releasing"]
        /\ UNCHANGED <<arg, cancelled, failed, buf, held, line, auth, latest, seen>>
    BY <1>5 DEF Merge, private, goto
  <2>2. /\ kv' \in [Slots -> Stored] /\ \A s \in TokenSlots : kv'[s] = kv[s]
    <3>1. CASE kv' = [s \in Slots |-> MergeInto(buf[e], s)]
      <4>1. \A s \in Slots : MergeInto(buf[e], s) \in Stored
        BY <1>0 DEF MergeInto, TypeOK, Stored, Entry
      <4>2. \A s \in TokenSlots : MergeInto(buf[e], s) = kv[s]
        BY <1>0 DEF MergeInto, ExecOK
      <4> QED BY <3>1, <4>1, <4>2, ClassAssumption
    <3>2. CASE kv' = kv
      BY <1>0, <3>2 DEF TypeOK
    <3> QED BY <1>5, <3>1, <3>2 DEF Merge
  <2>3. TypeOK'
    BY <1>0, <2>1, <2>2 DEF TypeOK, Places
  <2>4. pc'[e] = "releasing" /\ \A d \in Execs \ {e} : pc'[d] = pc[d]
    BY <1>0, <2>1 DEF TypeOK
  <2>5. \A r \in Slots : LineOK(r)'
    BY <2>1, <2>4, LocksAside
  <2>6. \A d \in Execs : ExecOK(d)'
    BY <2>1, <2>4 DEF IndInv, ExecOK
  <2>7. HolderSeesLatest'
    BY <2>1, <2>2, <2>4 DEF IndInv, HolderSeesLatest
  <2> QED BY <2>3, <2>5, <2>6, <2>7 DEF IndInv
<1>6. CASE End(e)
  <2>1. /\ pc[e] = "releasing" /\ held[e] = {} /\ pc' = [pc EXCEPT ![e] = "ended"]
        /\ cancelled' = cancelled \cup {e} /\ buf' = [buf EXCEPT ![e] = EmptyBuffer]
        /\ UNCHANGED <<arg, failed, held, line, kv, auth, latest, seen>>
    BY <1>6 DEF End, shared, goto
  <2>2. TypeOK'
    BY <1>0, <2>1 DEF TypeOK, Places, EmptyBuffer, Entry
  <2>3. pc'[e] = "ended" /\ \A d \in Execs \ {e} : pc'[d] = pc[d] /\ buf'[d] = buf[d]
    BY <1>0, <2>1 DEF TypeOK
  <2>4. \A r \in Slots : LineOK(r)'
    BY <2>1, <2>3, LocksAside
  <2>5. \A s \in TokenSlots : buf'[e][s] = Untouched
    BY <1>0, <2>1, ClassAssumption DEF TypeOK, EmptyBuffer
  <2>6. \A d \in Execs : ExecOK(d)'
    BY <2>1, <2>3, <2>5 DEF IndInv, ExecOK
  <2>7. HolderSeesLatest'
    BY <2>1, <2>3 DEF IndInv, HolderSeesLatest
  <2> QED BY <2>2, <2>4, <2>6, <2>7 DEF IndInv
<1> QED BY <1>1, <1>2, <1>3, <1>4, <1>5, <1>6

\* Acquire: the execution joins the line.
LEMMA LockStep ==
  ASSUME IndInv, NEW e \in Execs, NEW s \in Slots, Lock(e, s)
  PROVE  IndInv'
<1> DEFINE q == line[s]
<1>0. TypeOK /\ LineOK(s)
  BY DEF IndInv
<1>1. /\ pc[e] = "js" /\ s \notin held[e]
      /\ line' = [line EXCEPT ![s] = Append(@, e)]
      /\ UNCHANGED <<cancelled, failed, buf, held, kv, auth, latest, seen>>
  BY DEF Lock, shared, private
<1>2. /\ pc' \in [Execs -> Places] /\ arg' \in [Execs -> Slots \cup {NoSlot}]
      /\ pc'[e] = (IF q = <<>> THEN "acquired" ELSE "waiting") /\ arg'[e] = s
      /\ \A d \in Execs \ {e} : pc'[d] = pc[d] /\ arg'[d] = arg[d]
  BY <1>0 DEF Lock, goto, Locked, TypeOK, Places
<1>3. q \in Seq(Execs) /\ Distinct(q) /\ ~On(e, q)
  BY <1>0, <1>1 DEF LineOK, Claims, Has, TypeOK
<1>4. /\ Append(q, e) \in Seq(Execs) /\ Append(q, e) # <<>> /\ Distinct(Append(q, e))
      /\ \A x : On(x, Append(q, e)) <=> On(x, q) \/ x = e
      /\ Head(Append(q, e)) = IF q = <<>> THEN e ELSE Head(q)
  BY <1>3, JoinLine
<1>5. /\ line' \in [Slots -> Seq(Execs)] /\ line'[s] = Append(q, e)
      /\ \A r \in Slots \ {s} : line'[r] = line[r]
  BY <1>0, <1>1, <1>4 DEF TypeOK
<1>6. TypeOK'
  BY <1>0, <1>1, <1>2, <1>5 DEF TypeOK
<1>7. \A r \in Slots \ {s} : LineOK(r)'
  <2> TAKE r \in Slots \ {s}
  <2>1. \A d \in Execs : (Has(d, r)' <=> Has(d, r)) /\ (Claims(d, r)' <=> Claims(d, r))
    BY <1>1, <1>2 DEF Has, Claims
  <2> QED BY <1>5, <2>1, SameLine DEF IndInv
<1>8. LineOK(s)'
  <2>1. \A d \in Execs \ {e} : (Has(d, s)' <=> Has(d, s)) /\ (Claims(d, s)' <=> Claims(d, s))
    BY <1>1, <1>2 DEF Has, Claims
  <2>2. Claims(e, s)' /\ (Has(e, s)' <=> q = <<>>)
    BY <1>1, <1>2 DEF Has, Claims
  <2>3. \A d \in Execs : On(d, line'[s]) <=> Claims(d, s)'
    BY <1>0, <1>4, <1>5, <2>1, <2>2 DEF LineOK
  <2>4. ASSUME NEW d \in Execs, Has(d, s)' PROVE line'[s] # <<>> /\ Head(line'[s]) = d
    <3>1. CASE d = e
      BY <1>4, <1>5, <2>2, <2>4, <3>1
    <3>2. CASE d # e
      <4>1. q # <<>> /\ Head(q) = d
        BY <1>0, <2>1, <2>4, <3>2 DEF LineOK, Holder
      <4> QED BY <1>4, <1>5, <4>1
    <3> QED BY <3>1, <3>2
  <2> QED BY <1>4, <1>5, <2>3, <2>4 DEF LineOK, Holder
<1>9. \A d \in Execs : ExecOK(d)'
  BY <1>1, <1>2 DEF IndInv, ExecOK
<1>10. HolderSeesLatest'
  BY <1>1, <1>2 DEF IndInv, HolderSeesLatest
<1> QED BY <1>6, <1>7, <1>8, <1>9, <1>10 DEF IndInv

\* A waiter is at the head of the line, or gives up.
LEMMA WaitStep ==
  ASSUME IndInv, NEW e \in Execs, Granted(e) \/ WaitRefused(e)
  PROVE  IndInv'
<1>a. arg[e] \in Slots \ held[e] /\ pc[e] = "waiting"
  BY DEF IndInv, ExecOK, Granted, WaitRefused
<1>b. PICK s \in Slots : s = arg[e]
  BY <1>a
<1>0. TypeOK /\ pc[e] = "waiting" /\ s \notin held[e]
  BY <1>a, <1>b DEF IndInv
<1>1. LineOK(s) /\ Claims(e, s)
  BY <1>0, <1>b DEF IndInv, Claims
<1>2. CASE Granted(e)
  <2>1. /\ pc' = [pc EXCEPT ![e] = "acquired"] /\ Holder(s) = e
        /\ UNCHANGED <<arg, cancelled, failed, buf, held, line, kv, auth, latest, seen>>
    BY <1>2, <1>b DEF Granted, goto, shared, private
  <2>2. TypeOK' /\ pc'[e] = "acquired" /\ \A d \in Execs \ {e} : pc'[d] = pc[d]
    BY <1>0, <1>b, <2>1 DEF TypeOK, Places
  <2>3. \A r \in Slots : LineOK(r)'
    <3> TAKE r \in Slots
    <3>1. \A d \in Execs : Claims(d, r)' <=> Claims(d, r)
      BY <1>0, <1>b, <2>1, <2>2 DEF Claims, Has
    <3>2. \A d \in Execs : Has(d, r)' => Has(d, r) \/ (d = e /\ r = s)
      BY <1>b, <2>1, <2>2 DEF Has
    <3>3. line[s] # <<>>
      BY <1>0, <1>1 DEF LineOK, On, TypeOK
    <3>4. LineOK(r)
      BY DEF IndInv
    <3>5. \A d \in Execs : Has(d, r)' => line[r] # <<>> /\ Holder(r) = d
      BY <2>1, <3>2, <3>3, <3>4 DEF LineOK
    <3> QED BY <2>1, <3>1, <3>4, <3>5 DEF LineOK, Holder
  <2>4. \A d \in Execs : ExecOK(d)'
    BY <1>0, <1>b, <2>1, <2>2 DEF IndInv, ExecOK
  <2>5. HolderSeesLatest'
    BY <1>0, <1>b, <2>1, <2>2 DEF IndInv, HolderSeesLatest
  <2> QED BY <2>2, <2>3, <2>4, <2>5 DEF IndInv
<1>3. CASE WaitRefused(e)
  <2>1. PICK i \in 2 .. Len(line[s]) :
          line[s][i] = e /\ line' = [line EXCEPT ![s] = RemoveAt(@, i)]
    BY <1>3, <1>b DEF WaitRefused
  <2>2. /\ pc' = [pc EXCEPT ![e] = "js"] /\ arg' = [arg EXCEPT ![e] = NoSlot]
        /\ UNCHANGED <<cancelled, failed, buf, held, kv, auth, latest, seen>>
    BY <1>3, <1>b DEF WaitRefused, goto, shared, private
  <2>3. /\ pc' \in [Execs -> Places] /\ arg' \in [Execs -> Slots \cup {NoSlot}]
        /\ pc'[e] = "js" /\ \A d \in Execs \ {e} : pc'[d] = pc[d] /\ arg'[d] = arg[d]
    BY <1>0, <1>b, <2>2 DEF TypeOK, Places
  <2> DEFINE q == line[s]
             r == RemoveAt(line[s], i)
  <2>4. q \in Seq(Execs) /\ Distinct(q)
    BY <1>0, <1>1 DEF TypeOK, LineOK
  <2>5. /\ r \in Seq(Execs) /\ r # <<>> /\ Distinct(r) /\ Head(r) = Head(q) /\ e # Head(q)
        /\ \A x : On(x, r) <=> On(x, q) /\ x # e
    BY <2>1, <2>4, LeaveLine
  <2>6. /\ line' \in [Slots -> Seq(Execs)] /\ line'[s] = r
        /\ \A t \in Slots \ {s} : line'[t] = line[t]
    BY <1>0, <1>b, <2>1, <2>5 DEF TypeOK
  <2> HIDE DEF r
  <2>7. TypeOK'
    BY <1>0, <1>b, <2>2, <2>3, <2>6 DEF TypeOK
  <2>8. \A t \in Slots \ {s} : LineOK(t)'
    <3> TAKE t \in Slots \ {s}
    <3>1. \A d \in Execs : (Has(d, t)' <=> Has(d, t)) /\ (Claims(d, t)' <=> Claims(d, t))
      BY <1>0, <1>b, <2>2, <2>3 DEF Has, Claims
    <3> QED BY <2>6, <3>1, SameLine DEF IndInv
  <2>9. LineOK(s)'
    <3>1. \A d \in Execs \ {e} : (Has(d, s)' <=> Has(d, s)) /\ (Claims(d, s)' <=> Claims(d, s))
      BY <1>b, <2>2, <2>3 DEF Has, Claims
    <3>2. ~Claims(e, s)' /\ ~Has(e, s)'
      BY <1>0, <1>b, <2>2, <2>3 DEF Has, Claims
    <3>3. \A d \in Execs : On(d, line'[s]) <=> Claims(d, s)'
      BY <1>1, <2>5, <2>6, <3>1, <3>2 DEF LineOK
    <3>4. \A d \in Execs : Has(d, s)' => line'[s] # <<>> /\ Head(line'[s]) = d
      BY <1>1, <2>5, <2>6, <3>1, <3>2 DEF LineOK, Holder
    <3> QED BY <2>5, <2>6, <3>3, <3>4 DEF LineOK, Holder
  <2>10. \A d \in Execs : ExecOK(d)'
    BY <1>0, <1>b, <2>2, <2>3 DEF IndInv, ExecOK
  <2>11. HolderSeesLatest'
    BY <1>0, <1>b, <2>2, <2>3 DEF IndInv, HolderSeesLatest
  <2> QED BY <2>7, <2>8, <2>9, <2>10, <2>11 DEF IndInv
<1> QED BY <1>2, <1>3

\* The lock enters the registry, or is given back when the context is done.
LEMMA RegisterStep ==
  ASSUME IndInv, NEW e \in Execs, Register(e)
  PROVE  IndInv'
<1> DEFINE s == arg[e]
<1>0. /\ TypeOK /\ pc[e] = "acquired" /\ s \in Slots /\ s \notin held[e] /\ Has(e, s)
      /\ UNCHANGED <<cancelled, failed, buf, kv, auth, latest, seen>>
  BY DEF IndInv, ExecOK, Register, Has, shared, private
<1>1. CASE e \notin cancelled
  <2>1. /\ held' = [held EXCEPT ![e] = @ \cup {s}] /\ pc' = [pc EXCEPT ![e] = "reading"]
        /\ UNCHANGED <<arg, line>>
    BY <1>1 DEF Register, goto
  <2>2. /\ TypeOK' /\ pc'[e] = "reading" /\ held'[e] = held[e] \cup {s}
        /\ \A d \in Execs \ {e} : pc'[d] = pc[d] /\ held'[d] = held[d]
    BY <1>0, <2>1 DEF TypeOK, Places
  <2>3. \A r \in Slots : LineOK(r)'
    <3> TAKE r \in Slots
    <3>1. \A d \in Execs : (Has(d, r)' <=> Has(d, r)) /\ (Claims(d, r)' <=> Claims(d, r))
      BY <1>0, <2>1, <2>2 DEF Has, Claims
    <3> QED BY <2>1, <3>1, SameLine DEF IndInv
  <2>4. \A d \in Execs : ExecOK(d)'
    BY <1>0, <2>1, <2>2 DEF IndInv, ExecOK
  <2>5. HolderSeesLatest'
    BY <1>0, <2>1, <2>2 DEF IndInv, HolderSeesLatest
  <2> QED BY <2>2, <2>3, <2>4, <2>5 DEF IndInv
<1>2. CASE e \in cancelled
  <2>1. /\ line' = [line EXCEPT ![s] = Tail(@)] /\ arg' = [arg EXCEPT ![e] = NoSlot]
        /\ pc' = [pc EXCEPT ![e] = "js"] /\ UNCHANGED held
    BY <1>2 DEF Register, goto
  <2>2. /\ pc' \in [Execs -> Places] /\ arg' \in [Execs -> Slots \cup {NoSlot}]
        /\ pc'[e] = "js" /\ \A d \in Execs \ {e} : pc'[d] = pc[d] /\ arg'[d] = arg[d]
    BY <1>0, <2>1 DEF TypeOK, Places
  <2>3. line' \in [Slots -> Seq(Execs)] /\ \A r \in Slots : LineOK(r)'
    <3>1. held'[e] = held[e] \ {s}
      BY <1>0, <2>1
    <3> QED BY <1>0, <2>1, <2>2, <3>1, Released
  <2>4. TypeOK'
    BY <1>0, <2>1, <2>2, <2>3 DEF TypeOK
  <2>5. \A d \in Execs : ExecOK(d)'
    BY <1>0, <2>1, <2>2 DEF IndInv, ExecOK
  <2>6. HolderSeesLatest'
    BY <1>0, <2>1, <2>2 DEF IndInv, HolderSeesLatest
  <2> QED BY <2>3, <2>4, <2>5, <2>6 DEF IndInv
<1> QED BY <1>1, <1>2

\* A registered lock is given back: after a failed read, by unlock, at the end.
LEMMA ReleaseStep ==
  ASSUME IndInv, NEW e \in Execs, NEW s \in Slots, s \in held[e], releaseHeld(e, s),
         pc[e] \notin {"waiting", "acquired"}, pc[e] = "reading" => arg[e] = s,
         NEW place \in {"js", "releasing"},
         pc' = [pc EXCEPT ![e] = place],
         arg' \in [Execs -> Slots \cup {NoSlot}], \A d \in Execs \ {e} : arg'[d] = arg[d],
         UNCHANGED <<cancelled, failed, buf, kv, auth, latest>>
  PROVE  IndInv'
<1>0. TypeOK /\ Has(e, s)
  BY DEF IndInv, Has
<1>1. /\ pc' \in [Execs -> Places] /\ pc'[e] = place /\ \A d \in Execs \ {e} : pc'[d] = pc[d]
      /\ held' \in [Execs -> SUBSET Slots] /\ held'[e] = held[e] \ {s}
      /\ \A d \in Execs \ {e} : held'[d] = held[d]
      /\ line' = [line EXCEPT ![s] = Tail(@)]
  BY <1>0 DEF TypeOK, Places, releaseHeld
<1>2. /\ seen' \in [Execs -> [Slots -> Stored \cup {Outdated}]]
      /\ \A d \in Execs, r \in Slots : d # e \/ r # s => seen'[d][r] = seen[d][r]
  BY <1>0 DEF TypeOK, releaseHeld, Stored
<1>3. line' \in [Slots -> Seq(Execs)] /\ \A r \in Slots : LineOK(r)'
  BY <1>0, <1>1, Released
<1>4. TypeOK'
  BY <1>0, <1>1, <1>2, <1>3 DEF TypeOK
<1>5. \A d \in Execs : ExecOK(d)'
  BY <1>1 DEF IndInv, ExecOK
<1>6. HolderSeesLatest'
  <2> SUFFICES ASSUME NEW d \in Execs, NEW r \in held'[d] \cap TokenSlots,
                      ~(pc'[d] = "reading" /\ arg'[d] = r)
               PROVE  kv[r] = seen'[d][r]
    BY DEF HolderSeesLatest
  <2>1. r \in held[d] /\ (d # e \/ r # s) /\ r \in Slots
    BY <1>1, ClassAssumption
  <2>2. ~(pc[d] = "reading" /\ arg[d] = r) => kv[r] = seen[d][r]
    BY <2>1 DEF IndInv, HolderSeesLatest
  <2>3. CASE ~(pc[d] = "reading" /\ arg[d] = r)
    BY <1>2, <2>1, <2>2, <2>3
  <2>4. CASE d = e /\ pc[e] = "reading" /\ arg[e] = r
    BY <1>2, <2>1, <2>4
  <2>5. CASE d # e
    BY <1>1, <1>2, <2>1, <2>2, <2>5
  <2> QED BY <2>3, <2>4, <2>5
<1> QED BY <1>3, <1>4, <1>5, <1>6 DEF IndInv

LEMMA ReleasedStep ==
  ASSUME IndInv, NEW e \in Execs, UnlockRelease(e) \/ \E s \in Slots : ReleaseOne(e, s)
  PROVE  IndInv'
<1>0. TypeOK /\ ExecOK(e)
  BY DEF IndInv
<1>1. CASE UnlockRelease(e)
  <2>1. PICK s \in Slots : s = arg[e] /\ s \in held[e]
    BY <1>0, <1>1 DEF ExecOK, UnlockRelease, TypeOK
  <2>2. arg' \in [Execs -> Slots \cup {NoSlot}] /\ \A d \in Execs \ {e} : arg'[d] = arg[d]
    BY <1>0, <1>1 DEF TypeOK, UnlockRelease
  <2> QED BY <1>1, <2>1, <2>2, ReleaseStep DEF UnlockRelease, goto, shared
<1>2. ASSUME NEW s \in Slots, ReleaseOne(e, s) PROVE IndInv'
  <2>1. pc' = [pc EXCEPT ![e] = "releasing"] /\ arg' \in [Execs -> Slots \cup {NoSlot}]
    BY <1>0, <1>2 DEF TypeOK, ReleaseOne
  <2> QED BY <1>2, <2>1, ReleaseStep DEF ReleaseOne, shared
<1> QED BY <1>1, <1>2

\* The value is read under the lock, or cannot be.
LEMMA ReadStep ==
  ASSUME IndInv, NEW e \in Execs, ReadLocked(e)
  PROVE  IndInv'
<1>0. TypeOK /\ pc[e] = "reading" /\ ExecOK(e)
  BY DEF IndInv, ReadLocked
<1>1. PICK s \in Slots : s = arg[e] /\ s \in held[e]
  BY <1>0 DEF ExecOK, TypeOK
<1>2. /\ pc' = [pc EXCEPT ![e] = "js"] /\ arg' = [arg EXCEPT ![e] = NoSlot]
      /\ UNCHANGED <<cancelled, failed, buf, kv, auth, latest>>
  BY DEF ReadLocked, goto, shared
<1>3. /\ pc' \in [Execs -> Places] /\ arg' \in [Execs -> Slots \cup {NoSlot}]
      /\ pc'[e] = "js" /\ \A d \in Execs \ {e} : pc'[d] = pc[d] /\ arg'[d] = arg[d]
  BY <1>0, <1>2 DEF TypeOK, Places
<1>4. CASE releaseHeld(e, s)
  BY <1>0, <1>1, <1>2, <1>3, <1>4, ReleaseStep
<1>5. CASE seen' = [seen EXCEPT ![e][s] = kv[s]] /\ UNCHANGED <<held, line>>
  <2>1. /\ seen' \in [Execs -> [Slots -> Stored \cup {Outdated}]] /\ seen'[e][s] = kv[s]
        /\ \A d \in Execs, r \in Slots : d # e \/ r # s => seen'[d][r] = seen[d][r]
    BY <1>0, <1>5 DEF TypeOK, Stored
  <2>2. TypeOK'
    BY <1>0, <1>2, <1>3, <1>5, <2>1 DEF TypeOK
  <2>3. \A r \in Slots : LineOK(r)'
    BY <1>0, <1>3, <1>5, LocksAside
  <2>4. \A d \in Execs : ExecOK(d)'
    BY <1>0, <1>2, <1>3, <1>5 DEF IndInv, ExecOK
  <2>5. HolderSeesLatest'
    <3> SUFFICES ASSUME NEW d \in Execs, NEW r \in held'[d] \cap TokenSlots,
                        ~(pc'[d] = "reading" /\ arg'[d] = r)
                 PROVE  kv[r] = seen'[d][r]
      BY <1>2 DEF HolderSeesLatest
    <3>1. r \in held[d] /\ r \in Slots
      BY <1>5, ClassAssumption
    <3>2. ~(pc[d] = "reading" /\ arg[d] = r) => kv[r] = seen[d][r]
      BY <3>1 DEF IndInv, HolderSeesLatest
    <3>3. CASE d = e /\ r = s
      BY <2>1, <3>3
    <3>4. CASE ~(d = e /\ r = s)
      BY <1>0, <1>1, <1>3, <2>1, <3>1, <3>2, <3>4
    <3> QED BY <3>3, <3>4
  <2> QED BY <2>2, <2>3, <2>4, <2>5 DEF IndInv
<1> QED BY <1>1, <1>4, <1>5 DEF ReadLocked

\* unlock writes the value while the lock is held, so nobody else has read it.
LEMMA UnlockWriteStep ==
  ASSUME IndInv, NEW e \in Execs, NEW s \in Slots, NEW v \in Values, UnlockWrite(e, s, v)
  PROVE  IndInv'
<1>0. TypeOK /\ pc[e] = "js" /\ s \in held[e]
  BY DEF IndInv, UnlockWrite
<1>1. /\ kv' = [kv EXCEPT ![s] = v] /\ auth' = auth \cup {s}
      /\ latest' = [latest EXCEPT ![s] = v]
      /\ seen' = [seen EXCEPT ![e][s] = v]
      /\ UNCHANGED <<cancelled, failed, buf, held, line>>
  BY DEF UnlockWrite
<1>2. /\ pc' \in [Execs -> Places] /\ arg' \in [Execs -> Slots \cup {NoSlot}]
      /\ pc'[e] = "unlocking" /\ arg'[e] = s
      /\ \A d \in Execs \ {e} : pc'[d] = pc[d] /\ arg'[d] = arg[d]
  BY <1>0 DEF UnlockWrite, goto, TypeOK, Places
<1>3. /\ kv' \in [Slots -> Stored] /\ kv'[s] = v /\ \A r \in Slots \ {s} : kv'[r] = kv[r]
      /\ seen' \in [Execs -> [Slots -> Stored \cup {Outdated}]] /\ seen'[e][s] = v
      /\ \A d \in Execs, r \in Slots : d # e \/ r # s => seen'[d][r] = seen[d][r]
  BY <1>0, <1>1 DEF TypeOK, Stored
<1>4. TypeOK'
  BY <1>0, <1>1, <1>2, <1>3 DEF TypeOK
<1>5. \A r \in Slots : LineOK(r)'
  BY <1>0, <1>1, <1>2, LocksAside
<1>6. \A d \in Execs : ExecOK(d)'
  BY <1>0, <1>1, <1>2 DEF IndInv, ExecOK
<1>7. HolderSeesLatest'
  <2> SUFFICES ASSUME NEW d \in Execs, NEW r \in held'[d] \cap TokenSlots,
                      ~(pc'[d] = "reading" /\ arg'[d] = r)
               PROVE  kv'[r] = seen'[d][r]
    BY DEF HolderSeesLatest
  <2>1. r \in held[d] /\ r \in Slots
    BY <1>1, ClassAssumption
  <2>2. CASE r = s
    <3>1. d = e
      BY <1>0, <2>1, <2>2, OneHas DEF Has
    <3> QED BY <1>3, <2>2, <3>1
  <2>3. CASE r # s
    <3>1. ~(pc[d] = "reading" /\ arg[d] = r)
      BY <1>0, <1>2
    <3>2. kv[r] = seen[d][r]
      BY <2>1, <3>1 DEF IndInv, HolderSeesLatest
    <3> QED BY <1>3, <2>1, <2>3, <3>2
  <2> QED BY <2>2, <2>3
<1> QED BY <1>4, <1>5, <1>6, <1>7 DEF IndInv

-----------------------------------------------------------------------------
LEMMA InitIndInv == Init => IndInv
<1> SUFFICES ASSUME Init PROVE IndInv
  OBVIOUS
<1>1. TypeOK
  BY DEF Init, TypeOK, Places, EmptyBuffer, Entry, Stored
<1>2. \A s \in Slots : LineOK(s)
  BY DEF Init, LineOK, Distinct, On, Claims, Has
<1>3. \A e \in Execs : ExecOK(e)
  BY ClassAssumption DEF Init, ExecOK, EmptyBuffer
<1>4. HolderSeesLatest
  BY DEF Init, HolderSeesLatest
<1> QED BY <1>1, <1>2, <1>3, <1>4 DEF IndInv

\* What a writer from outside does: one slot, of whose holders none knows of it.
LEMMA Outside ==
  ASSUME TypeOK, NEW s \in Slots, External(s)
  PROVE  /\ UNCHANGED <<pc, arg, held, line, cancelled, failed, buf>>
         /\ s \notin TokenSlots /\ auth' \in SUBSET Slots /\ auth' \subseteq auth \cup {s}
         /\ kv' \in [Slots -> Stored] /\ \A r \in Slots \ {s} : kv'[r] = kv[r]
         /\ latest' \in [Slots -> Stored] /\ \A r \in Slots \ {s} : latest'[r] = latest[r]
         /\ latest'[s] = kv'[s]
         /\ seen' \in [Execs -> [Slots -> Stored \cup {Outdated}]]
         /\ \A e \in Execs, r \in Slots \ {s} : seen'[e][r] = seen[e][r]
         /\ \A e \in Execs : s \in held[e] => seen'[e][s] = Outdated
<1>1. PICK w \in Stored : Stores(s, w) /\ auth' \subseteq auth \cup {s}
  BY DEF External, ExternalWrite, ExternalDelete, Stored
<1>2. auth' \in SUBSET Slots
  BY <1>1 DEF TypeOK
<1>3. /\ kv' \in [Slots -> Stored] /\ \A r \in Slots \ {s} : kv'[r] = kv[r]
      /\ latest' \in [Slots -> Stored] /\ \A r \in Slots \ {s} : latest'[r] = latest[r]
      /\ latest'[s] = kv'[s]
  BY <1>1 DEF TypeOK, Stores
<1>4. /\ seen' \in [Execs -> [Slots -> Stored \cup {Outdated}]]
      /\ \A e \in Execs, r \in Slots \ {s} : seen'[e][r] = seen[e][r]
      /\ \A e \in Execs : s \in held[e] => seen'[e][s] = Outdated
  BY <1>1 DEF TypeOK, Stores
<1> QED BY <1>1, <1>2, <1>3, <1>4 DEF Stores

\* Writers without locks keep away from the token slots.
LEMMA ExternalStep ==
  ASSUME IndInv, NEW s \in Slots, External(s)
  PROVE  IndInv'
<1>0. TypeOK
  BY DEF IndInv
<1>1. /\ UNCHANGED <<pc, arg, held, line, cancelled, failed, buf>>
      /\ s \notin TokenSlots
      /\ \A r \in Slots \ {s} : kv'[r] = kv[r]
      /\ \A e \in Execs, r \in Slots \ {s} : seen'[e][r] = seen[e][r]
  BY <1>0, Outside
<1>3. TypeOK'
  BY <1>0, Outside DEF TypeOK
<1>4. \A r \in Slots : LineOK(r)'
  BY <1>1 DEF IndInv, LineOK, Claims, Has, Holder
<1>5. \A e \in Execs : ExecOK(e)'
  BY <1>1 DEF IndInv, ExecOK
<1>6. \A e \in Execs, r \in TokenSlots : kv'[r] = kv[r] /\ seen'[e][r] = seen[e][r]
  BY <1>1, ClassAssumption
<1>7. HolderSeesLatest'
  BY <1>1, <1>6 DEF IndInv, HolderSeesLatest
<1> QED BY <1>3, <1>4, <1>5, <1>7 DEF IndInv

LEMMA StepIndInv == IndInv /\ [Next]_vars => IndInv'
<1> SUFFICES ASSUME IndInv, [Next]_vars PROVE IndInv'
  OBVIOUS
<1>1. ASSUME NEW e \in Execs, JSStep(e) PROVE IndInv'
  <2>1. ASSUME NEW s \in Slots, Lock(e, s) PROVE IndInv'
    BY <2>1, LockStep
  <2>2. ASSUME NEW s \in Slots, NEW v \in Values, UnlockWrite(e, s, v) PROVE IndInv'
    BY <2>2, UnlockWriteStep
  <2>3. ASSUME NEW s \in Slots,
               UnlockBlank(e, s) \/ \E w \in Values \cup {Deleted} : Write(e, s, w)
        PROVE  IndInv'
    BY <2>3, AsideStep
  <2>4. CASE JSEnds(e)
    BY <2>4, AsideStep
  <2> QED BY <1>1, <2>1, <2>2, <2>3, <2>4 DEF JSStep
<1>2. ASSUME NEW e \in Execs, HostStep(e) PROVE IndInv'
  <2>1. CASE Granted(e) \/ WaitRefused(e)
    BY <2>1, WaitStep
  <2>2. CASE Register(e)
    BY <2>2, RegisterStep
  <2>3. CASE ReadLocked(e)
    BY <2>3, ReadStep
  <2>4. CASE UnlockRelease(e) \/ \E s \in Slots : ReleaseOne(e, s)
    BY <2>4, ReleasedStep
  <2>5. CASE Merge(e) \/ End(e)
    BY <2>5, AsideStep
  <2> QED BY <1>2, <2>1, <2>2, <2>3, <2>4, <2>5 DEF HostStep
<1>3. ASSUME NEW e \in Execs, Cancel(e) PROVE IndInv'
  BY <1>3, AsideStep
<1>4. ASSUME NEW s \in Slots, External(s) PROVE IndInv'
  BY <1>4, ExternalStep
<1>5. CASE UNCHANGED vars
  BY <1>5 DEF vars, shared, IndInv, TypeOK, LineOK, Claims, Has, Holder, ExecOK, HolderSeesLatest
<1> QED BY <1>1, <1>2, <1>3, <1>4, <1>5 DEF Next, Execution

LEMMA Inductive == Spec => []IndInv
BY InitIndInv, StepIndInv, PTL DEF Spec

\* The registry of an execution and the slot locks agree, so no two executions
\* have one slot and every release in a registry is good (registerHeld,
\* releaseHeld, SlotLocks.Acquire).
THEOREM RegistriesMatch == Spec => []RegistryMatchesLocks
<1>1. IndInv => RegistryMatchesLocks
  BY DEF IndInv, TypeOK, LineOK, Has, Locked, RegistryMatchesLocks
<1> QED BY <1>1, Inductive, PTL

\* No lock leaks between Acquire and the registry, and an execution that has
\* ended holds and awaits none (registerHeld, finalize).
THEOREM LocksAreNotLeaked == Spec => []NoLeakedLock
<1>1. IndInv => NoLeakedLock
  <2> SUFFICES ASSUME IndInv PROVE NoLeakedLock
    OBVIOUS
  <2>1. ASSUME NEW s \in Slots, Locked(s)
        PROVE  LET e == Holder(s)
               IN  s \in held[e] \/ (arg[e] = s /\ pc[e] \in {"waiting", "acquired"})
    <3>1. line[s] \in Seq(Execs) /\ line[s] # <<>> /\ LineOK(s)
      BY <2>1 DEF IndInv, TypeOK, Locked
    <3>2. Holder(s) \in Execs /\ On(Holder(s), line[s])
      BY <3>1 DEF Holder, On
    <3>3. Claims(Holder(s), s)
      BY <3>1, <3>2 DEF LineOK
    <3> QED BY <3>3 DEF Claims, Has
  <2>2. ASSUME NEW e \in Execs, pc[e] = "ended"
        PROVE  held[e] = {} /\ \A s \in Slots : e \notin ToSet(line[s])
    <3>1. held[e] = {}
      BY <2>2 DEF IndInv, ExecOK
    <3>2. ASSUME NEW s \in Slots PROVE e \notin ToSet(line[s])
      <4>1. line[s] \in Seq(Execs) /\ ~Claims(e, s)
        BY <2>2, <3>1 DEF IndInv, TypeOK, Claims, Has
      <4>2. ~On(e, line[s])
        BY <4>1 DEF IndInv, LineOK
      <4> QED BY <4>1, <4>2 DEF ToSet, On
    <3> QED BY <3>1, <3>2
  <2> QED BY <2>1, <2>2 DEF NoLeakedLock
<1> QED BY <1>1, Inductive, PTL

\* Read-modify-write of a token slot under its lock loses no update (getWithLock,
\* UnlockWrite, and the merge of the other executions' buffers).
THEOREM HoldersAreCurrent == Spec => []HolderSeesLatest
<1>1. IndInv => HolderSeesLatest
  BY DEF IndInv
<1> QED BY <1>1, Inductive, PTL

\* Late merges undo no refresh: for each step, what it does to the stored values, the
\* marks and what holders know.
LEMMA SurviveStep == IndInv /\ RefreshesSurvive /\ [Next]_vars => RefreshesSurvive'
<1> SUFFICES ASSUME IndInv, RefreshesSurvive, [Next]_vars
             PROVE  RefreshesSurvive'
  OBVIOUS
<1>0. TypeOK
  BY DEF IndInv
<1>1. ASSUME NEW s \in Slots, External(s) PROVE RefreshesSurvive'
  <2> SUFFICES ASSUME NEW r \in auth'
               PROVE  /\ kv'[r] = latest'[r]
                      /\ \A e \in Execs :
                           r \in held'[e] /\ ~(pc'[e] = "reading" /\ arg'[e] = r)
                             /\ seen'[e][r] # Outdated => kv'[r] = seen'[e][r]
    BY DEF RefreshesSurvive
  <2>1. r \in Slots
    BY <1>0, <1>1, Outside
  <2>2. CASE r = s
    BY <1>0, <1>1, <2>2, Outside
  <2>3. CASE r # s
    <3>1. r \in auth
      BY <1>0, <1>1, <2>3, Outside
    <3>2. /\ kv'[r] = kv[r] /\ latest'[r] = latest[r] /\ UNCHANGED <<pc, arg, held>>
          /\ \A e \in Execs : seen'[e][r] = seen[e][r]
      BY <1>0, <1>1, <2>1, <2>3, Outside
    <3> QED BY <3>1, <3>2 DEF RefreshesSurvive
  <2> QED BY <2>2, <2>3
<1>2. ASSUME NEW e \in Execs, NEW s \in Slots, NEW v \in Values, UnlockWrite(e, s, v)
      PROVE  RefreshesSurvive'
  <2>1. /\ auth' = auth \cup {s} /\ kv'[s] = v /\ latest'[s] = v /\ seen'[e][s] = v
        /\ \A r \in Slots \ {s} : kv'[r] = kv[r] /\ latest'[r] = latest[r]
        /\ \A d \in Execs, r \in Slots : d # e \/ r # s => seen'[d][r] = seen[d][r]
        /\ held' = held /\ s \in held[e] /\ pc[e] = "js" /\ s \in Slots
        /\ \A d \in Execs \ {e} : pc'[d] = pc[d] /\ arg'[d] = arg[d]
    BY <1>0, <1>2 DEF UnlockWrite, goto, TypeOK
  <2>2. \A d \in Execs : s \in held[d] => d = e
    BY <2>1, OneHas DEF Has
  <2>3. \A r \in auth : r \in Slots
    BY <1>0 DEF TypeOK
  <2>4. ASSUME NEW r \in auth \ {s}, NEW d \in Execs, r \in held[d],
               ~(pc'[d] = "reading" /\ arg'[d] = r), seen'[d][r] # Outdated
        PROVE  kv'[r] = seen'[d][r]
    <3>1. ~(pc[d] = "reading" /\ arg[d] = r) /\ seen'[d][r] = seen[d][r] /\ kv'[r] = kv[r]
      BY <2>1, <2>3, <2>4
    <3> QED BY <2>4, <3>1 DEF RefreshesSurvive
  <2>5. \A r \in auth \ {s} : kv'[r] = latest'[r]
    BY <2>1, <2>3 DEF RefreshesSurvive
  <2> QED BY <2>1, <2>2, <2>4, <2>5 DEF RefreshesSurvive
<1>3. ASSUME NEW e \in Execs, Merge(e) PROVE RefreshesSurvive'
  <2>1. /\ UNCHANGED <<arg, held, auth, latest, seen>>
        /\ pc[e] = "merging" /\ pc' = [pc EXCEPT ![e] = "releasing"]
    BY <1>3 DEF Merge, private, goto
  <2>2. \A s \in auth : s \in Slots
    BY <1>0 DEF TypeOK
  <2>3. \A s \in auth : kv'[s] = kv[s]
    BY <1>3, <2>2 DEF Merge, MergeInto
  <2>4. \A d \in Execs : pc'[d] = "reading" <=> pc[d] = "reading"
    BY <1>0, <2>1 DEF TypeOK
  <2> QED BY <2>1, <2>3, <2>4 DEF RefreshesSurvive
<1>4. ASSUME NEW e \in Execs, ReadLocked(e) PROVE RefreshesSurvive'
  <2>1. PICK s \in Slots : s = arg[e] /\ s \in held[e] /\ pc[e] = "reading"
    BY <1>0, <1>4 DEF IndInv, ExecOK, ReadLocked, TypeOK
  <2>2. /\ UNCHANGED <<kv, auth, latest>>
        /\ pc'[e] = "js" /\ \A d \in Execs \ {e} : pc'[d] = pc[d] /\ arg'[d] = arg[d]
    BY <1>0, <1>4 DEF ReadLocked, goto, shared, TypeOK
  <2>3. /\ \A d \in Execs : held'[d] \subseteq held[d]
        /\ \A d \in Execs, r \in Slots : d # e \/ r # s => seen'[d][r] = seen[d][r]
        /\ s \in held'[e] => seen'[e][s] = kv[s]
    <3>1. CASE seen' = [seen EXCEPT ![e][s] = kv[s]] /\ UNCHANGED held
      BY <1>0, <2>1, <3>1 DEF TypeOK
    <3>2. CASE releaseHeld(e, s)
      BY <1>0, <2>1, <3>2 DEF releaseHeld, TypeOK
    <3> QED BY <1>4, <2>1, <3>1, <3>2 DEF ReadLocked
  <2>4. \A r \in auth : r \in Slots
    BY <1>0 DEF TypeOK
  <2>5. ASSUME NEW r \in auth, NEW d \in Execs, r \in held'[d],
               ~(pc'[d] = "reading" /\ arg'[d] = r), seen'[d][r] # Outdated
        PROVE  kv[r] = seen'[d][r]
    <3>1. CASE d = e /\ r = s
      BY <2>3, <2>5, <3>1
    <3>2. CASE ~(d = e /\ r = s)
      <4>1. ~(pc[d] = "reading" /\ arg[d] = r) /\ seen'[d][r] = seen[d][r] /\ r \in held[d]
        BY <2>1, <2>2, <2>3, <2>4, <2>5, <3>2
      <4> QED BY <2>5, <4>1 DEF RefreshesSurvive
    <3> QED BY <3>1, <3>2
  <2> QED BY <2>2, <2>5 DEF RefreshesSurvive
<1>5. ASSUME NEW e \in Execs, NEW s \in Slots,
             releaseHeld(e, s), s \in held[e], pc[e] # "reading", pc'[e] # "reading",
             \A d \in Execs \ {e} : pc'[d] = pc[d] /\ arg'[d] = arg[d],
             UNCHANGED <<kv, auth, latest>>
      PROVE  RefreshesSurvive'
  <2>1. /\ \A d \in Execs : held'[d] \subseteq held[d]
        /\ s \notin held'[e]
        /\ \A d \in Execs, r \in Slots : d # e \/ r # s => seen'[d][r] = seen[d][r]
    BY <1>0, <1>5 DEF releaseHeld, TypeOK
  <2>2. \A r \in auth : r \in Slots
    BY <1>0 DEF TypeOK
  <2> QED BY <1>5, <2>1, <2>2 DEF RefreshesSurvive
<1>6. ASSUME NEW e \in Execs, UnlockRelease(e) PROVE RefreshesSurvive'
  <2>1. /\ arg[e] \in Slots /\ arg[e] \in held[e] /\ releaseHeld(e, arg[e])
        /\ pc[e] # "reading" /\ pc'[e] # "reading" /\ UNCHANGED <<kv, auth, latest>>
        /\ \A d \in Execs \ {e} : pc'[d] = pc[d] /\ arg'[d] = arg[d]
    BY <1>0, <1>6 DEF IndInv, ExecOK, UnlockRelease, goto, shared, TypeOK
  <2> QED BY <2>1, <1>5
<1>7. ASSUME NEW e \in Execs, NEW s \in Slots, ReleaseOne(e, s) PROVE RefreshesSurvive'
  <2>1. /\ s \in held[e] /\ releaseHeld(e, s) /\ pc[e] # "reading" /\ pc'[e] # "reading"
        /\ UNCHANGED <<kv, auth, latest, pc, arg>>
    BY <1>7 DEF ReleaseOne, shared
  <2> QED BY <2>1, <1>5
<1>8. ASSUME NEW e \in Execs, Register(e) PROVE RefreshesSurvive'
  <2>1. /\ UNCHANGED <<kv, auth, latest, seen>> /\ pc[e] = "acquired"
        /\ \A d \in Execs \ {e} : pc'[d] = pc[d] /\ arg'[d] = arg[d] /\ held'[d] = held[d]
        /\ \/ pc'[e] = "reading" /\ arg'[e] = arg[e] /\ held'[e] = held[e] \cup {arg[e]}
           \/ pc'[e] = "js" /\ held'[e] = held[e]
    BY <1>0, <1>8 DEF Register, goto, shared, private, TypeOK
  <2>2. ASSUME NEW d \in Execs, NEW r \in held'[d], ~(pc'[d] = "reading" /\ arg'[d] = r)
        PROVE  r \in held[d] /\ ~(pc[d] = "reading" /\ arg[d] = r)
    BY <2>1, <2>2
  <2> QED BY <2>1, <2>2 DEF RefreshesSurvive
<1>9. ASSUME NEW e \in Execs,
             \/ \E s \in Slots : Lock(e, s) \/ UnlockBlank(e, s)
             \/ \E s \in Slots, w \in Values \cup {Deleted} : Write(e, s, w)
             \/ JSEnds(e) \/ Granted(e) \/ WaitRefused(e) \/ End(e) \/ Cancel(e)
      PROVE  RefreshesSurvive'
  <2>1. /\ UNCHANGED <<kv, auth, latest, seen, held>>
        /\ \A d \in Execs \ {e} : pc'[d] = pc[d] /\ arg'[d] = arg[d]
        /\ (pc[e] # "reading" /\ pc'[e] # "reading") \/ UNCHANGED <<pc, arg>>
    BY <1>0, <1>9 DEF Lock, UnlockBlank, Write, JSEnds, Granted, WaitRefused, End, Cancel,
       goto, shared, private, TypeOK
  <2> QED BY <2>1 DEF RefreshesSurvive
<1>10. CASE UNCHANGED vars
  BY <1>10 DEF vars, RefreshesSurvive
<1> QED
  BY <1>1, <1>2, <1>3, <1>4, <1>6, <1>7, <1>8, <1>9, <1>10
  DEF Next, Execution, JSStep, HostStep

\* What a locked refresh or a writer from outside stored stays until the next of them,
\* and who reads an authoritative slot under its lock knows its value (UnlockWrite,
\* finalize, the two-level storage).
THEOREM RefreshesAreKept == Spec => []RefreshesSurvive
<1>1. Init => RefreshesSurvive
  BY DEF Init, RefreshesSurvive
<1> QED BY <1>1, SurviveStep, Inductive, PTL DEF Spec

-----------------------------------------------------------------------------
(* HandlerReply: the answer of a handler to its client *)

\* An answer that is complete for the client is complete for the host, while the
\* handler runs; and frames of a stream follow its header.
Settled(e) ==
  /\ ex[e].done => ex[e].mode # ""
  /\ ex[e].phase = "handler" =>
       /\ "json" \in sent(e) /\ e \notin gone => ex[e].done
       /\ "json502" \in sent(e) => ex[e].done /\ ex[e].mode = "sse"
  /\ "json502" \in sent(e) => lastSent(e) = "json502"
  /\ bodiless(e) => lastSent(e) = "bodiless"
  /\ sent(e) \cap {"event", "end", "errframe"} # {} => wroteHeader(e)

Good(e) == Agrees(e) /\ Settled(e) /\ (finished(e) => Told(e))

ReplyInv == ReplyTypeOK /\ \A e \in Execs : Good(e)

-----------------------------------------------------------------------------
\* What a write adds to the answer of an execution.
LEMMA WriteAdds ==
  ASSUME ReplyTypeOK, NEW e \in Execs, NEW k \in Kinds, NEW who \in Execs \cup {Host}, write(e, k, who)
  PROVE  /\ sent(e)' = sent(e) \cup {k} /\ lastSent(e)' = k /\ wire'[e] # <<>>
         /\ wire' \in [Execs -> Seq([kind : Kinds, by : Execs \cup {Host}])]
         /\ \A f \in Execs \ {e} : wire'[f] = wire[f]
<1> DEFINE R == [kind : Kinds, by : Execs \cup {Host}]
           r == [kind |-> k, by |-> who]
<1>1. wire \in [Execs -> Seq(R)] /\ wire[e] \in Seq(R) /\ r \in R
  BY DEF ReplyTypeOK
<1>2. wire' = [wire EXCEPT ![e] = Append(wire[e], r)]
  BY DEF write
<1>3. wire'[e] = Append(wire[e], r) /\ \A f \in Execs \ {e} : wire'[f] = wire[f]
  BY <1>1, <1>2
<1> HIDE DEF R
<1>4. /\ Append(wire[e], r) \in Seq(R) /\ Len(wire'[e]) = Len(wire[e]) + 1
      /\ \A i \in 1..Len(wire[e]) : wire'[e][i] = wire[e][i]
      /\ wire'[e][Len(wire[e]) + 1] = r
  BY <1>1, <1>3, AppendProperties
<1>5. /\ DOMAIN wire[e] = 1..Len(wire[e]) /\ Len(wire[e]) \in Nat
      /\ DOMAIN wire'[e] = 1..(Len(wire[e]) + 1)
  BY <1>1, <1>3, <1>4
<1>6. wire' \in [Execs -> Seq(R)]
  BY <1>1, <1>2, <1>4
<1>7. wire'[e] # <<>> /\ lastSent(e)' = k
  BY <1>4, <1>5 DEF lastSent, Last
<1>8. sent(e)' = sent(e) \cup {k}
  <2>1. \A i \in DOMAIN wire'[e] : wire'[e][i].kind \in sent(e) \cup {k}
    BY <1>4, <1>5 DEF sent
  <2>2. \A i \in DOMAIN wire[e] : i \in DOMAIN wire'[e] /\ wire'[e][i].kind = wire[e][i].kind
    BY <1>4, <1>5
  <2>3. Len(wire[e]) + 1 \in DOMAIN wire'[e] /\ wire'[e][Len(wire[e]) + 1].kind = k
    BY <1>4, <1>5
  <2>4. sent(e)' \subseteq sent(e) \cup {k}
    BY <2>1 DEF sent
  <2>5. sent(e) \cup {k} \subseteq sent(e)'
    BY <2>2, <2>3 DEF sent
  <2> QED BY <2>4, <2>5
<1> QED BY <1>3, <1>6, <1>7, <1>8 DEF R

\* An answer that is not written to stays what it was.
LEMMA SameAnswer ==
  ASSUME NEW e \in Execs, wire'[e] = wire[e]
  PROVE  sent(e)' = sent(e) /\ lastSent(e)' = lastSent(e)
BY DEF sent, lastSent, Last

LEMMA NothingSent ==
  ASSUME ReplyTypeOK, NEW e \in Execs, wire[e] = <<>>
  PROVE  sent(e) = {}
<1>1. wire[e] \in Seq([kind : Kinds, by : Execs \cup {Host}])
  BY DEF ReplyTypeOK
<1>2. DOMAIN wire[e] = 1..Len(wire[e]) /\ Len(wire[e]) = 0
  BY <1>1
<1>3. DOMAIN wire[e] = {}
  BY <1>2
<1> QED BY <1>3 DEF sent

\* An execution that a step does not touch stays good.
LEMMA ReplyUntouched ==
  ASSUME NEW e \in Execs, Good(e), ex'[e] = ex[e], wire'[e] = wire[e], gone \subseteq gone'
  PROVE  Good(e)'
BY SameAnswer DEF Good, Agrees, Settled, Told, finished, wroteHeader, bodiless

\* The last write is one of the writes.
LEMMA LastIsSent ==
  ASSUME ReplyTypeOK, NEW e \in Execs, lastSent(e) \in Kinds
  PROVE  lastSent(e) \in sent(e)
<1>1. wire[e] \in Seq([kind : Kinds, by : Execs \cup {Host}])
  BY DEF ReplyTypeOK
<1>2. wire[e] # <<>>
  BY DEF lastSent, Kinds
<1>3. Len(wire[e]) \in DOMAIN wire[e]
  BY <1>1, <1>2
<1> QED BY <1>2, <1>3 DEF lastSent, Last, sent

\* While the handler runs, an answer its client may take for complete is done, unless
\* it is one whose body was refused.
LEMMA TerminalIsDone ==
  ASSUME ReplyTypeOK, NEW e \in Execs, Good(e), running(e), e \notin gone,
         lastSent(e) \in Terminal, ~bodiless(e)
  PROVE  ex[e].phase = "handler" /\ ex[e].done
<1>1. lastSent(e) \in sent(e)
  BY LastIsSent DEF Terminal, Kinds
<1>2. ex[e].phase = "handler"
  BY DEF running, Good, Agrees, lastSent, Terminal
<1>0. lastSent(e) # "bodiless"
  BY <1>1 DEF bodiless
<1>3. CASE lastSent(e) \in {"json", "json502"}
  BY <1>1, <1>2, <1>3 DEF Good, Settled
<1>4. CASE lastSent(e) \in {"end", "errframe"}
  BY <1>1, <1>2, <1>4 DEF Good, Settled, Agrees
<1> QED BY <1>0, <1>2, <1>3, <1>4 DEF Terminal

\* Setting the reply state of one execution.
LEMMA SetOne ==
  ASSUME ReplyTypeOK, NEW e \in Execs, NEW x \in State, set(e, x)
  PROVE  ex'[e] = x /\ ex' \in [Execs -> State] /\ \A f \in Execs \ {e} : ex'[f] = ex[f]
BY DEF ReplyTypeOK, set

-----------------------------------------------------------------------------
\* A primitive leaves the execution it acts on good, touches no other one, and
\* writes nothing behind an answer that is complete.
LEMMA PerformStep ==
  ASSUME ReplyInv, NEW e \in Execs, NEW op \in Ops, NEW who \in Execs,
         running(e), Perform(op, e, who), gone' = gone
  PROVE  /\ Good(e)'
         /\ \A f \in Execs \ {e} : ex'[f] = ex[f] /\ wire'[f] = wire[f]
         /\ ex' \in [Execs -> State]
         /\ wire' \in [Execs -> Seq([kind : Kinds, by : Execs \cup {Host}])]
         /\ e \notin gone /\ lastSent(e) \in Terminal => wire' = wire
<1>1. ReplyTypeOK /\ Good(e) /\ ex[e] \in State
  BY DEF ReplyInv, ReplyTypeOK
<1>2. e \notin gone /\ lastSent(e) \in Terminal /\ ~bodiless(e) => ex[e].phase = "handler" /\ ex[e].done
  BY <1>1, TerminalIsDone
<1>20. bodiless(e) => ex[e].mode = "json"
  BY <1>1 DEF Good, Agrees, bodiless
<1>3. \A x \in State : set(e, x) => /\ ex'[e] = x /\ ex' \in [Execs -> State]
                                    /\ \A f \in Execs \ {e} : ex'[f] = ex[f]
  BY <1>1, SetOne
<1>4. \A k \in Kinds : write(e, k, who) =>
        /\ sent(e)' = sent(e) \cup {k} /\ lastSent(e)' = k /\ wire'[e] # <<>>
        /\ wire' \in [Execs -> Seq([kind : Kinds, by : Execs \cup {Host}])]
        /\ \A f \in Execs \ {e} : wire'[f] = wire[f]
  BY <1>1, WriteAdds
<1>5. wire' = wire => /\ sent(e)' = sent(e) /\ lastSent(e)' = lastSent(e)
                      /\ wire' \in [Execs -> Seq([kind : Kinds, by : Execs \cup {Host}])]
  BY <1>1, SameAnswer DEF ReplyTypeOK
<1>6. CASE op = "json" /\ ReplyJSON(e, who)
  <2> DEFINE x == [ex[e] EXCEPT !.mode = "json"]
             y == [x EXCEPT !.done = TRUE]
  <2>1. /\ x \in State /\ y \in State
        /\ x.stream = ex[e].stream /\ x.phase = ex[e].phase /\ x.mode = "json"
        /\ x.done = ex[e].done /\ x.started = ex[e].started /\ x.result = ex[e].result
        /\ y.stream = ex[e].stream /\ y.phase = ex[e].phase /\ y.mode = "json"
        /\ y.done = TRUE /\ y.started = ex[e].started /\ y.result = ex[e].result
    BY <1>1 DEF State
  <2>2. ex[e].phase = "handler" /\ ~ex[e].done /\ ex[e].mode \in {"", "json"}
    BY <1>6 DEF ReplyJSON, claim
  <2>3. ~ex[e].started /\ "json502" \notin sent(e) /\ ~wroteHeader(e)
    BY <1>1, <2>2 DEF Good, Agrees, Settled
  <2> HIDE DEF x, y
  <2>4. CASE ex[e].stream /\ set(e, x) /\ UNCHANGED wire
    BY <1>1, <1>2, <1>20, <1>3, <1>5, <2>1, <2>2, <2>3, <2>4
    DEF Good, Agrees, Settled, Told, finished, wroteHeader, bodiless
  <2>5. CASE ~ex[e].stream /\ bodiless(e) /\ UNCHANGED wire /\ (set(e, x) \/ set(e, y))
    <3>1. PICK w \in {x, y} : set(e, w)
      BY <2>5
    <3>2. /\ w \in State /\ w.stream = ex[e].stream /\ w.phase = ex[e].phase /\ w.mode = "json"
          /\ w.started = ex[e].started /\ w.result = ex[e].result
      BY <2>1
    <3>3. ex'[e] = w /\ ex' \in [Execs -> State] /\ \A f \in Execs \ {e} : ex'[f] = ex[f]
      BY <1>3, <3>1, <3>2
    <3>4. "json" \in sent(e) /\ e \notin gone => FALSE
      BY <1>1, <2>2 DEF Good, Settled
    <3>5. Agrees(e)'
      BY <1>1, <1>5, <2>2, <2>3, <2>5, <3>2, <3>3 DEF Good, Agrees, wroteHeader
    <3>6. Settled(e)' /\ ~finished(e)'
      BY <1>1, <1>5, <2>2, <2>3, <2>5, <3>2, <3>3, <3>4 DEF Good, Settled, finished, wroteHeader, bodiless
    <3> QED BY <1>5, <2>5, <3>3, <3>5, <3>6 DEF Good
  <2>6. ASSUME ~ex[e].stream, ~bodiless(e), NEW k \in {"json", "bodiless"}, write(e, k, who),
               NEW w \in {x, y}, set(e, w), w = y \/ k = "bodiless" \/ e \in gone
        PROVE  /\ Good(e)'
               /\ \A f \in Execs \ {e} : ex'[f] = ex[f] /\ wire'[f] = wire[f]
               /\ ex' \in [Execs -> State]
               /\ wire' \in [Execs -> Seq([kind : Kinds, by : Execs \cup {Host}])]
               /\ e \notin gone /\ lastSent(e) \in Terminal => wire' = wire
    <3>1. /\ sent(e)' = sent(e) \cup {k} /\ lastSent(e)' = k /\ wire'[e] # <<>>
          /\ wire' \in [Execs -> Seq([kind : Kinds, by : Execs \cup {Host}])]
          /\ \A f \in Execs \ {e} : wire'[f] = wire[f]
      BY <1>4, <2>6 DEF Kinds
    <3>2. /\ w \in State /\ w.stream = ex[e].stream /\ w.phase = ex[e].phase /\ w.mode = "json"
          /\ w.started = ex[e].started /\ w.result = ex[e].result /\ (w = y => w.done)
      BY <2>1
    <3>3. ex'[e] = w /\ ex' \in [Execs -> State] /\ \A f \in Execs \ {e} : ex'[f] = ex[f]
      BY <1>3, <2>6, <3>2
    <3>4. "json" \in sent(e) /\ e \notin gone => FALSE
      BY <1>1, <2>2 DEF Good, Settled
    <3>5. Agrees(e)'
      BY <1>1, <2>2, <2>3, <2>6, <3>1, <3>2, <3>3 DEF Good, Agrees, wroteHeader
    <3>6. Settled(e)' /\ ~finished(e)'
      BY <1>1, <2>2, <2>3, <2>6, <3>1, <3>2, <3>3, <3>4
      DEF Good, Settled, finished, wroteHeader, bodiless
    <3>7. ~(e \notin gone /\ lastSent(e) \in Terminal)
      BY <1>2, <2>2, <2>6
    <3> QED BY <3>1, <3>3, <3>5, <3>6, <3>7 DEF Good
  <2>7. \/ ex[e].stream /\ set(e, x) /\ UNCHANGED wire
        \/ ~ex[e].stream /\ bodiless(e) /\ UNCHANGED wire /\ (set(e, x) \/ set(e, y))
        \/ ~ex[e].stream /\ ~bodiless(e) /\ set(e, y) /\ write(e, "json", who)
        \/ ~ex[e].stream /\ ~bodiless(e) /\ set(e, x) /\ write(e, "bodiless", who)
        \/ ~ex[e].stream /\ ~bodiless(e) /\ e \in gone /\ set(e, x) /\ write(e, "json", who)
    BY <1>6, <2>1 DEF ReplyJSON, x, y
  <2> QED BY <2>4, <2>5, <2>6, <2>7
<1>7. CASE op = "sse" /\ ReplySSE(e, who)
  <2> DEFINE x == [ex[e] EXCEPT !.mode = "sse"]
             y == [x EXCEPT !.started = TRUE]
  <2>1. /\ x \in State /\ y \in State
        /\ x.stream = ex[e].stream /\ x.phase = ex[e].phase /\ x.mode = "sse"
        /\ x.done = ex[e].done /\ x.started = ex[e].started /\ x.result = ex[e].result
        /\ y.stream = ex[e].stream /\ y.phase = ex[e].phase /\ y.mode = "sse"
        /\ y.done = ex[e].done /\ y.started = TRUE /\ y.result = ex[e].result
    BY <1>1 DEF State
  <2>2. ex[e].phase = "handler" /\ ~ex[e].done /\ ex[e].mode \in {"", "sse"}
    BY <1>7 DEF ReplySSE, claim
  <2>3. "json" \notin sent(e) /\ "json502" \notin sent(e)
    BY <1>1, <2>2 DEF Good, Agrees, Settled
  <2> HIDE DEF x, y
  <2>4. CASE ~ex[e].stream /\ set(e, x) /\ UNCHANGED wire
    BY <1>1, <1>2, <1>20, <1>3, <1>5, <2>1, <2>2, <2>3, <2>4
    DEF Good, Agrees, Settled, Told, finished, wroteHeader, bodiless
  <2>5. CASE ex[e].stream /\ set(e, y) /\ write(e, "head", who)
    <3>1. /\ sent(e)' = sent(e) \cup {"head"} /\ lastSent(e)' = "head" /\ wire'[e] # <<>>
          /\ wire' \in [Execs -> Seq([kind : Kinds, by : Execs \cup {Host}])]
          /\ \A f \in Execs \ {e} : wire'[f] = wire[f]
      BY <1>4, <2>5 DEF Kinds
    <3>2. ex'[e] = y /\ ex' \in [Execs -> State] /\ \A f \in Execs \ {e} : ex'[f] = ex[f]
      BY <1>3, <2>1, <2>5
    <3> QED BY <1>1, <1>2, <1>20, <3>1, <3>2, <2>1, <2>2, <2>3, <2>5
        DEF Good, Agrees, Settled, Told, finished, wroteHeader, bodiless
  <2>6. \/ ~ex[e].stream /\ set(e, x) /\ UNCHANGED wire
        \/ ex[e].stream /\ set(e, y) /\ write(e, "head", who)
    BY <1>7, <2>1 DEF ReplySSE, x, y
  <2> QED BY <2>4, <2>5, <2>6
<1>8. ex[e].mode = "sse" => ex[e].phase = "handler"
  BY <1>1 DEF running, Good, Agrees
<1>9. CASE op = "event" /\ ReplyEvent(e, who)
  BY <1>1, <1>2, <1>20, <1>4, <1>8, <1>9
  DEF ReplyEvent, ReplyTypeOK, Good, Agrees, Settled, Told, finished, wroteHeader, bodiless, Kinds
<1> DEFINE z == [ex[e] EXCEPT !.done = TRUE]
<1>10. /\ z \in State /\ z.stream = ex[e].stream /\ z.phase = ex[e].phase /\ z.mode = ex[e].mode
       /\ z.done = TRUE /\ z.started = ex[e].started /\ z.result = ex[e].result
  BY <1>1 DEF State
<1>11. CASE op = "end" /\ ReplyEnd(e, who)
  <2>1. ex[e].phase = "handler" /\ ex[e].mode = "sse" /\ ~ex[e].done /\ set(e, z)
    BY <1>11 DEF ReplyEnd
  <2> HIDE DEF z
  <2>2. CASE wroteHeader(e) /\ write(e, "end", who)
    <3>1. /\ sent(e)' = sent(e) \cup {"end"} /\ lastSent(e)' = "end" /\ wire'[e] # <<>>
          /\ wire' \in [Execs -> Seq([kind : Kinds, by : Execs \cup {Host}])]
          /\ \A f \in Execs \ {e} : wire'[f] = wire[f]
      BY <1>4, <2>2 DEF Kinds
    <3>2. ex'[e] = z /\ ex' \in [Execs -> State] /\ \A f \in Execs \ {e} : ex'[f] = ex[f]
      BY <1>3, <1>10, <2>1
    <3> QED BY <1>1, <1>2, <1>20, <3>1, <3>2, <1>10, <2>1, <2>2
        DEF Good, Agrees, Settled, Told, finished, wroteHeader, bodiless
  <2>3. CASE ~wroteHeader(e) /\ wire' = wire
    BY <1>1, <1>2, <1>20, <1>3, <1>5, <1>10, <2>1, <2>3
    DEF Good, Agrees, Settled, Told, finished, wroteHeader, bodiless
  <2> QED BY <1>11, <2>2, <2>3 DEF ReplyEnd
<1>12. CASE op = "error" /\ ReplyError(e, who)
  <2>1. ex[e].phase = "handler" /\ ex[e].mode = "sse" /\ ~ex[e].done /\ set(e, z)
    BY <1>12, <1>8 DEF ReplyError
  <2> HIDE DEF z
  <2>2. CASE wroteHeader(e) /\ write(e, "errframe", who)
    <3>1. /\ sent(e)' = sent(e) \cup {"errframe"} /\ lastSent(e)' = "errframe" /\ wire'[e] # <<>>
          /\ wire' \in [Execs -> Seq([kind : Kinds, by : Execs \cup {Host}])]
          /\ \A f \in Execs \ {e} : wire'[f] = wire[f]
      BY <1>4, <2>2 DEF Kinds
    <3>2. ex'[e] = z /\ ex' \in [Execs -> State] /\ \A f \in Execs \ {e} : ex'[f] = ex[f]
      BY <1>3, <1>10, <2>1
    <3> QED BY <1>1, <1>2, <1>20, <3>1, <3>2, <1>10, <2>1, <2>2
        DEF Good, Agrees, Settled, Told, finished, wroteHeader, bodiless
  <2>3. CASE ~wroteHeader(e) /\ write(e, "json502", who)
    <3>1. /\ sent(e)' = sent(e) \cup {"json502"} /\ lastSent(e)' = "json502" /\ wire'[e] # <<>>
          /\ wire' \in [Execs -> Seq([kind : Kinds, by : Execs \cup {Host}])]
          /\ \A f \in Execs \ {e} : wire'[f] = wire[f]
      BY <1>4, <2>3 DEF Kinds
    <3>2. ex'[e] = z /\ ex' \in [Execs -> State] /\ \A f \in Execs \ {e} : ex'[f] = ex[f]
      BY <1>3, <1>10, <2>1
    <3> QED BY <1>1, <1>2, <1>20, <3>1, <3>2, <1>10, <2>1, <2>3
        DEF Good, Agrees, Settled, Told, finished, wroteHeader, bodiless
  <2> QED BY <1>12, <2>2, <2>3 DEF ReplyError, errorFrame
<1> QED BY <1>6, <1>7, <1>9, <1>11, <1>12 DEF Perform

-----------------------------------------------------------------------------
Quiet == \A e \in Execs : e \notin gone /\ lastSent(e) \in Terminal => wire'[e] = wire[e]

\* It is enough to look at the execution a step is about.
LEMMA OneExecution ==
  ASSUME ReplyInv, NEW e \in Execs, Good(e)',
         \A f \in Execs \ {e} : ex'[f] = ex[f] /\ wire'[f] = wire[f],
         ex' \in [Execs -> State],
         wire' \in [Execs -> Seq([kind : Kinds, by : Execs \cup {Host}])],
         cur' \in Execs \cup {Nobody}, gone' \in SUBSET Execs, gone \subseteq gone',
         jobs' \in Seq([op : Ops, by : Execs]),
         e \notin gone /\ lastSent(e) \in Terminal => wire'[e] = wire[e]
  PROVE  ReplyInv' /\ Quiet
<1>1. ReplyTypeOK'
  BY DEF ReplyTypeOK
<1>2. \A f \in Execs : Good(f)'
  <2> TAKE f \in Execs
  <2>1. CASE f = e
    BY <2>1
  <2>2. CASE f # e
    BY <2>2, ReplyUntouched DEF ReplyInv
  <2> QED BY <2>1, <2>2
<1>3. Quiet
  BY DEF Quiet
<1> QED BY <1>1, <1>2, <1>3 DEF ReplyInv

\* The queue of promise jobs keeps its type.
LEMMA JobTypes ==
  ASSUME ReplyTypeOK
  PROVE  /\ jobs \in Seq([op : Ops, by : Execs])
         /\ jobs # <<>> => /\ Tail(jobs) \in Seq([op : Ops, by : Execs])
                           /\ Head(jobs) \in [op : Ops, by : Execs]
BY HeadTailProperties DEF ReplyTypeOK

LEMMA CallStep ==
  ASSUME ReplyInv, NEW e \in Execs, Call(e) \/ RunJob(e)
  PROVE  ReplyInv' /\ Quiet
<1>1. ReplyTypeOK /\ Good(e) /\ running(e) /\ UNCHANGED <<cur, gone>>
  BY DEF ReplyInv, Call, RunJob
<1>2. jobs' \in Seq([op : Ops, by : Execs])
  BY <1>1, JobTypes DEF Call, RunJob
<1>3. cur' \in Execs \cup {Nobody} /\ gone' \in SUBSET Execs
  BY <1>1 DEF ReplyTypeOK
<1>4. CASE \E op \in Ops, who \in Execs : Perform(op, e, who)
  <2>1. PICK op \in Ops, who \in Execs : Perform(op, e, who)
    BY <1>4
  <2> QED BY <2>1, <1>1, <1>2, <1>3, PerformStep, OneExecution
<1>5. CASE UNCHANGED <<ex, wire>>
  BY <1>1, <1>2, <1>3, <1>5, ReplyUntouched, OneExecution DEF ReplyTypeOK
<1>6. CASE Call(e)
  BY <1>4, <1>6 DEF Call
<1>7. CASE RunJob(e)
  <2>1. Head(jobs).op \in Ops /\ Head(jobs).by \in Execs
    BY <1>1, <1>7, JobTypes DEF RunJob
  <2> QED BY <2>1, <1>4, <1>5, <1>7 DEF RunJob
<1> QED BY <1>6, <1>7

LEMMA DeferStep ==
  ASSUME ReplyInv, NEW e \in Execs, Defer(e)
  PROVE  ReplyInv' /\ Quiet
<1>1. PICK op \in Ops : jobs' = Append(jobs, [op |-> op, by |-> e])
  BY DEF Defer
<1>2. jobs' \in Seq([op : Ops, by : Execs])
  <2>1. [op |-> op, by |-> e] \in [op : Ops, by : Execs]
    OBVIOUS
  <2> QED BY <1>1, <2>1, JobTypes, AppendProperties DEF ReplyInv
<1>3. UNCHANGED <<cur, ex, wire, gone>>
  BY DEF Defer
<1> QED BY <1>2, <1>3, ReplyUntouched, OneExecution DEF ReplyInv, ReplyTypeOK

LEMMA DisconnectStep ==
  ASSUME ReplyInv, NEW e \in Execs, Disconnect(e)
  PROVE  ReplyInv' /\ Quiet
<1>1. UNCHANGED <<cur, ex, wire, jobs>> /\ gone' = gone \cup {e}
  BY DEF Disconnect
<1>2. gone \subseteq gone' /\ gone' \in SUBSET Execs
  BY <1>1 DEF ReplyInv, ReplyTypeOK
<1> QED BY <1>1, <1>2, ReplyUntouched, OneExecution DEF ReplyInv, ReplyTypeOK

\* An execution moves on without an answer: to its first hook or to its handler.
LEMMA MoveOn ==
  ASSUME ReplyInv, NEW e \in Execs, NEW p \in {"prepare", "handler"},
         ex[e].phase \in {"new", "prepare"}, set(e, [ex[e] EXCEPT !.phase = p]),
         cur' \in Execs \cup {Nobody}, UNCHANGED <<wire, gone, jobs>>
  PROVE  ReplyInv' /\ Quiet
<1> DEFINE x == [ex[e] EXCEPT !.phase = p]
<1>1. ReplyTypeOK /\ Good(e) /\ ex[e] \in State
  BY DEF ReplyInv, ReplyTypeOK
<1>2. /\ x \in State /\ x.stream = ex[e].stream /\ x.phase = p /\ x.mode = ex[e].mode
      /\ x.done = ex[e].done /\ x.started = ex[e].started /\ x.result = ex[e].result
  BY <1>1 DEF State
<1>3. ex[e].mode = "" /\ wire[e] = <<>> /\ ~ex[e].done /\ ~ex[e].started
  BY <1>1 DEF Good, Agrees, Settled
<1>4. sent(e) = {}
  BY <1>1, <1>3, NothingSent
<1>5. sent(e)' = {} /\ lastSent(e)' = lastSent(e)
  BY <1>4, SameAnswer
<1> HIDE DEF x
<1>6. ex'[e] = x /\ ex' \in [Execs -> State] /\ \A f \in Execs \ {e} : ex'[f] = ex[f]
  BY <1>1, <1>2, SetOne DEF x
<1>7. Good(e)'
  BY <1>1, <1>2, <1>3, <1>4, <1>5, <1>6 DEF Good, Agrees, Settled, finished, wroteHeader, bodiless
<1> QED BY <1>1, <1>6, <1>7, OneExecution DEF ReplyTypeOK

LEMMA BeginStep ==
  ASSUME ReplyInv, NEW e \in Execs, Begin(e)
  PROVE  ReplyInv' /\ Quiet
BY MoveOn DEF Begin

LEMMA PreparedStep ==
  ASSUME ReplyInv, NEW e \in Execs, Prepared(e)
  PROVE  ReplyInv' /\ Quiet
BY MoveOn DEF Prepared, ReplyInv, ReplyTypeOK

\* An execution ends, with or without a last write by the host.
LEMMA OverTypes ==
  ASSUME ReplyInv, NEW e \in Execs, NEW r \in {"ok", "error"}, over(e, r)
  PROVE  /\ ex' \in [Execs -> State] /\ \A f \in Execs \ {e} : ex'[f] = ex[f]
         /\ ex'[e].stream = ex[e].stream /\ ex'[e].phase = "over" /\ ex'[e].mode = ex[e].mode
         /\ ex'[e].done = ex[e].done /\ ex'[e].started = ex[e].started /\ ex'[e].result = r
         /\ cur' \in Execs \cup {Nobody}
<1> DEFINE x == [ex[e] EXCEPT !.phase = "over", !.result = r]
<1>1. ReplyTypeOK /\ ex[e] \in State
  BY DEF ReplyInv, ReplyTypeOK
<1>2. /\ x \in State /\ x.stream = ex[e].stream /\ x.phase = "over" /\ x.mode = ex[e].mode
      /\ x.done = ex[e].done /\ x.started = ex[e].started /\ x.result = r
  BY <1>1 DEF State
<1>3. set(e, x) /\ cur' = Nobody
  BY DEF over
<1> HIDE DEF x
<1>4. ex'[e] = x /\ ex' \in [Execs -> State] /\ \A f \in Execs \ {e} : ex'[f] = ex[f]
  BY <1>1, <1>2, <1>3, SetOne
<1> QED BY <1>2, <1>3, <1>4

\* No last write: of a stream that has begun the terminal frame is there.
LEMMA EndsSilently ==
  ASSUME ReplyInv, NEW e \in Execs, running(e), NEW r \in {"ok", "error"}, over(e, r),
         UNCHANGED <<wire, gone, jobs>>,
         wroteHeader(e) => lastSent(e) \in {"end", "errframe"},
         r = "error" /\ e \notin gone /\ ~bodiless(e) => lastSent(e) \in {"errframe", "json502"}
  PROVE  ReplyInv' /\ Quiet
<1>1. ReplyTypeOK /\ Good(e)
  BY DEF ReplyInv
<1>2. sent(e)' = sent(e) /\ lastSent(e)' = lastSent(e)
  BY SameAnswer
<1>3. Agrees(e)'
  BY <1>1, <1>2, OverTypes DEF Good, Agrees, wroteHeader
<1>4. Settled(e)' /\ Told(e)'
  BY <1>1, <1>2, OverTypes DEF Good, Settled, Told, wroteHeader, bodiless
<1>5. Good(e)'
  BY <1>3, <1>4 DEF Good
<1> QED BY <1>1, <1>5, OverTypes, OneExecution DEF ReplyTypeOK

\* An error frame in an open stream, or a 502 where nothing was sent.
LEMMA EndsWithError ==
  ASSUME ReplyInv, NEW e \in Execs, running(e), NEW r \in {"ok", "error"}, over(e, r),
         UNCHANGED <<gone, jobs>>,
         NEW k \in {"errframe", "json502"}, write(e, k, Host),
         k = "errframe" <=> wroteHeader(e),
         ~bodiless(e), e \notin gone => lastSent(e) \notin Terminal
  PROVE  ReplyInv' /\ Quiet
<1>1. ReplyTypeOK /\ Good(e)
  BY DEF ReplyInv
<1>2. /\ sent(e)' = sent(e) \cup {k} /\ lastSent(e)' = k
      /\ wire' \in [Execs -> Seq([kind : Kinds, by : Execs \cup {Host}])]
      /\ \A f \in Execs \ {e} : wire'[f] = wire[f]
  <2>1. k \in Kinds /\ Host \in Execs \cup {Host}
    BY DEF Kinds
  <2> QED BY <1>1, <2>1, WriteAdds
<1>3. ~ex[e].stream => k = "json502"
  BY <1>1 DEF Good, Agrees, wroteHeader
<1>4. wroteHeader(e)' <=> wroteHeader(e)
  BY <1>2 DEF wroteHeader
<1>5. Agrees(e)'
  BY <1>1, <1>2, <1>3, <1>4, OverTypes DEF Good, Agrees
<1>6. "json502" \in sent(e) => k = "json502"
  <2>1. "json502" \in sent(e) /\ wroteHeader(e) => lastSent(e) = "json502" /\ ex[e].started
    BY <1>1 DEF Good, Settled, Agrees
  <2>2. "json502" \in sent(e) => ex[e].phase = "handler" \/ ~wroteHeader(e)
    BY <1>1, <2>1 DEF Good, Agrees, running
  <2>3. "json502" \in sent(e) /\ ex[e].phase = "handler" /\ ex[e].started => FALSE
    BY <1>1 DEF Good, Settled, Agrees
  <2> QED BY <2>1, <2>2, <2>3
<1>9. bodiless(e)' <=> bodiless(e)
  BY <1>2 DEF bodiless
<1>7. Settled(e)' /\ Told(e)'
  BY <1>1, <1>2, <1>4, <1>6, <1>9, OverTypes DEF Good, Settled, Told, bodiless
<1>8. Good(e)'
  BY <1>5, <1>7 DEF Good
<1> QED BY <1>1, <1>2, <1>8, OverTypes, OneExecution DEF ReplyTypeOK

\* serveHandler: a failure before the header is out.
LEMMA FailStep ==
  ASSUME ReplyInv, NEW e \in Execs, running(e), fail(e), UNCHANGED <<gone, jobs>>,
         ~ex[e].started,
         ex[e].phase = "handler" /\ ex[e].done => ex[e].mode # "json"
  PROVE  ReplyInv' /\ Quiet
<1>1. ReplyTypeOK /\ Good(e) /\ over(e, "error")
  BY DEF ReplyInv, fail
<1>2. ~wroteHeader(e)
  BY <1>1 DEF Good, Agrees
<1>3. CASE status(e)
  <2>1. wire' = wire
    BY <1>3 DEF fail
  <2>2. ex[e].phase = "handler"
    <3>1. wire[e] # <<>>
      BY <1>3 DEF status, sent
    <3> QED BY <3>1, <1>1 DEF Good, Agrees, running
  <2>3. e \notin gone /\ ~bodiless(e) => lastSent(e) = "json502"
    BY <1>1, <1>3, <2>2 DEF status, Good, Agrees, Settled, bodiless
  <2> QED BY <1>1, <1>2, <2>1, <2>3, EndsSilently
<1>4. CASE ~status(e)
  <2>1. write(e, "json502", Host)
    BY <1>2, <1>4 DEF fail
  <2>2. lastSent(e) \notin Terminal
    <3>1. lastSent(e) \in Terminal => lastSent(e) \in sent(e)
      BY <1>1, LastIsSent DEF Terminal, Kinds
    <3> QED BY <3>1, <1>1, <1>2, <1>4 DEF status, Good, Settled, Terminal
  <2>3. ~bodiless(e)
    BY <1>4 DEF status, bodiless
  <2> QED BY <1>1, <1>2, <2>1, <2>2, <2>3, EndsWithError
<1> QED BY <1>3, <1>4

LEMMA ThrowsStep ==
  ASSUME ReplyInv, NEW e \in Execs, Throws(e)
  PROVE  ReplyInv' /\ Quiet
<1>1. ReplyTypeOK /\ Good(e) /\ running(e) /\ UNCHANGED <<gone, jobs>>
  BY DEF ReplyInv, Throws
<1>2. CASE ex[e].phase = "handler" /\ ex[e].done /\ (ex[e].mode = "json" \/ ex[e].started)
  <2>1. over(e, "ok") /\ UNCHANGED wire
    BY <1>2 DEF Throws
  <2>2. wroteHeader(e) => lastSent(e) \in {"end", "errframe"}
    BY <1>1, <1>2 DEF Good, Agrees
  <2> QED BY <1>1, <2>1, <2>2, EndsSilently
<1>3. CASE /\ ~(ex[e].phase = "handler" /\ ex[e].done /\ (ex[e].mode = "json" \/ ex[e].started))
           /\ ex[e].phase = "handler" /\ ex[e].started
  <2>1. over(e, "error") /\ write(e, "errframe", Host) /\ wroteHeader(e)
    BY <1>1, <1>3 DEF Throws, errorFrame, Good, Agrees
  <2>3. ~bodiless(e)
    BY <1>1, <1>3 DEF Good, Agrees, bodiless
  <2>2. e \notin gone => lastSent(e) \notin Terminal
    BY <1>1, <1>3, <2>3, TerminalIsDone
  <2> QED BY <1>1, <2>1, <2>2, <2>3, EndsWithError
<1>4. CASE /\ ~(ex[e].phase = "handler" /\ ex[e].done /\ (ex[e].mode = "json" \/ ex[e].started))
           /\ ~(ex[e].phase = "handler" /\ ex[e].started)
  <2>1. fail(e)
    BY <1>4 DEF Throws
  <2>2. ~ex[e].started
    <3>1. ex[e].phase = "prepare" => ~ex[e].started
      BY <1>1 DEF Good, Agrees
    <3> QED BY <3>1, <1>1, <1>4 DEF running
  <2> QED BY <1>1, <1>4, <2>1, <2>2, FailStep
<1> QED BY <1>2, <1>3, <1>4

LEMMA ReturnsStep ==
  ASSUME ReplyInv, NEW e \in Execs, Returns(e)
  PROVE  ReplyInv' /\ Quiet
<1>1. ReplyTypeOK /\ Good(e) /\ running(e) /\ ex[e].phase = "handler" /\ UNCHANGED <<gone, jobs>>
  BY DEF ReplyInv, Returns
<1>2. CASE ex[e].mode = ""
  <2>1. fail(e) /\ ~ex[e].started
    BY <1>1, <1>2 DEF Returns, Good, Agrees
  <2> QED BY <1>1, <1>2, <2>1, FailStep
<1>3. CASE ex[e].mode = "sse" /\ ~ex[e].done
  <2>1. over(e, "ok") /\ errorFrame(e, Host)
    BY <1>3 DEF Returns
  <2>5. ~bodiless(e)
    BY <1>1, <1>3 DEF Good, Agrees, bodiless
  <2>2. e \notin gone => lastSent(e) \notin Terminal
    BY <1>1, <1>3, <2>5, TerminalIsDone
  <2>3. CASE wroteHeader(e)
    BY <1>1, <2>1, <2>2, <2>3, <2>5, EndsWithError DEF errorFrame
  <2>4. CASE ~wroteHeader(e)
    BY <1>1, <2>1, <2>2, <2>4, <2>5, EndsWithError DEF errorFrame
  <2> QED BY <2>3, <2>4
<1>4. CASE ex[e].mode # "" /\ ~(ex[e].mode = "sse" /\ ~ex[e].done)
  <2>1. over(e, "ok") /\ UNCHANGED wire
    BY <1>4 DEF Returns
  <2>2. wroteHeader(e) => lastSent(e) \in {"end", "errframe"}
    BY <1>1, <1>4 DEF Good, Agrees
  <2> QED BY <1>1, <2>1, <2>2, EndsSilently
<1> QED BY <1>2, <1>3, <1>4

-----------------------------------------------------------------------------
LEMMA ReplyInvInit == ReplyInit => ReplyInv
<1> SUFFICES ASSUME ReplyInit PROVE ReplyInv
  OBVIOUS
<1>1. ReplyTypeOK
  <2>1. \A R : <<>> \in Seq(R)
    OBVIOUS
  <2>2. wire \in [Execs -> Seq([kind : Kinds, by : Execs \cup {Host}])]
    BY <2>1 DEF ReplyInit
  <2>3. ex \in [Execs -> State]
    BY DEF ReplyInit
  <2> QED BY <2>1, <2>2, <2>3 DEF ReplyInit, ReplyTypeOK
<1>2. \A e \in Execs : Good(e)
  <2> TAKE e \in Execs
  <2>1. ex[e].phase = "new" /\ ex[e].mode = "" /\ ~ex[e].done /\ ~ex[e].started /\ wire[e] = <<>>
    BY DEF ReplyInit
  <2>2. sent(e) = {}
    BY <1>1, <2>1, NothingSent
  <2> QED BY <2>1, <2>2 DEF Good, Agrees, Settled, finished, wroteHeader, bodiless
<1> QED BY <1>1, <1>2 DEF ReplyInv

LEMMA ReplyStep == ReplyInv /\ [ReplyNext]_(replyVars) => ReplyInv' /\ Quiet
<1> SUFFICES ASSUME ReplyInv, [ReplyNext]_(replyVars) PROVE ReplyInv' /\ Quiet
  OBVIOUS
<1>1. CASE ReplyNext
  BY <1>1, BeginStep, CallStep, DeferStep, PreparedStep, ThrowsStep, ReturnsStep, DisconnectStep
  DEF ReplyNext
<1>2. CASE UNCHANGED replyVars
  BY <1>2, ReplyUntouched DEF ReplyInv, ReplyTypeOK, Quiet, replyVars
<1> QED BY <1>1, <1>2

LEMMA ReplyIsInductive == ReplySpec => []ReplyInv
BY ReplyInvInit, ReplyStep, PTL DEF ReplySpec

\* What the host remembers of an answer is what the client was sent.
THEOREM ReplyStateIsRight == ReplySpec => []ReplyStateMatchesWire
<1>1. ReplyInv => ReplyStateMatchesWire
  BY DEF ReplyInv, Good, ReplyStateMatchesWire
<1> QED BY <1>1, ReplyIsInductive, PTL

\* However a handler fails, its client can tell: the last thing it was sent is an
\* error, unless it left or was sent the head of an answer whose status has no body
\* (terminalError, serveHandler, handlerSink.JSON).
THEOREM FailureTold == ReplySpec => []FailureIsTold
<1>1. ReplyInv => FailureIsTold
  BY DEF ReplyInv, Good, FailureIsTold
<1> QED BY <1>1, ReplyIsInductive, PTL

\* Nothing is written behind a complete answer, by whomever.
THEOREM TerminalIsLast == ReplySpec => NothingAfterTerminal
<1>1. ReplyInv /\ [ReplyNext]_(replyVars) => [Quiet]_(replyVars)
  BY ReplyStep
<1>2. NothingAfterTerminal <=> [][Quiet]_(replyVars)
  BY PTL DEF NothingAfterTerminal, Quiet
<1> QED BY <1>1, <1>2, ReplyIsInductive, PTL DEF ReplySpec
=============================================================================
