-------------------------- MODULE SlotLocks_proofs --------------------------
(***************************************************************************)
(* Proofs about SlotLocks, for any set of calls and slots: IndInv is an     *)
(* inductive invariant, and mutual exclusion, the absence of lost grants    *)
(* and the absence of forgotten waiters follow from it.  The last section   *)
(* proves that SlotLocks implements SlotLine.  The line of a slot is its    *)
(* owner followed by its queue; a fast acquire and a call that queues join  *)
(* it, an abandoned wait leaves it from behind the head, a release takes    *)
(* the head away, and the other steps are stutters.                         *)
(***************************************************************************)
EXTENDS SlotLocks, SequenceTheorems, TLAPS

-----------------------------------------------------------------------------
(* Queues *)

\* What RemoveAt does to a queue, element by element.
LEMMA RemoveAtElements ==
  ASSUME NEW S, NEW q \in Seq(S), NEW i \in 1 .. Len(q)
  PROVE  /\ RemoveAt(q, i) \in Seq(S)
         /\ Len(RemoveAt(q, i)) = Len(q) - 1
         /\ \A j \in 1 .. Len(q) - 1 :
              RemoveAt(q, i)[j] = IF j < i THEN q[j] ELSE q[j + 1]
<1> DEFINE a == SubSeq(q, 1, i - 1)
           b == SubSeq(q, i + 1, Len(q))
<1>1. a \in Seq(S) /\ Len(a) = i - 1 /\ \A j \in 1 .. i - 1 : a[j] = q[j]
  OBVIOUS
<1>2. /\ b \in Seq(S) /\ Len(b) = Len(q) - i
      /\ \A j \in 1 .. Len(q) - i : b[j] = q[i + j]
  OBVIOUS
<1>3. RemoveAt(q, i) = a \o b
  BY DEF RemoveAt
<1> HIDE DEF a, b
<1>4. /\ a \o b \in Seq(S) /\ Len(a \o b) = Len(a) + Len(b)
      /\ \A j \in 1 .. Len(a) + Len(b) :
           (a \o b)[j] = IF j <= Len(a) THEN a[j] ELSE b[j - Len(a)]
  BY <1>1, <1>2, ConcatProperties
<1>5. Len(a) + Len(b) = Len(q) - 1 /\ Len(q) \in Nat
  BY <1>1, <1>2
<1>6. ASSUME NEW j \in 1 .. Len(q) - 1
      PROVE  (a \o b)[j] = IF j < i THEN q[j] ELSE q[j + 1]
  <2>1. CASE j < i
    BY <2>1, <1>1, <1>4, <1>5
  <2>2. CASE ~(j < i)
    <3>1. j - (i - 1) \in 1 .. Len(q) - i /\ i + (j - (i - 1)) = j + 1
      BY <2>2, <1>5
    <3>2. (a \o b)[j] = b[j - (i - 1)]
      BY <2>2, <1>1, <1>4, <1>5
    <3> QED BY <2>2, <3>1, <3>2, <1>2
  <2> QED BY <2>1, <2>2
<1> QED BY <1>3, <1>4, <1>5, <1>6

-----------------------------------------------------------------------------

\* At first no call is made and every slot is free.
LEMMA Initially == Init => IndInv
  BY DEF Init, IndInv, TypeOK, Places, QueuesOK, TicketsOK, OwnersOK,
         NoForgottenWaiter, Live

\* Every step of every call keeps the inductive invariant.
LEMMA Preserved == IndInv /\ [Next]_vars => IndInv'
<1> SUFFICES ASSUME IndInv, [Next]_vars PROVE IndInv'
  OBVIOUS
<1> USE NoCallAssumption
<1>t. TypeOK /\ QueuesOK /\ TicketsOK /\ OwnersOK /\ NoForgottenWaiter
  BY DEF IndInv
<1>q. ASSUME NEW s \in Slots
      PROVE  /\ slots[s] \in Seq(Calls) /\ Len(slots[s]) \in Nat
             /\ \A i \in 1 .. Len(slots[s]) :
                  /\ slots[s][i] \in Calls
                  /\ pc[slots[s][i]] \in {"select", "leaving"}
                  /\ slots[s][i] \notin ticketed
                  /\ slotOf[slots[s][i]] = s
             /\ \A i, j \in 1 .. Len(slots[s]) : slots[s][i] = slots[s][j] => i = j
  BY <1>t DEF TypeOK, QueuesOK, Enqueued
<1>1. ASSUME NEW c \in Calls, AcquireFree(c) PROVE IndInv'
  <2> USE <1>1, <1>t DEF AcquireFree
  <2>1. TypeOK' /\ TicketsOK'
    BY DEF TypeOK, Places, TicketsOK
  <2>2. c \notin ticketed /\ \A d \in Calls : Enqueued(d) => d # c
    BY DEF TicketsOK, Enqueued
  <2>3. QueuesOK'
    BY <2>2, <1>q DEF QueuesOK, Enqueued, TypeOK
  <2>4. OwnersOK' /\ NoForgottenWaiter'
    BY <2>2 DEF TypeOK, Live, TicketsOK, OwnersOK, NoForgottenWaiter
  <2> QED BY <2>1, <2>3, <2>4 DEF IndInv
<1>2. ASSUME NEW c \in Calls, Enqueue(c) PROVE IndInv'
  <2> DEFINE s == slotOf[c]
             q == slots[s]
             p == slots'[s]
  <2>1. /\ s \in Slots /\ owners[s] # NoCall
        /\ pc[c] = "new" /\ pc' = [pc EXCEPT ![c] = "select"]
        /\ slots' = [slots EXCEPT ![s] = Append(q, c)]
        /\ UNCHANGED <<slotOf, owners, ticketed, consumed>>
    BY <1>2, <1>t DEF Enqueue, TypeOK
  <2>2. /\ p \in Seq(Calls)
        /\ Len(p) = Len(q) + 1 /\ Len(q) \in Nat
        /\ \A i \in 1 .. Len(q) : p[i] = q[i]
        /\ p[Len(q) + 1] = c
    <3>1. p = Append(q, c) /\ q \in Seq(Calls)
      BY <2>1, <1>t, <1>q DEF TypeOK
    <3> QED BY <3>1, AppendProperties
  <2>3. \A r \in Slots \ {s} : slots'[r] = slots[r]
    BY <2>1, <1>t DEF TypeOK
  <2>4. c \notin ticketed /\ \A d \in Calls \ {c} : pc'[d] = pc[d]
    BY <2>1, <1>t DEF TicketsOK, TypeOK
  <2>5. TypeOK'
    BY <2>1, <2>2, <2>3, <1>t DEF TypeOK, Places
  <2>6. TicketsOK' /\ OwnersOK'
    BY <2>1, <2>4, <1>t DEF TypeOK, TicketsOK, OwnersOK, Live
  <2>7. QueuesOK'
    <3>1. \A r \in Slots : \A i \in 1 .. Len(slots[r]) : slots[r][i] # c
      BY <2>1, <1>q
    <3>2. ASSUME NEW r \in Slots \ {s}
          PROVE  /\ \A i \in 1 .. Len(slots'[r]) :
                      (Enqueued(slots[r][i]) /\ slotOf[slots[r][i]] = r)'
                 /\ \A i, j \in 1 .. Len(slots'[r]) :
                      slots'[r][i] = slots'[r][j] => i = j
      BY <3>1, <2>1, <2>3, <2>4, <1>q DEF Enqueued
    <3>3. /\ \A i \in 1 .. Len(p) :
               (Enqueued(slots[s][i]) /\ slotOf[slots[s][i]] = s)'
          /\ \A i, j \in 1 .. Len(p) : p[i] = p[j] => i = j
      <4>1. \A i \in 1 .. Len(p) : i = Len(q) + 1 \/ i \in 1 .. Len(q)
        BY <2>2
      <4>2. pc'[c] = "select" /\ slotOf' = slotOf /\ ticketed' = ticketed
        BY <2>1, <1>t DEF TypeOK
      <4>3. \A i \in 1 .. Len(q) :
              (Enqueued(q[i]) /\ slotOf[q[i]] = s)' /\ q[i] # c
        BY <4>2, <3>1, <2>1, <2>4, <1>q DEF Enqueued
      <4>4. (Enqueued(c) /\ slotOf[c] = s)'
        BY <4>2, <2>4 DEF Enqueued
      <4>5. \A i, j \in 1 .. Len(q) : q[i] = q[j] => i = j
        BY <2>1, <1>q
      <4>6. ASSUME NEW i \in 1 .. Len(p), NEW j \in 1 .. Len(p), p[i] = p[j]
            PROVE  i = j
        <5>1. CASE i \in 1 .. Len(q) /\ j \in 1 .. Len(q)
          BY <5>1, <4>1, <4>5, <4>6, <2>2
        <5>2. CASE i = Len(q) + 1 \/ j = Len(q) + 1
          BY <5>2, <4>1, <4>3, <4>6, <2>2
        <5>3. i \in 1 .. Len(q) + 1 /\ j \in 1 .. Len(q) + 1 /\ Len(q) \in Nat
          BY <4>6, <2>2, <1>q
        <5> QED BY <5>1, <5>2, <5>3
      <4>7. ASSUME NEW i \in 1 .. Len(p)
            PROVE  (Enqueued(slots[s][i]) /\ slotOf[slots[s][i]] = s)'
        BY <4>1, <4>3, <4>4, <4>2, <2>2 DEF Enqueued
      <4> QED BY <4>6, <4>7, <4>2
    <3>4. \A r \in Slots : r = s \/ r \in Slots \ {s}
      OBVIOUS
    <3> QED BY <3>2, <3>3, <3>4, <2>1 DEF QueuesOK
  <2>8. NoForgottenWaiter'
    <3> SUFFICES ASSUME NEW d \in Calls,
                        pc'[d] \in {"select", "leaving", "granting"},
                        d \notin ticketed
                 PROVE  /\ owners[slotOf[d]] # NoCall
                        /\ \E i \in 1 .. Len(slots'[slotOf[d]]) :
                             slots'[slotOf[d]][i] = d
      BY <2>1 DEF NoForgottenWaiter
    <3>1. CASE d = c
      BY <3>1, <2>1, <2>2
    <3>2. CASE d # c
      <4>1. /\ owners[slotOf[d]] # NoCall /\ slotOf[d] \in Slots
            /\ \E i \in 1 .. Len(slots[slotOf[d]]) : slots[slotOf[d]][i] = d
        BY <3>2, <2>4, <1>t DEF NoForgottenWaiter, TypeOK
      <4>2. CASE slotOf[d] # s
        BY <4>1, <4>2, <2>3
      <4>3. CASE slotOf[d] = s
        <5>1. PICK i \in 1 .. Len(q) : q[i] = d
          BY <4>1, <4>3
        <5>2. i \in 1 .. Len(p) /\ p[i] = d
          BY <5>1, <2>2, <1>q
        <5> QED BY <4>1, <4>3, <5>2
      <4> QED BY <4>2, <4>3
    <3> QED BY <3>1, <3>2
  <2> QED BY <2>5, <2>6, <2>7, <2>8 DEF IndInv
<1>3. ASSUME NEW c \in Calls, TakeGrant(c) PROVE IndInv'
  BY <1>3, <1>t DEF IndInv, TakeGrant, TypeOK, Places, QueuesOK, TicketsOK,
     OwnersOK, NoForgottenWaiter, Enqueued, Live
<1>4. ASSUME NEW c \in Calls, StopWaiting(c) PROVE IndInv'
  BY <1>4, <1>t DEF IndInv, StopWaiting, TypeOK, Places, QueuesOK, TicketsOK,
     OwnersOK, NoForgottenWaiter, Enqueued, Live
<1>5. ASSUME NEW c \in Calls, Abandon(c) PROVE IndInv'
  <2> DEFINE s == slotOf[c]
             q == slots[s]
             p == slots'[s]
  <2>0. /\ s \in Slots /\ pc[c] = "leaving"
        /\ UNCHANGED <<slotOf, owners, ticketed, consumed>>
    BY <1>5, <1>t DEF Abandon, TypeOK
  <2>1. CASE \A i \in 1 .. Len(q) : q[i] # c
    \* Not in the queue, so the call has its ticket already.
    <3>1. pc' = [pc EXCEPT ![c] = "granting"] /\ UNCHANGED slots
      BY <2>1, <1>5 DEF Abandon
    <3>2. c \in ticketed
      BY <2>0, <2>1, <1>t DEF NoForgottenWaiter
    <3>3. TypeOK' /\ TicketsOK' /\ OwnersOK'
      BY <3>1, <3>2, <2>0, <1>t DEF TypeOK, Places, TicketsOK, OwnersOK, Live
    <3>4. QueuesOK' /\ NoForgottenWaiter'
      BY <3>1, <3>2, <2>0, <1>t DEF QueuesOK, NoForgottenWaiter, Enqueued, TypeOK
    <3> QED BY <3>3, <3>4 DEF IndInv
  <2>2. CASE \E i \in 1 .. Len(q) : q[i] = c
    <3>1. PICK i \in 1 .. Len(q) :
            /\ q[i] = c
            /\ slots' = [slots EXCEPT ![s] = RemoveAt(q, i)]
            /\ pc' = [pc EXCEPT ![c] = "refused"]
      BY <2>2, <1>5 DEF Abandon
    <3>2. /\ p \in Seq(Calls) /\ Len(q) \in Nat
          /\ Len(p) = Len(q) - 1
          /\ \A j \in 1 .. Len(q) - 1 : p[j] = IF j < i THEN q[j] ELSE q[j + 1]
      <4>1. q \in Seq(Calls) /\ Len(q) \in Nat /\ p = RemoveAt(q, i)
        BY <3>1, <2>0, <1>q, <1>t DEF TypeOK
      <4> QED BY <4>1, RemoveAtElements, ZenonT(30)
    <3>3. \A r \in Slots \ {s} : slots'[r] = slots[r]
      BY <3>1, <1>t DEF TypeOK
    <3>4. c \notin ticketed /\ \A d \in Calls \ {c} : pc'[d] = pc[d]
      BY <3>1, <2>0, <1>q, <1>t DEF TypeOK
    <3>5. TypeOK'
      BY <3>1, <3>2, <3>3, <2>0, <1>t DEF TypeOK, Places
    <3>6. TicketsOK' /\ OwnersOK'
      BY <3>1, <3>4, <2>0, <1>t DEF TypeOK, TicketsOK, OwnersOK, Live
    <3> DEFINE old(j) == IF j < i THEN j ELSE j + 1
    <3>7. \A j \in 1 .. Len(p) :
            old(j) \in 1 .. Len(q) /\ old(j) # i /\ p[j] = q[old(j)]
      <4> SUFFICES ASSUME NEW j \in 1 .. Len(p)
                   PROVE  old(j) \in 1 .. Len(q) /\ old(j) # i /\ p[j] = q[old(j)]
        OBVIOUS
      <4> HIDE DEF p, q
      <4>1. j \in 1 .. Len(q) - 1 /\ Len(q) \in Nat /\ i \in 1 .. Len(q)
        BY <3>2
      <4>2. p[j] = IF j < i THEN q[j] ELSE q[j + 1]
        BY <4>1, <3>2
      <4>3. CASE j < i
        BY <4>1, <4>2, <4>3
      <4>4. CASE ~(j < i)
        BY <4>1, <4>2, <4>4
      <4> QED BY <4>3, <4>4
    <3>8. \A k \in 1 .. Len(q) : k # i => \E j \in 1 .. Len(p) : k = old(j)
      <4> SUFFICES ASSUME NEW k \in 1 .. Len(q), k # i
                   PROVE  \E j \in 1 .. Len(p) : k = old(j)
        OBVIOUS
      <4>1. CASE k < i
        <5>1. k \in 1 .. Len(p) /\ k = old(k)
          BY <4>1, <3>2
        <5> QED BY <5>1
      <4>2. CASE k > i
        <5>1. k - 1 \in 1 .. Len(p) /\ k = old(k - 1)
          BY <4>2, <3>2
        <5> QED BY <5>1
      <4> QED BY <4>1, <4>2, <3>2
    <3>9. \A j, m \in 1 .. Len(p) : old(j) = old(m) => j = m
      BY <3>2
    <3> HIDE DEF old
    <3>10. \A k \in 1 .. Len(q) : q[k] = c => k = i
      BY <3>1, <2>0, <1>q
    <3>11. NoForgottenWaiter'
      <4> SUFFICES ASSUME NEW d \in Calls,
                          pc'[d] \in {"select", "leaving", "granting"},
                          d \notin ticketed
                   PROVE  /\ owners[slotOf[d]] # NoCall
                          /\ \E m \in 1 .. Len(slots'[slotOf[d]]) :
                               slots'[slotOf[d]][m] = d
        BY <2>0 DEF NoForgottenWaiter
      <4>1. d # c /\ pc[d] = pc'[d]
        BY <3>1, <1>t DEF TypeOK
      <4>2. /\ owners[slotOf[d]] # NoCall /\ slotOf[d] \in Slots
            /\ \E k \in 1 .. Len(slots[slotOf[d]]) : slots[slotOf[d]][k] = d
        BY <4>1, <1>t DEF NoForgottenWaiter, TypeOK
      <4>3. CASE slotOf[d] # s
        BY <4>2, <4>3, <3>3
      <4>4. CASE slotOf[d] = s
        <5>1. PICK k \in 1 .. Len(q) : q[k] = d
          BY <4>2, <4>4
        <5>2. PICK j \in 1 .. Len(p) : k = old(j)
          BY <5>1, <4>1, <3>1, <3>8
        <5> QED BY <5>1, <5>2, <4>2, <4>4, <3>7
      <4> QED BY <4>3, <4>4
    <3>12. QueuesOK'
      <4>1. ASSUME NEW r \in Slots \ {s}
            PROVE  /\ \A j \in 1 .. Len(slots'[r]) :
                        (Enqueued(slots[r][j]) /\ slotOf[slots[r][j]] = r)'
                   /\ \A j, m \in 1 .. Len(slots'[r]) :
                        slots'[r][j] = slots'[r][m] => j = m
        BY <3>3, <3>4, <2>0, <1>q DEF Enqueued
      <4>2. ASSUME NEW j \in 1 .. Len(p)
            PROVE  (Enqueued(slots[s][j]) /\ slotOf[slots[s][j]] = s)'
        <5>1. p[j] = q[old(j)] /\ old(j) \in 1 .. Len(q) /\ q[old(j)] # c
          BY <3>7, <3>10
        <5> QED BY <5>1, <3>4, <2>0, <1>q DEF Enqueued
      <4>3. ASSUME NEW j \in 1 .. Len(p), NEW m \in 1 .. Len(p), p[j] = p[m]
            PROVE  j = m
        <5>1. /\ old(j) \in 1 .. Len(q) /\ old(m) \in 1 .. Len(q)
              /\ q[old(j)] = q[old(m)]
          BY <4>3, <3>7
        <5>2. \A k, l \in 1 .. Len(q) : q[k] = q[l] => k = l
          BY <2>0, <1>q
        <5>3. old(j) = old(m)
          BY <5>1, <5>2
        <5> QED BY <5>3, <3>9
      <4> QED BY <4>1, <4>2, <4>3, <2>0 DEF QueuesOK
    <3> QED BY <3>5, <3>6, <3>11, <3>12 DEF IndInv
  <2> QED BY <2>1, <2>2
<1>6. ASSUME NEW c \in Calls, Release(c) PROVE IndInv'
  <2> DEFINE s == slotOf[c]
             q == slots[s]
             p == slots'[s]
  <2>0. /\ s \in Slots /\ q \in Seq(Calls)
        /\ pc[c] = "held" /\ owners[s] = c /\ c \notin consumed
        /\ c \in ticketed /\ consumed' = consumed \cup {c}
        /\ UNCHANGED <<pc, slotOf>>
    BY <1>6, <1>t DEF Release, TypeOK, TicketsOK
  <2>1. CASE q = <<>>
    <3>1. /\ owners' = [owners EXCEPT ![s] = NoCall]
          /\ UNCHANGED <<slots, ticketed>>
      BY <2>1, <1>6 DEF Release
    <3>2. TypeOK' /\ QueuesOK' /\ TicketsOK'
      <4>1. TypeOK'
        BY <3>1, <2>0, <1>t DEF TypeOK
      <4>2. QueuesOK'
        BY <3>1, <2>0, <1>t DEF QueuesOK, Enqueued
      <4>3. TicketsOK'
        BY <3>1, <2>0, <1>t DEF TicketsOK
      <4> QED BY <4>1, <4>2, <4>3
    <3>3. OwnersOK'
      BY <2>0, <3>1, <1>t DEF TypeOK, OwnersOK, TicketsOK, Live
    <3>4. \A d \in Calls : slotOf[d] = s => ~ \E i \in 1 .. Len(q) : q[i] = d
      BY <2>1
    <3>5. NoForgottenWaiter'
      BY <2>0, <3>1, <3>4, <1>t DEF NoForgottenWaiter, TypeOK
    <3> QED BY <3>2, <3>3, <3>5 DEF IndInv
  <2>2. CASE q # <<>>
    <3> DEFINE h == Head(q)
    <3>1. /\ owners' = [owners EXCEPT ![s] = h]
          /\ slots' = [slots EXCEPT ![s] = Tail(q)]
          /\ ticketed' = ticketed \cup {h}
      BY <2>2, <1>6 DEF Release
    <3>2. /\ 1 \in 1 .. Len(q) /\ h = q[1] /\ h \in Calls /\ Len(q) \in Nat
          /\ p \in Seq(Calls) /\ Len(p) = Len(q) - 1
          /\ \A j \in 1 .. Len(p) : p[j] = q[j + 1] /\ j + 1 \in 1 .. Len(q)
      <4>1. p = Tail(q)
        BY <3>1, <2>0, <1>t DEF TypeOK
      <4> QED BY <4>1, <2>0, <2>2, HeadTailProperties
    <3> HIDE DEF h
    <3>3. /\ pc[h] \in {"select", "leaving"} /\ h \notin ticketed
          /\ slotOf[h] = s /\ h # c
      BY <2>0, <3>2, <1>q
    <3>4. \A r \in Slots \ {s} : slots'[r] = slots[r] /\ owners'[r] = owners[r]
      BY <3>1, <1>t DEF TypeOK
    <3>5. TypeOK'
      BY <2>0, <3>1, <3>2, <3>4, <1>t DEF TypeOK
    <3>6. TicketsOK'
      BY <2>0, <3>1, <3>3, <1>t DEF TicketsOK
    <3>7. OwnersOK'
      <4>1. h \notin consumed /\ owners'[s] = h
        BY <2>0, <3>1, <3>2, <3>3, <1>t DEF TicketsOK, TypeOK
      <4>2. \A d \in Calls : Live(d)' => d = h \/ (Live(d) /\ slotOf[d] # s)
        BY <2>0, <3>1, <1>t DEF Live, OwnersOK
      <4> QED BY <4>1, <4>2, <2>0, <3>1, <3>2, <3>3, <3>4, <1>t
              DEF OwnersOK, Live, TypeOK
    <3>8. QueuesOK'
      <4>1. ASSUME NEW r \in Slots \ {s}
            PROVE  /\ \A j \in 1 .. Len(slots'[r]) :
                        (Enqueued(slots[r][j]) /\ slotOf[slots[r][j]] = r)'
                   /\ \A j, m \in 1 .. Len(slots'[r]) :
                        slots'[r][j] = slots'[r][m] => j = m
        BY <3>1, <3>3, <3>4, <2>0, <1>q DEF Enqueued
      <4>2. ASSUME NEW j \in 1 .. Len(p)
            PROVE  (Enqueued(slots[s][j]) /\ slotOf[slots[s][j]] = s)'
        <5>1. p[j] = q[j + 1] /\ j + 1 \in 1 .. Len(q) /\ j + 1 # 1
          BY <3>2
        <5>2. q[j + 1] # h
          BY <5>1, <3>2, <2>0, <1>q
        <5> QED BY <5>1, <5>2, <3>1, <2>0, <1>q DEF Enqueued
      <4>3. ASSUME NEW j \in 1 .. Len(p), NEW m \in 1 .. Len(p), p[j] = p[m]
            PROVE  j = m
        <5>1. j + 1 \in 1 .. Len(q) /\ m + 1 \in 1 .. Len(q) /\ q[j + 1] = q[m + 1]
          BY <4>3, <3>2
        <5>2. \A k, l \in 1 .. Len(q) : q[k] = q[l] => k = l
          BY <2>0, <1>q
        <5>3. j + 1 = m + 1
          BY <5>1, <5>2
        <5> QED BY <5>3
      <4> QED BY <4>1, <4>2, <4>3, <2>0 DEF QueuesOK
    <3>9. NoForgottenWaiter'
      <4> SUFFICES ASSUME NEW d \in Calls,
                          pc[d] \in {"select", "leaving", "granting"},
                          d \notin ticketed, d # h
                   PROVE  /\ owners'[slotOf[d]] # NoCall
                          /\ \E i \in 1 .. Len(slots'[slotOf[d]]) :
                               slots'[slotOf[d]][i] = d
        BY <2>0, <3>1 DEF NoForgottenWaiter
      <4>1. /\ slotOf[d] \in Slots /\ owners[slotOf[d]] # NoCall
            /\ \E k \in 1 .. Len(slots[slotOf[d]]) : slots[slotOf[d]][k] = d
        BY <1>t DEF NoForgottenWaiter, TypeOK
      <4>2. CASE slotOf[d] # s
        BY <4>1, <4>2, <3>4
      <4>3. CASE slotOf[d] = s
        <5>1. PICK k \in 1 .. Len(q) : q[k] = d
          BY <4>1, <4>3
        <5>2. k - 1 \in 1 .. Len(p) /\ (k - 1) + 1 = k
          BY <5>1, <3>2
        <5>3. owners'[s] # NoCall
          BY <2>0, <3>1, <3>2, <1>t DEF TypeOK
        <5> QED BY <4>3, <5>1, <5>2, <5>3, <3>2
      <4> QED BY <4>2, <4>3
    <3> QED BY <3>5, <3>6, <3>7, <3>8, <3>9 DEF IndInv
  <2> QED BY <2>1, <2>2
<1>7. CASE UNCHANGED vars
  BY <1>7, <1>t DEF IndInv, vars, TypeOK, QueuesOK, TicketsOK, OwnersOK,
     NoForgottenWaiter, Enqueued, Live
<1> QED
  BY <1>1, <1>2, <1>3, <1>4, <1>5, <1>6, <1>7 DEF Next, Acquire, Waiting

\* The data structures of the lock manager agree in every reachable state, for
\* any number of concurrent calls of Acquire on any slots.
THEOREM Invariance == Spec => []IndInv
<1>1. Init => IndInv
  BY Initially
<1>2. IndInv /\ [Next]_vars => IndInv'
  BY Preserved
<1> QED BY <1>1, <1>2, PTL DEF Spec

\* Mutual exclusion of the slots (SlotLocks.Acquire and release).
THEOREM MutualExclusion == Spec => []OneHolder
<1>1. IndInv => OneHolder
  BY DEF IndInv, OwnersOK, OneHolder
<1> QED BY <1>1, Invariance, PTL

\* No slot is granted to a goroutine that has given up (abandon against release).
THEOREM GrantsAreTaken == Spec => []NoLostGrant
<1>1. IndInv => NoLostGrant
  BY NoCallAssumption DEF IndInv, TypeOK, OwnersOK, TicketsOK, NoLostGrant, Held, Live
<1> QED BY <1>1, Invariance, PTL

\* A goroutine that waits without a ticket is queued behind a live owner.
THEOREM WaitersAreQueued == Spec => []NoForgottenWaiter
<1>1. IndInv => NoForgottenWaiter
  BY DEF IndInv
<1> QED BY <1>1, Invariance, PTL

-----------------------------------------------------------------------------
(* SlotLocks implements SlotLine *)

\* What putting an owner in front of a queue does, element by element.
LEMMA FrontElements ==
  ASSUME NEW S, NEW o \in S, NEW q \in Seq(S)
  PROVE  /\ <<o>> \o q \in Seq(S)
         /\ Len(<<o>> \o q) = Len(q) + 1
         /\ \A j \in 1 .. Len(q) + 1 :
              (<<o>> \o q)[j] = IF j = 1 THEN o ELSE q[j - 1]
<1>1. <<o>> \in Seq(S) /\ Len(<<o>>) = 1 /\ <<o>>[1] = o
  OBVIOUS
<1> QED BY <1>1, ConcatProperties

\* A claimant that queues behind an owner joins the line at its end.
LEMMA FrontAppend ==
  ASSUME NEW S, NEW o \in S, NEW q \in Seq(S), NEW c \in S
  PROVE  <<o>> \o Append(q, c) = Append(<<o>> \o q, c)
<1> DEFINE a == <<o>> \o Append(q, c)
           b == Append(<<o>> \o q, c)
<1>1. Append(q, c) \in Seq(S) /\ Len(Append(q, c)) = Len(q) + 1 /\ Len(q) \in Nat
  OBVIOUS
<1>2. a \in Seq(S) /\ Len(a) = Len(q) + 2
  BY <1>1, FrontElements
<1>3. b \in Seq(S) /\ Len(b) = Len(q) + 2
  BY <1>1, FrontElements
<1>4. ASSUME NEW j \in 1 .. Len(q) + 2 PROVE a[j] = b[j]
  <2>1. a[j] = IF j = 1 THEN o ELSE Append(q, c)[j - 1]
    BY <1>1, FrontElements
  <2>2. b[j] = IF j = Len(q) + 2 THEN c ELSE (<<o>> \o q)[j]
    BY <1>1, FrontElements
  <2>3. j # Len(q) + 2 => (<<o>> \o q)[j] = IF j = 1 THEN o ELSE q[j - 1]
    BY <1>1, FrontElements
  <2>4. j # 1 => Append(q, c)[j - 1] = IF j = Len(q) + 2 THEN c ELSE q[j - 1]
    BY <1>1
  <2> QED BY <2>1, <2>2, <2>3, <2>4, <1>1
<1> HIDE DEF a, b
<1>5. a = b
  BY <1>2, <1>3, <1>4, SeqEqual
<1> QED BY <1>5 DEF a, b

\* Leaving the queue is leaving the line one place further back.
LEMMA FrontRemove ==
  ASSUME NEW S, NEW o \in S, NEW q \in Seq(S), NEW i \in 1 .. Len(q)
  PROVE  <<o>> \o RemoveAt(q, i) = RemoveAt(<<o>> \o q, i + 1)
<1> DEFINE r == RemoveAt(q, i)
           l == <<o>> \o q
           a == <<o>> \o r
           b == RemoveAt(l, i + 1)
<1>1. /\ r \in Seq(S) /\ Len(r) = Len(q) - 1 /\ Len(q) \in Nat
      /\ \A j \in 1 .. Len(q) - 1 : r[j] = IF j < i THEN q[j] ELSE q[j + 1]
  BY RemoveAtElements
<1>2. /\ l \in Seq(S) /\ Len(l) = Len(q) + 1
      /\ \A j \in 1 .. Len(q) + 1 : l[j] = IF j = 1 THEN o ELSE q[j - 1]
  BY FrontElements
<1> HIDE DEF r, l
<1>3. /\ a \in Seq(S) /\ Len(a) = Len(q)
      /\ \A j \in 1 .. Len(q) : a[j] = IF j = 1 THEN o ELSE r[j - 1]
  BY <1>1, FrontElements
<1>4. i + 1 \in 1 .. Len(l)
  BY <1>1, <1>2
<1>5. /\ b \in Seq(S) /\ Len(b) = Len(q)
      /\ \A j \in 1 .. Len(q) : b[j] = IF j < i + 1 THEN l[j] ELSE l[j + 1]
  <2>1. Len(l) - 1 = Len(q)
    BY <1>1, <1>2
  <2> QED BY <1>2, <1>4, <2>1, RemoveAtElements
<1>6. ASSUME NEW j \in 1 .. Len(q) PROVE a[j] = b[j]
  <2> USE <1>1
  <2>1. a[j] = IF j = 1 THEN o ELSE r[j - 1]
    BY <1>3
  <2>2. b[j] = IF j < i + 1 THEN l[j] ELSE l[j + 1]
    BY <1>5
  <2>3. l[j] = (IF j = 1 THEN o ELSE q[j - 1]) /\ l[j + 1] = q[j]
    <3>1. j \in 1 .. Len(q) + 1 /\ j + 1 \in 1 .. Len(q) + 1 /\ j + 1 # 1
      OBVIOUS
    <3>2. (j + 1) - 1 = j
      OBVIOUS
    <3> QED BY <1>2, <3>1, <3>2
  <2>4. j # 1 => r[j - 1] = IF j - 1 < i THEN q[j - 1] ELSE q[j]
    <3>1. SUFFICES ASSUME j # 1 PROVE r[j - 1] = IF j - 1 < i THEN q[j - 1] ELSE q[j]
      OBVIOUS
    <3>2. j - 1 \in 1 .. Len(q) - 1 /\ (j - 1) + 1 = j
      BY <3>1
    <3> QED BY <3>2
  <2> QED BY <2>1, <2>2, <2>3, <2>4
<1> HIDE DEF a, b
<1>7. a = b
  BY <1>3, <1>5, <1>6, SeqEqual
<1> QED BY <1>7 DEF a, b, r, l

\* The initial states of the lock manager are empty lines.
LEMMA LinesAreEmpty == Init => Line!Init
  BY DEF Init, Line!Init

\* Every step of the lock manager is a step of the lines or changes none.
LEMMA LinesStep == IndInv /\ [Next]_vars => [Line!Next]_Line!vars
<1> SUFFICES ASSUME IndInv, [Next]_vars PROVE [Line!Next]_Line!vars
  OBVIOUS
<1> USE NoCallAssumption
<1> DEFINE L == [s \in Slots |->
                   IF owners[s] = NoCall THEN <<>> ELSE <<owners[s]>> \o slots[s]]
           J == {c \in Calls : pc[c] # "new"}
<1>t. TypeOK /\ QueuesOK /\ TicketsOK /\ OwnersOK /\ NoForgottenWaiter
  BY DEF IndInv
<1>q. ASSUME NEW s \in Slots
      PROVE  /\ slots[s] \in Seq(Calls)
             /\ owners[s] \in Calls \cup {NoCall}
             /\ owners[s] = NoCall => slots[s] = <<>>
  <2>1. slots[s] \in Seq(Calls) /\ owners[s] \in Calls \cup {NoCall}
    BY <1>t DEF TypeOK
  <2>2. ASSUME owners[s] = NoCall, slots[s] # <<>> PROVE FALSE
    <3>1. 1 \in 1 .. Len(slots[s])
      BY <2>1, <2>2
    <3>2. /\ Enqueued(slots[s][1]) /\ slotOf[slots[s][1]] = s
          /\ slots[s][1] \in Calls
      BY <3>1, <2>1, <1>t DEF QueuesOK
    <3> QED BY <3>2, <2>2, <1>t DEF NoForgottenWaiter, Enqueued
  <2> QED BY <2>1, <2>2
<1>v. Line!vars = <<L, J>> /\ Line!vars' = <<L', J'>>
  BY DEF Line!vars
<1>1. ASSUME NEW c \in Calls, AcquireFree(c) PROVE Line!Next
  <2>1. slotOf[c] \in Slots /\ slots[slotOf[c]] = <<>> /\ c # NoCall
    BY <1>1, <1>t, <1>q DEF AcquireFree, TypeOK
  <2>2. c \notin J /\ J' = J \cup {c}
    BY <1>1, <1>t DEF AcquireFree, TypeOK
  <2>3. owners[slotOf[c]] = NoCall /\ owners' = [owners EXCEPT ![slotOf[c]] = c] /\ slots' = slots
    BY <1>1 DEF AcquireFree
  <2>4. <<c>> \o slots[slotOf[c]] = <<c>> /\ Append(<<>>, c) = <<c>>
    BY <2>1
  <2>5. L' = [L EXCEPT ![slotOf[c]] = Append(@, c)]
    <3>1. L[slotOf[c]] = <<>>
      BY <2>1, <2>3
    <3>2. L' = [L EXCEPT ![slotOf[c]] = <<c>>]
      BY <2>1, <2>3, <2>4, <1>t DEF TypeOK
    <3> QED BY <3>1, <3>2, <2>4
  <2> QED BY <2>1, <2>2, <2>5 DEF Line!Join, Line!Next
<1>2. ASSUME NEW c \in Calls, Enqueue(c) PROVE Line!Next
  <2> DEFINE s == slotOf[c]
  <2>1. s \in Slots /\ owners[s] \in Calls /\ slots[s] \in Seq(Calls)
    BY <1>2, <1>t, <1>q DEF Enqueue, TypeOK
  <2>2. c \notin J /\ J' = J \cup {c}
    BY <1>2, <1>t DEF Enqueue, TypeOK
  <2>3. /\ owners' = owners
        /\ slots' = [slots EXCEPT ![s] = Append(slots[s], c)]
    BY <1>2 DEF Enqueue
  <2>4. <<owners[s]>> \o Append(slots[s], c) = Append(<<owners[s]>> \o slots[s], c)
    BY <2>1, FrontAppend
  <2>5. L' = [L EXCEPT ![s] = Append(@, c)]
    BY <2>1, <2>3, <2>4, <1>t DEF TypeOK
  <2> QED BY <2>1, <2>2, <2>5 DEF Line!Join, Line!Next
<1>3. ASSUME NEW c \in Calls, Abandon(c)
      PROVE  Line!Next \/ UNCHANGED Line!vars
  <2> DEFINE s == slotOf[c]
  <2>1. s \in Slots /\ slots[s] \in Seq(Calls) /\ pc[c] = "leaving"
    BY <1>3, <1>t DEF Abandon, TypeOK
  <2>2. J' = J
    BY <1>3, <2>1, <1>t DEF Abandon, TypeOK
  <2>3. CASE slots' = slots
    BY <2>3, <2>2, <1>3, <1>v DEF Abandon
  <2>4. CASE slots' # slots
    <3>1. PICK i \in 1 .. Len(slots[s]) :
            slots' = [slots EXCEPT ![s] = RemoveAt(slots[s], i)]
      BY <2>4, <1>3 DEF Abandon
    <3>2. owners' = owners /\ owners[s] \in Calls
      <4>1. slots[s] # <<>>
        BY <2>1, <3>1
      <4> QED BY <4>1, <2>1, <1>3, <1>q DEF Abandon
    <3>3. <<owners[s]>> \o RemoveAt(slots[s], i)
            = RemoveAt(<<owners[s]>> \o slots[s], i + 1)
      BY <2>1, <3>2, FrontRemove
    <3>4. L' = [L EXCEPT ![s] = RemoveAt(@, i + 1)]
      BY <2>1, <3>1, <3>2, <3>3, <1>t DEF TypeOK
    <3>5. L[s] = <<owners[s]>> \o slots[s] /\ i + 1 \in 2 .. Len(L[s])
      <4>1. L[s] = <<owners[s]>> \o slots[s]
        BY <2>1, <3>2
      <4>2. Len(<<owners[s]>> \o slots[s]) = Len(slots[s]) + 1
        BY <2>1, <3>2, FrontElements
      <4> QED BY <4>1, <4>2, <2>1
    <3>6. Line!GiveUp(s, i + 1)
      <4>1. \A f, k : Line!RemoveAt(f, k) = RemoveAt(f, k)
        BY DEF Line!RemoveAt, RemoveAt
      <4> QED BY <4>1, <2>2, <3>4, <3>5 DEF Line!GiveUp
    <3> QED BY <2>1, <3>5, <3>6 DEF Line!Next
  <2> QED BY <2>3, <2>4
<1>4. ASSUME NEW c \in Calls, Release(c) PROVE Line!Next
  <2> DEFINE s == slotOf[c]
  <2>1. /\ s \in Slots /\ slots[s] \in Seq(Calls) /\ owners[s] = c
        /\ c # NoCall /\ J' = J
    BY <1>4, <1>t DEF Release, TypeOK
  <2>2. L[s] = <<c>> \o slots[s] /\ L[s] # <<>> /\ Tail(L[s]) = slots[s]
    <3>1. L[s] = <<c>> \o slots[s]
      BY <2>1
    <3>2. <<c>> \o slots[s] # <<>> /\ Tail(<<c>> \o slots[s]) = slots[s]
      BY <2>1
    <3> QED BY <3>1, <3>2
  <2>3. CASE slots[s] # <<>>
    <3>1. /\ owners' = [owners EXCEPT ![s] = Head(slots[s])]
          /\ slots' = [slots EXCEPT ![s] = Tail(slots[s])]
      BY <2>3, <1>4 DEF Release
    <3>2. Head(slots[s]) \in Calls /\ <<Head(slots[s])>> \o Tail(slots[s]) = slots[s]
      BY <2>1, <2>3
    <3>3. L' = [L EXCEPT ![s] = slots[s]]
      BY <2>1, <3>1, <3>2, <1>t DEF TypeOK
    <3> QED BY <2>1, <2>2, <3>3 DEF Line!Depart, Line!Next
  <2>4. CASE slots[s] = <<>>
    <3>1. owners' = [owners EXCEPT ![s] = NoCall] /\ slots' = slots
      BY <2>4, <1>4 DEF Release
    <3>2. L' = [L EXCEPT ![s] = slots[s]]
      BY <2>1, <2>4, <3>1, <1>t DEF TypeOK
    <3> QED BY <2>1, <2>2, <3>2 DEF Line!Depart, Line!Next
  <2> QED BY <2>3, <2>4
<1>5. ASSUME NEW c \in Calls, TakeGrant(c) \/ StopWaiting(c)
      PROVE  UNCHANGED Line!vars
  <2>1. L' = L
    BY <1>5 DEF TakeGrant, StopWaiting
  <2>2. J' = J
    BY <1>5, <1>t DEF TakeGrant, StopWaiting, TypeOK
  <2> QED BY <2>1, <2>2, <1>v
<1>6. CASE UNCHANGED vars
  BY <1>6, <1>v DEF vars
<1>7. CASE \E c \in Calls : Acquire(c) \/ Waiting(c) \/ Release(c)
  <2>1. PICK c \in Calls : Acquire(c) \/ Waiting(c) \/ Release(c)
    BY <1>7
  <2>2. CASE AcquireFree(c) \/ Enqueue(c)
    BY <2>2, <1>1, <1>2
  <2>3. CASE TakeGrant(c) \/ StopWaiting(c) \/ Abandon(c)
    BY <2>3, <1>3, <1>5
  <2>4. CASE Release(c)
    BY <2>4, <1>4
  <2> QED BY <2>1, <2>2, <2>3, <2>4 DEF Acquire, Waiting
<1> QED
  BY <1>6, <1>7 DEF Next

\* The lock manager serves the claimants of a slot in the order in which they
\* came: it implements the line of SlotLine, for any calls on any slots.
THEOREM Implementation == Spec => FifoService
<1>1. IndInv /\ [Next]_vars => [Line!Next]_Line!vars
  BY LinesStep
<1> QED
  BY LinesAreEmpty, Invariance, <1>1, PTL DEF Spec, FifoService, Line!Spec
=============================================================================
