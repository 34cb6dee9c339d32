-------------------------- MODULE StreamPipe_proofs --------------------------
(***************************************************************************)
(* Proofs about StreamPipe: for all conversations, answers, filters and     *)
(* capacities of the channel, the request says what the client said, no     *)
(* frame is lost, doubled or overtaken on its way to the client, the usage  *)
(* he is told adds up, and a stream agrees with the whole answer.           *)
(*                                                                          *)
(* Conversations and streams have any length, so the proofs need induction: *)
(* a lemma of sets of numbers, from the least element of a set.  The joins  *)
(* and the folds of the model are expanded to their tables once, and then   *)
(* known by what one more element adds.                                     *)
(***************************************************************************)
EXTENDS StreamPipe, SequenceTheorems, WellFoundedInduction, TLAPS

-----------------------------------------------------------------------------
(* Joined sequences *)

\* Induction: a set with 0 and the successors of its numbers has all numbers.
LEMMA Induction ==
  ASSUME NEW S, 0 \in S, \A n \in Nat : n \in S => n + 1 \in S
  PROVE  \A n \in Nat : n \in S
<1> DEFINE R == {p \in Nat \X Nat : p[1] < p[2]}
           T == Nat \ S
<1> SUFFICES ASSUME T # {} PROVE FALSE
  OBVIOUS
<1>1. PICK x \in T : \A y \in T : ~(<<y, x>> \in R)
  <2>1. IsWellFoundedOn(R, Nat)
    BY NatLessThanWellFounded DEF OpToRel
  <2> HIDE DEF R, T
  <2>2. T \subseteq Nat
    BY DEF T
  <2> QED BY <2>1, <2>2, WFMin
<1>2. x \in Nat /\ x # 0 /\ x - 1 \in Nat /\ (x - 1) + 1 = x
  OBVIOUS
<1>3. x - 1 \notin S
  BY <1>2
<1>4. <<x - 1, x>> \in R
  BY <1>2
<1> QED BY <1>1, <1>2, <1>3, <1>4

\* The table by which FlattenSeq joins a sequence exists.
LEMMA FlattenTable ==
  ASSUME NEW s, Len(s) \in Nat, Len(s) # 0
  PROVE  \E f : /\ f = [i \in 1..Len(s) |-> IF i = 1 THEN s[i] ELSE f[i - 1] \o s[i]]
                /\ FlattenSeq(s) = f[Len(s)]
<1> DEFINE Table(n, f) == f = [i \in 1..n |-> IF i = 1 THEN s[i] ELSE f[i - 1] \o s[i]]
           S == {n \in Nat : \E f : Table(n, f)}
<1>1. 0 \in S
  <2> DEFINE f == [i \in 1..0 |-> 0]
  <2>1. Table(0, f)
    OBVIOUS
  <2> HIDE DEF Table
  <2> QED BY <2>1
<1>2. ASSUME NEW n \in Nat, n \in S PROVE n + 1 \in S
  <2>1. PICK f : Table(n, f)
    BY <1>2
  <2> DEFINE g == [i \in 1..(n + 1) |-> IF i <= n THEN f[i] ELSE IF i = 1 THEN s[i] ELSE f[n] \o s[i]]
  <2>2. ASSUME NEW i \in 1..(n + 1) PROVE g[i] = IF i = 1 THEN s[i] ELSE g[i - 1] \o s[i]
    <3>1. CASE i <= n
      <4>1. /\ i \in 1..n /\ g[i] = f[i]
            /\ (i # 1 => i - 1 \in 1..n /\ i - 1 \in 1..(n + 1) /\ g[i - 1] = f[i - 1])
        BY <3>1
      <4> QED BY <4>1, <2>1
    <3>2. CASE i = n + 1
      <4>1. n # 0 => g[n] = f[n]
        OBVIOUS
      <4> QED BY <3>2, <4>1
    <3> QED BY <3>1, <3>2
  <2>3. Table(n + 1, g)
    BY <2>2
  <2> HIDE DEF Table
  <2> QED BY <2>3
<1>3. Len(s) \in S
  <2> HIDE DEF S
  <2> QED BY <1>1, <1>2, Induction
<1>4. \E f : Table(Len(s), f)
  BY <1>3
<1>5. Table(Len(s), CHOOSE f : Table(Len(s), f))
  <2> HIDE DEF Table
  <2> QED BY <1>4
<1>6. FlattenSeq(s) = (CHOOSE f : Table(Len(s), f))[Len(s)]
  BY DEF FlattenSeq
<1> QED BY <1>5, <1>6

\* Nothing is joined to nothing.
LEMMA FlattenEmpty == FlattenSeq(<<>>) = <<>>
BY EmptySeq DEF FlattenSeq

\* A sequence of sequences is joined from the first to the last.
LEMMA FlattenSteps ==
  ASSUME NEW S, NEW s \in Seq(Seq(S)), Len(s) # 0
  PROVE  \E f : /\ FlattenSeq(s) = f[Len(s)] /\ f[1] = s[1]
                /\ \A i \in 2..Len(s) : f[i] = f[i - 1] \o s[i]
                /\ \A i \in 1..Len(s) : f[i] \in Seq(S)
<1>1. Len(s) \in Nat /\ \A i \in 1..Len(s) : s[i] \in Seq(S)
  OBVIOUS
<1>2. PICK f : f = [i \in 1..Len(s) |-> IF i = 1 THEN s[i] ELSE f[i - 1] \o s[i]] /\ FlattenSeq(s) = f[Len(s)]
  BY <1>1, FlattenTable
<1>3. f[1] = s[1] /\ \A i \in 2..Len(s) : f[i] = f[i - 1] \o s[i]
  <2>1. 1 \in 1..Len(s)
    BY <1>1
  <2>2. \A i \in 2..Len(s) : i \in 1..Len(s) /\ i # 1
    BY <1>1
  <2>3. \A i \in 1..Len(s) : f[i] = IF i = 1 THEN s[i] ELSE f[i - 1] \o s[i]
    BY <1>2
  <2> QED BY <2>1, <2>2, <2>3
<1> DEFINE T == {n \in Nat : n + 1 <= Len(s) => f[n + 1] \in Seq(S)}
<1>4. 0 \in T
  BY <1>1, <1>3
<1>5. ASSUME NEW n \in Nat, n \in T PROVE n + 1 \in T
  <2>1. SUFFICES ASSUME (n + 1) + 1 <= Len(s) PROVE f[(n + 1) + 1] \in Seq(S)
    OBVIOUS
  <2>2. n + 1 \in 1..Len(s) /\ (n + 1) + 1 \in 2..Len(s) /\ ((n + 1) + 1) - 1 = n + 1
    BY <2>1, <1>1
  <2> DEFINE m == (n + 1) + 1
  <2>3. m \in 2..Len(s) /\ m \in 1..Len(s) /\ m - 1 = n + 1 /\ n + 1 <= Len(s)
    BY <2>2
  <2>4. f[n + 1] \in Seq(S)
    BY <2>3, <1>5
  <2> HIDE DEF m
  <2>5. f[m] = f[n + 1] \o s[m] /\ s[m] \in Seq(S)
    BY <2>3, <1>1, <1>3
  <2> QED BY <2>4, <2>5, ConcatProperties DEF m
<1>6. \A n \in Nat : n \in T
  <2> HIDE DEF T
  <2> QED BY <1>4, <1>5, Induction
<1>7. ASSUME NEW i \in 1..Len(s) PROVE f[i] \in Seq(S)
  <2>1. i - 1 \in Nat /\ (i - 1) + 1 = i /\ i <= Len(s)
    BY <1>1
  <2> QED BY <2>1, <1>6
<1> QED BY <1>2, <1>3, <1>7

\* Flattening a longer sequence adds its last element.
LEMMA FlattenAppend ==
  ASSUME NEW S, NEW s \in Seq(Seq(S)), NEW x \in Seq(S)
  PROVE  FlattenSeq(s) \in Seq(S) /\ FlattenSeq(Append(s, x)) = FlattenSeq(s) \o x
<1> DEFINE t == Append(s, x)
           n == Len(s)
<1>1. /\ n \in Nat /\ t \in Seq(Seq(S)) /\ Len(t) = n + 1 /\ t[n + 1] = x
      /\ \A i \in 1..n : t[i] = s[i]
  BY AppendProperties
<1> HIDE DEF t
<1>2. PICK g : /\ FlattenSeq(t) = g[n + 1] /\ g[1] = t[1]
               /\ \A i \in 2..(n + 1) : g[i] = g[i - 1] \o t[i]
  <2>1. Len(t) # 0
    BY <1>1
  <2>2. PICK g : /\ FlattenSeq(t) = g[Len(t)] /\ g[1] = t[1]
                 /\ \A i \in 2..Len(t) : g[i] = g[i - 1] \o t[i]
                 /\ \A i \in 1..Len(t) : g[i] \in Seq(S)
    <3>1. t \in Seq(Seq(S))
      BY <1>1
    <3> QED BY <2>1, <3>1, FlattenSteps, Zenon
  <2> QED BY <1>1, <2>2
<1>3. CASE n = 0
  <2>1. s = <<>> /\ FlattenSeq(s) = <<>> /\ <<>> \in Seq(S)
    BY <1>3, FlattenEmpty, EmptySeq
  <2>2. FlattenSeq(t) = x
    BY <1>1, <1>2, <1>3
  <2> QED BY <2>1, <2>2, ConcatEmptySeq DEF t
<1>4. CASE n # 0
  <2>1. PICK f : /\ FlattenSeq(s) = f[n] /\ f[1] = s[1]
                 /\ \A i \in 2..n : f[i] = f[i - 1] \o s[i]
                 /\ \A i \in 1..n : f[i] \in Seq(S)
    BY <1>4, FlattenSteps
  <2> DEFINE T == {k \in Nat : k + 1 <= n => g[k + 1] = f[k + 1]}
  <2>2. 0 \in T
    BY <1>1, <1>2, <1>4, <2>1
  <2>3. ASSUME NEW k \in Nat, k \in T PROVE k + 1 \in T
    <3>1. SUFFICES ASSUME (k + 1) + 1 <= n PROVE g[(k + 1) + 1] = f[(k + 1) + 1]
      OBVIOUS
    <3>2. /\ (k + 1) + 1 \in 2..n /\ (k + 1) + 1 \in 2..(n + 1) /\ (k + 1) + 1 \in 1..n
          /\ ((k + 1) + 1) - 1 = k + 1 /\ k + 1 <= n
      BY <3>1, <1>1
    <3> QED BY <3>2, <1>1, <1>2, <2>1, <2>3
  <2>4. \A k \in Nat : k \in T
    <3> HIDE DEF T
    <3> QED BY <2>2, <2>3, Induction
  <2>5. n - 1 \in Nat /\ (n - 1) + 1 = n /\ n \in 1..n /\ n + 1 \in 2..(n + 1) /\ (n + 1) - 1 = n
    BY <1>1, <1>4
  <2>6. g[n] = f[n]
    <3>1. (n - 1) + 1 <= n => g[(n - 1) + 1] = f[(n - 1) + 1]
      BY <2>4, <2>5
    <3> QED BY <2>5, <3>1
  <2>7. g[n + 1] = g[n] \o x
    BY <2>5, <1>1, <1>2
  <2> QED BY <2>1, <2>5, <2>6, <2>7, <1>2 DEF t
<1> QED BY <1>3, <1>4

-----------------------------------------------------------------------------
(* The request *)

\* Before the first message.
Blank == [contents |-> <<>>, system |-> <<>>]

\* The greatest number of a set that holds its bound.
LEMMA MaxIs ==
  ASSUME NEW m \in Nat, NEW T \in SUBSET (1..m), m \in T
  PROVE  Max(T) = m
<1>1. m \in T /\ \A y \in T : m >= y
  OBVIOUS
<1>2. ASSUME NEW x \in T, \A y \in T : x >= y PROVE x = m
  BY <1>2
<1> QED BY <1>1, <1>2 DEF Max

\* Translated takes the messages one by one.
LEMMA TranslationSteps ==
  ASSUME NEW msgs, NEW n \in Nat, DOMAIN msgs = 1..n
  PROVE  \E p : /\ Translated(msgs) = p[n] /\ p[0] = Blank
                /\ \A k \in 1..n : p[k] = AddMessage(p[k - 1], msgs[k])
<1> DEFINE Step(f, T) == IF T = {} THEN Blank ELSE AddMessage(f[T \ {Max(T)}], msgs[Max(T)])
           Table(m, f) == f = [T \in SUBSET (1..m) |-> Step(f, T)]
           S == {m \in Nat : \E f : Table(m, f)}
<1>1. 0 \in S
  <2> DEFINE f == [T \in SUBSET (1..0) |-> Blank]
  <2>1. \A T \in SUBSET (1..0) : Step(f, T) = Blank
    OBVIOUS
  <2>2. Table(0, f)
    BY <2>1
  <2> HIDE DEF Table
  <2> QED BY <2>2
<1>2. ASSUME NEW m \in Nat, m \in S PROVE m + 1 \in S
  <2>1. PICK f : Table(m, f)
    BY <1>2
  <2> DEFINE g == [T \in SUBSET (1..(m + 1)) |->
                     IF m + 1 \in T THEN AddMessage(f[T \ {m + 1}], msgs[m + 1]) ELSE f[T]]
  <2>2. ASSUME NEW T \in SUBSET (1..(m + 1)) PROVE g[T] = Step(g, T)
    <3>1. \A U \in SUBSET (1..m) : U \in SUBSET (1..(m + 1)) /\ m + 1 \notin U /\ g[U] = f[U]
      OBVIOUS
    <3>2. CASE m + 1 \in T
      <4>1. Max(T) = m + 1 /\ T # {}
        BY <3>2, MaxIs
      <4>2. T \ {m + 1} \in SUBSET (1..m)
        OBVIOUS
      <4> QED BY <3>1, <3>2, <4>1, <4>2
    <3>3. CASE m + 1 \notin T
      <4>0. \A i \in 1..(m + 1) : i # m + 1 => i \in 1..m
        OBVIOUS
      <4>1. T \in SUBSET (1..m) /\ T \ {Max(T)} \in SUBSET (1..m)
        BY <3>3, <4>0
      <4>2. f[T] = Step(f, T)
        BY <2>1, <4>1
      <4> QED BY <3>1, <3>3, <4>1, <4>2
    <3> QED BY <3>2, <3>3
  <2>3. g = [T \in SUBSET (1..(m + 1)) |-> g[T]]
    OBVIOUS
  <2>4. Table(m + 1, g)
    <3> HIDE DEF g, Step
    <3> QED BY <2>2, <2>3
  <2> HIDE DEF Table
  <2> QED BY <2>4
<1>3. n \in S
  <2> HIDE DEF S
  <2> QED BY <1>1, <1>2, Induction
<1> DEFINE iter == CHOOSE f : Table(n, f)
<1>4. Table(n, iter)
  <2>1. \E f : Table(n, f)
    BY <1>3
  <2> HIDE DEF Table
  <2> QED BY <2>1
<1>5. Translated(msgs) = iter[1..n]
  BY DEF Translated, FoldLeft, MapThenFoldSet, Blank
<1> HIDE DEF iter
<1> DEFINE p == [k \in 0..n |-> iter[1..k]]
<1>6. p[0] = Blank
  <2>1. 1..0 = {} /\ {} \in SUBSET (1..n) /\ 0 \in 0..n
    OBVIOUS
  <2> QED BY <1>4, <2>1
<1>7. ASSUME NEW k \in 1..n PROVE p[k] = AddMessage(p[k - 1], msgs[k])
  <2>0. k \in 1..k /\ k - 1 \in 0..n /\ k \in 0..n /\ k \in Nat
    OBVIOUS
  <2>3. \A i \in 1..k : i \in 1..n
    OBVIOUS
  <2>4. (1..k) \ {k} = 1..(k - 1)
    OBVIOUS
  <2>1. 1..k \in SUBSET (1..n) /\ 1..k \in SUBSET (1..k) /\ 1..k # {}
    BY <2>0, <2>3
  <2>2. Max(1..k) = k
    BY <2>0, <2>1, MaxIs
  <2>5. iter[1..k] = AddMessage(iter[(1..k) \ {k}], msgs[k])
    BY <1>4, <2>1, <2>2
  <2> QED BY <2>0, <2>4, <2>5
<1>8. Translated(msgs) = p[n]
  BY <1>5
<1> HIDE DEF p
<1> QED BY <1>6, <1>7, <1>8

\* What a turn is made of, and a piece of text with its speaker.
Speakers == {"model", "user"}
Turn == [role : Speakers, parts : Seq(Seq(Nat))]
Pieces == Speakers \X Nat

\* What the turns say, one by one.
Voices(turns) == [i \in DOMAIN turns |-> Said(turns[i].role, FlattenSeq(turns[i].parts))]

\* Turns gemini accepts.
Accepted(turns) ==
  /\ turns \in Seq(Turn)
  /\ \A i \in 2..Len(turns) : turns[i].role # turns[i - 1].role
  /\ \A i \in DOMAIN turns : turns[i].parts # <<>> /\ <<>> \notin Range(turns[i].parts)

\* The text of a content is text.
LEMMA TextIsText == ASSUME NEW c \in Seq(Nat) PROVE TextOf(c) \in Seq(Nat)
<1> DEFINE s == [i \in DOMAIN c |-> IF c[i] = 0 THEN <<>> ELSE <<c[i]>>]
<1>1. s \in Seq(Seq(Nat))
  <2>1. DOMAIN c = 1..Len(c) /\ Len(c) \in Nat /\ \A i \in 1..Len(c) : c[i] \in Nat
    OBVIOUS
  <2>2. \A i \in 1..Len(c) : s[i] \in Seq(Nat)
    <3> TAKE i \in 1..Len(c)
    <3>1. <<>> \in Seq(Nat) /\ <<c[i]>> \in Seq(Nat)
      BY <2>1, EmptySeq
    <3>2. s[i] = IF c[i] = 0 THEN <<>> ELSE <<c[i]>>
      BY <2>1
    <3> HIDE DEF s
    <3> QED BY <3>1, <3>2
  <2>3. DOMAIN s = 1..Len(c) /\ s = [i \in 1..Len(c) |-> s[i]]
    BY <2>1
  <2> HIDE DEF s
  <2> QED BY <2>1, <2>2, <2>3
<1>2. <<>> \in Seq(Nat)
  BY EmptySeq
<1> HIDE DEF s
<1>3. FlattenSeq(s) \in Seq(Nat)
  BY <1>1, <1>2, FlattenAppend
<1> QED BY <1>3 DEF TextOf, s

\* What a speaker says, piece by piece.
LEMMA SaidIsSaid ==
  ASSUME NEW r \in Speakers, NEW a \in Seq(Nat)
  PROVE  /\ Said(r, a) \in Seq(Pieces) /\ Len(Said(r, a)) = Len(a)
         /\ \A i \in 1..Len(a) : Said(r, a)[i] = <<r, a[i]>>
BY DEF Said, Pieces

\* What is said in two parts is said in one.
LEMMA SaidJoins ==
  ASSUME NEW r \in Speakers, NEW a \in Seq(Nat), NEW b \in Seq(Nat)
  PROVE  Said(r, a \o b) = Said(r, a) \o Said(r, b)
<1>1. /\ a \o b \in Seq(Nat) /\ Len(a \o b) = Len(a) + Len(b)
      /\ \A i \in 1..(Len(a) + Len(b)) : (a \o b)[i] = IF i <= Len(a) THEN a[i] ELSE b[i - Len(a)]
  BY ConcatProperties
<1> DEFINE x == Said(r, a)
           y == Said(r, b)
           z == Said(r, a \o b)
<1>2. /\ x \in Seq(Pieces) /\ Len(x) = Len(a) /\ \A i \in 1..Len(a) : x[i] = <<r, a[i]>>
      /\ y \in Seq(Pieces) /\ Len(y) = Len(b) /\ \A i \in 1..Len(b) : y[i] = <<r, b[i]>>
  BY SaidIsSaid
<1>3. z \in Seq(Pieces) /\ Len(z) = Len(a) + Len(b) /\ \A i \in 1..(Len(a) + Len(b)) : z[i] = <<r, (a \o b)[i]>>
  BY <1>1, SaidIsSaid
<1> HIDE DEF x, y, z
<1>4. /\ x \o y \in Seq(Pieces) /\ Len(x \o y) = Len(x) + Len(y)
      /\ \A i \in 1..(Len(x) + Len(y)) : (x \o y)[i] = IF i <= Len(x) THEN x[i] ELSE y[i - Len(x)]
  <2>1. x \in Seq(Pieces) /\ y \in Seq(Pieces)
    BY <1>2
  <2> QED BY <2>1, ConcatProperties
<1>5. Len(a) \in Nat /\ Len(b) \in Nat
  OBVIOUS
<1>6. ASSUME NEW i \in 1..(Len(a) + Len(b)) PROVE z[i] = (x \o y)[i]
  <2>1. CASE i <= Len(a)
    <3>1. i \in 1..Len(a)
      BY <1>5, <2>1
    <3> QED BY <2>1, <3>1, <1>1, <1>2, <1>3, <1>4
  <2>2. CASE ~(i <= Len(a))
    <3>1. i - Len(a) \in 1..Len(b)
      BY <1>5, <2>2
    <3> QED BY <2>2, <3>1, <1>1, <1>2, <1>3, <1>4
  <2> QED BY <2>1, <2>2
<1>7. z = x \o y
  BY <1>2, <1>3, <1>4, <1>6, SeqEqual
<1> QED BY <1>7 DEF x, y, z

\* A single sequence is joined to itself.
LEMMA FlattenOne == ASSUME NEW S, NEW x \in Seq(S) PROVE FlattenSeq(<<x>>) = x
<1>1. <<>> \in Seq(Seq(S)) /\ Append(<<>>, x) = <<x>>
  BY EmptySeq
<1>2. FlattenSeq(Append(<<>>, x)) = <<>> \o x
  BY <1>1, FlattenAppend, FlattenEmpty
<1> QED BY <1>1, <1>2, ConcatEmptySeq

\* What turns say are pieces with their speakers.
LEMMA VoicesTyped ==
  ASSUME NEW turns \in Seq(Turn)
  PROVE  /\ Voices(turns) \in Seq(Seq(Pieces)) /\ Len(Voices(turns)) = Len(turns)
         /\ \A i \in 1..Len(turns) : Voices(turns)[i] = Said(turns[i].role, FlattenSeq(turns[i].parts))
         /\ \A i \in 1..Len(turns) : turns[i].role \in Speakers /\ FlattenSeq(turns[i].parts) \in Seq(Nat)
<1>1. ASSUME NEW i \in 1..Len(turns)
      PROVE  /\ turns[i].role \in Speakers /\ FlattenSeq(turns[i].parts) \in Seq(Nat)
             /\ Said(turns[i].role, FlattenSeq(turns[i].parts)) \in Seq(Pieces)
  <2>1. turns[i] \in Turn
    OBVIOUS
  <2>2. turns[i].role \in Speakers /\ turns[i].parts \in Seq(Seq(Nat))
    BY <2>1 DEF Turn
  <2>3. FlattenSeq(turns[i].parts) \in Seq(Nat)
    BY <2>2, FlattenAppend, EmptySeq
  <2> QED BY <2>2, <2>3, SaidIsSaid
<1>2. DOMAIN turns = 1..Len(turns) /\ Len(turns) \in Nat
  OBVIOUS
<1>3. Voices(turns) = [i \in 1..Len(turns) |-> Said(turns[i].role, FlattenSeq(turns[i].parts))]
  BY <1>2 DEF Voices
<1> QED BY <1>1, <1>2, <1>3

\* One more text, joined to the last turn or not, is said behind all others, and the
\* turns are still such as gemini accepts.
LEMMA AddTurnKeeps ==
  ASSUME NEW turns, Accepted(turns), NEW r \in Speakers, NEW text \in Seq(Nat), text # <<>>
  PROVE  /\ Accepted(AddTurn(turns, r, text))
         /\ FlattenSeq(Voices(AddTurn(turns, r, text))) = FlattenSeq(Voices(turns)) \o Said(r, text)
<1> DEFINE n == Len(turns)
           new == AddTurn(turns, r, text)
<1>1. /\ turns \in Seq(Turn) /\ n \in Nat /\ DOMAIN turns = 1..n
      /\ \A i \in 2..n : turns[i].role # turns[i - 1].role
      /\ \A i \in 1..n : /\ turns[i].parts # <<>> /\ <<>> \notin Range(turns[i].parts)
                         /\ turns[i].role \in Speakers /\ turns[i].parts \in Seq(Seq(Nat))
  <2>1. turns \in Seq(Turn) /\ n \in Nat /\ DOMAIN turns = 1..n
    BY DEF Accepted
  <2>2. \A i \in 1..n : turns[i] \in Turn
    BY <2>1
  <2> QED BY <2>1, <2>2 DEF Accepted, Turn
<1>2. /\ Voices(turns) \in Seq(Seq(Pieces)) /\ Len(Voices(turns)) = n
      /\ \A i \in 1..n : Voices(turns)[i] = Said(turns[i].role, FlattenSeq(turns[i].parts))
  BY <1>1, VoicesTyped
<1>3. Said(r, text) \in Seq(Pieces)
  BY SaidIsSaid
<1>4. CASE ~(turns # <<>> /\ Last(turns).role = r)
  <2> DEFINE t == [role |-> r, parts |-> <<text>>]
  <2>1. new = Append(turns, t)
    BY <1>4 DEF AddTurn
  <2>2. t \in Turn /\ t.role = r /\ t.parts = <<text>> /\ t.parts # <<>> /\ <<>> \notin Range(t.parts)
    BY DEF Turn, Range
  <2> HIDE DEF t, new
  <2>3. /\ new \in Seq(Turn) /\ Len(new) = n + 1 /\ new[n + 1] = t
        /\ \A i \in 1..n : new[i] = turns[i]
    BY <1>1, <2>1, <2>2, AppendProperties
  <2>4. n # 0 => turns[n].role # r
    BY <1>1, <1>4 DEF Last
  <2>5. ASSUME NEW i \in 2..(n + 1) PROVE new[i].role # new[i - 1].role
    <3>1. CASE i = n + 1
      <4>1. n # 0 /\ n \in 1..n /\ i - 1 = n
        BY <1>1, <3>1
      <4> QED BY <3>1, <4>1, <2>2, <2>3, <2>4
    <3>2. CASE i # n + 1
      <4>1. i \in 2..n /\ i \in 1..n /\ i - 1 \in 1..n
        BY <1>1, <3>2
      <4> QED BY <4>1, <1>1, <2>3
    <3> QED BY <3>1, <3>2
  <2>6. ASSUME NEW i \in 1..(n + 1) PROVE new[i].parts # <<>> /\ <<>> \notin Range(new[i].parts)
    <3>1. CASE i = n + 1
      BY <3>1, <2>2, <2>3
    <3>2. CASE i # n + 1
      <4>1. i \in 1..n
        BY <1>1, <3>2
      <4> QED BY <4>1, <1>1, <2>3
    <3> QED BY <3>1, <3>2
  <2>7. Accepted(new)
    <3>1. DOMAIN new = 1..(n + 1)
      BY <2>3
    <3> QED BY <3>1, <2>3, <2>5, <2>6 DEF Accepted
  <2>8. /\ Voices(new) \in Seq(Seq(Pieces)) /\ Len(Voices(new)) = n + 1
        /\ \A i \in 1..(n + 1) : Voices(new)[i] = Said(new[i].role, FlattenSeq(new[i].parts))
    BY <2>3, VoicesTyped
  <2>9. Voices(new) = Append(Voices(turns), Said(r, text))
    <3>1. /\ Append(Voices(turns), Said(r, text)) \in Seq(Seq(Pieces))
          /\ Len(Append(Voices(turns), Said(r, text))) = n + 1
          /\ Append(Voices(turns), Said(r, text))[n + 1] = Said(r, text)
          /\ \A i \in 1..n : Append(Voices(turns), Said(r, text))[i] = Voices(turns)[i]
      <4> DEFINE v == Voices(turns)
                 x == Said(r, text)
      <4>1. v \in Seq(Seq(Pieces)) /\ x \in Seq(Pieces) /\ Len(v) = n
        BY <1>2, <1>3
      <4> HIDE DEF v, x
      <4>2. /\ Append(v, x) \in Seq(Seq(Pieces)) /\ Len(Append(v, x)) = n + 1 /\ Append(v, x)[n + 1] = x
            /\ \A i \in 1..n : Append(v, x)[i] = v[i]
        BY <4>1, AppendProperties
      <4> QED BY <4>2 DEF v, x
    <3>2. FlattenSeq(<<text>>) = text
      BY FlattenOne
    <3>3. ASSUME NEW i \in 1..(n + 1) PROVE Voices(new)[i] = Append(Voices(turns), Said(r, text))[i]
      <4>1. CASE i = n + 1
        BY <4>1, <2>2, <2>3, <2>8, <3>1, <3>2
      <4>2. CASE i # n + 1
        <5>1. i \in 1..n
          BY <1>1, <4>2
        <5> QED BY <5>1, <1>2, <2>3, <2>8, <3>1
      <4> QED BY <4>1, <4>2
    <3> QED BY <2>8, <3>1, <3>3, SeqEqual
  <2>10. FlattenSeq(Append(Voices(turns), Said(r, text))) = FlattenSeq(Voices(turns)) \o Said(r, text)
    BY <1>2, <1>3, FlattenAppend
  <2> QED BY <2>7, <2>9, <2>10 DEF new
<1>5. CASE turns # <<>> /\ Last(turns).role = r
  <2> DEFINE old == turns[n].parts
             t == [turns[n] EXCEPT !.parts = Append(old, text)]
  <2>1. n # 0 /\ n \in 1..n /\ turns[n].role = r
    BY <1>1, <1>5 DEF Last
  <2>2. new = [turns EXCEPT ![n] = t]
    BY <1>5 DEF AddTurn
  <2>3. /\ old \in Seq(Seq(Nat)) /\ old # <<>> /\ <<>> \notin Range(old)
        /\ turns[n] \in Turn
    BY <1>1, <2>1
  <2>4. t \in Turn /\ t.role = r /\ t.parts = Append(old, text)
    <3>1. Append(old, text) \in Seq(Seq(Nat))
      <4> HIDE DEF old
      <4> QED BY <2>3, AppendProperties
    <3>2. /\ t.role = turns[n].role /\ t.parts = Append(old, text)
          /\ t = [role |-> turns[n].role, parts |-> Append(old, text)]
      <4>1. PICK a \in Speakers, b \in Seq(Seq(Nat)) : turns[n] = [role |-> a, parts |-> b]
        BY <2>3 DEF Turn
      <4>2. turns[n].role = a
        BY <4>1
      <4>3. \A q : [[role |-> a, parts |-> b] EXCEPT !.parts = q] = [role |-> a, parts |-> q]
        OBVIOUS
      <4>4. t = [role |-> a, parts |-> Append(old, text)]
        <5> HIDE DEF old
        <5> QED BY <4>1, <4>3
      <4> HIDE DEF t, old
      <4> QED BY <4>2, <4>4
    <3> QED BY <2>1, <3>1, <3>2 DEF Turn
  <2> HIDE DEF t, new
  <2>5. t.parts # <<>> /\ <<>> \notin Range(t.parts)
    <3> HIDE DEF old
    <3>0. /\ Append(old, text) \in Seq(Seq(Nat)) /\ Len(Append(old, text)) = Len(old) + 1 /\ Len(old) \in Nat
          /\ Append(old, text)[Len(old) + 1] = text
          /\ \A i \in 1..Len(old) : Append(old, text)[i] = old[i]
      BY <2>3, AppendProperties
    <3>1. Append(old, text) # <<>> /\ <<>> \notin Range(Append(old, text))
      <4>1. Append(old, text) # <<>>
        <5>1. Len(<<>>) = 0 /\ Len(Append(old, text)) # 0
          BY <3>0
        <5> QED BY <5>1
      <4>2. \A i \in 1..Len(old) : old[i] # <<>>
        BY <2>3 DEF Range
      <4>3. ASSUME NEW i \in 1..(Len(old) + 1) PROVE Append(old, text)[i] # <<>>
        <5>1. CASE i = Len(old) + 1
          BY <3>0, <5>1
        <5>2. CASE i # Len(old) + 1
          <6>1. i \in 1..Len(old)
            BY <3>0, <5>2
          <6> QED BY <3>0, <4>2, <6>1
        <5> QED BY <5>1, <5>2
      <4>4. DOMAIN Append(old, text) = 1..(Len(old) + 1)
        BY <3>0
      <4> QED BY <4>1, <4>3, <4>4 DEF Range
    <3> QED BY <2>3, <2>4, <3>1
  <2>6. /\ new \in Seq(Turn) /\ Len(new) = n /\ DOMAIN new = 1..n /\ new[n] = t
        /\ \A i \in 1..n : i # n => new[i] = turns[i]
    BY <1>1, <2>1, <2>2, <2>4
  <2>7. \A i \in 1..n : new[i].role = turns[i].role
    BY <2>1, <2>4, <2>6
  <2>8. Accepted(new)
    <3>1. ASSUME NEW i \in 2..n PROVE new[i].role # new[i - 1].role
      <4>1. i \in 1..n /\ i - 1 \in 1..n
        BY <1>1
      <4> QED BY <4>1, <1>1, <2>7
    <3>2. \A i \in 1..n : new[i].parts # <<>> /\ <<>> \notin Range(new[i].parts)
      BY <1>1, <2>5, <2>6
    <3> QED BY <2>6, <3>1, <3>2 DEF Accepted
  <2>9. /\ Voices(new) \in Seq(Seq(Pieces)) /\ Len(Voices(new)) = n
        /\ \A i \in 1..n : Voices(new)[i] = Said(new[i].role, FlattenSeq(new[i].parts))
    BY <2>6, VoicesTyped
  <2>10. Voices(new)[n] = Voices(turns)[n] \o Said(r, text)
    <3>1. FlattenSeq(Append(old, text)) = FlattenSeq(old) \o text /\ FlattenSeq(old) \in Seq(Nat)
      BY <2>3, FlattenAppend
    <3>2. Said(r, FlattenSeq(old) \o text) = Said(r, FlattenSeq(old)) \o Said(r, text)
      BY <3>1, SaidJoins
    <3> QED BY <1>2, <2>1, <2>4, <2>6, <2>9, <3>1, <3>2
  <2>11. PICK front \in Seq(Seq(Pieces)), e \in Seq(Pieces) : Voices(turns) = Append(front, e)
    BY <1>2, <2>1, SequenceEmptyOrAppend, EmptySeq
  <2>12. /\ Len(front) = n - 1 /\ Len(front) \in Nat /\ e = Voices(turns)[n]
         /\ \A i \in 1..(n - 1) : front[i] = Voices(turns)[i]
    <3>1. n \in Nat /\ Len(Append(front, e)) = n
      BY <1>1, <1>2, <2>11
    <3>2. /\ Len(Append(front, e)) = Len(front) + 1 /\ Append(front, e)[Len(front) + 1] = e
          /\ \A i \in 1..Len(front) : Append(front, e)[i] = front[i]
      BY <2>11, AppendProperties
    <3>3. Len(front) \in Nat
      BY <2>11
    <3> HIDE DEF n
    <3> QED BY <2>11, <3>1, <3>2, <3>3
  <2>13. e \o Said(r, text) \in Seq(Pieces)
    BY <1>3, ConcatProperties
  <2>14. Voices(new) = Append(front, e \o Said(r, text))
    <3> DEFINE x == e \o Said(r, text)
    <3> HIDE DEF x
    <3>0. x \in Seq(Pieces)
      BY <2>13 DEF x
    <3>1. /\ Append(front, x) \in Seq(Seq(Pieces)) /\ Len(Append(front, x)) = n /\ Append(front, x)[n] = x
          /\ \A i \in 1..(n - 1) : Append(front, x)[i] = front[i]
      <4>1. n \in Nat /\ Len(front) = n - 1
        BY <1>1, <2>12
      <4> HIDE DEF n
      <4>2. /\ Append(front, x) \in Seq(Seq(Pieces)) /\ Len(Append(front, x)) = Len(front) + 1
            /\ \A i \in 1..Len(front) : Append(front, x)[i] = front[i]
            /\ Append(front, x)[Len(front) + 1] = x
        BY <3>0, AppendProperties
      <4> QED BY <4>1, <4>2
    <3>2. ASSUME NEW i \in 1..n PROVE Voices(new)[i] = Append(front, x)[i]
      <4>1. CASE i = n
        BY <4>1, <2>10, <2>12, <3>1 DEF x
      <4>2. CASE i # n
        <5>1. i \in 1..(n - 1)
          <6>1. n \in Nat
            BY <1>1
          <6> QED BY <4>2, <6>1
        <5> QED BY <5>1, <4>2, <1>2, <2>6, <2>9, <2>12, <3>1
      <4> QED BY <4>1, <4>2
    <3>3. Voices(new) = Append(front, x)
      BY <2>9, <3>1, <3>2, SeqEqual
    <3> QED BY <3>3 DEF x
  <2>15. /\ FlattenSeq(front) \in Seq(Pieces)
         /\ FlattenSeq(Voices(turns)) = FlattenSeq(front) \o e
         /\ FlattenSeq(Voices(new)) = FlattenSeq(front) \o (e \o Said(r, text))
    BY <2>11, <2>13, <2>14, FlattenAppend
  <2>16. FlattenSeq(front) \o (e \o Said(r, text)) = (FlattenSeq(front) \o e) \o Said(r, text)
    <3> DEFINE a == FlattenSeq(front)
               b == Said(r, text)
    <3>1. a \in Seq(Pieces) /\ e \in Seq(Pieces) /\ b \in Seq(Pieces)
      BY <1>3, <2>15
    <3> HIDE DEF a, b
    <3>2. (a \o e) \o b = a \o (e \o b)
      BY <3>1, ConcatAssociative
    <3> QED BY <3>2 DEF a, b
  <2> QED BY <2>8, <2>15, <2>16 DEF new
<1> QED BY <1>4, <1>5

\* A message of a client, and what the fold has told of the messages so far.
Msg == [role : STRING, content : Seq(Nat)]
Told == [contents : Seq(Turn), system : Seq(Seq(Nat))]

\* What a message adds to what was said and to what the system said.
LEMMA MessageAdds ==
  ASSUME NEW told \in Told, Accepted(told.contents), NEW m \in Msg
  PROVE  /\ AddMessage(told, m) \in Told /\ Accepted(AddMessage(told, m).contents)
         /\ SpokenBy(m) \in Seq(Pieces) /\ OrderedBy(m) \in Seq(Nat)
         /\ FlattenSeq(Voices(AddMessage(told, m).contents)) = FlattenSeq(Voices(told.contents)) \o SpokenBy(m)
         /\ FlattenSeq(AddMessage(told, m).system) = FlattenSeq(told.system) \o OrderedBy(m)
<1> DEFINE text == TextOf(m.content)
           role == turnRole(m)
           new == AddMessage(told, m)
           voices == FlattenSeq(Voices(told.contents))
           orders == FlattenSeq(told.system)
<1>1. text \in Seq(Nat) /\ role \in Speakers
  <2>1. m.content \in Seq(Nat)
    BY DEF Msg
  <2> QED BY <2>1, TextIsText DEF turnRole, Speakers
<1>2. /\ told.contents \in Seq(Turn) /\ told.system \in Seq(Seq(Nat))
      /\ voices \in Seq(Pieces) /\ orders \in Seq(Nat)
  <2>1. told.contents \in Seq(Turn) /\ told.system \in Seq(Seq(Nat))
    BY DEF Told
  <2>2. Voices(told.contents) \in Seq(Seq(Pieces))
    BY <2>1, VoicesTyped
  <2> QED BY <2>1, <2>2, FlattenAppend, EmptySeq
<1>3. Said(role, text) \in Seq(Pieces)
  BY <1>1, SaidIsSaid
<1>4. SpokenBy(m) \in Seq(Pieces) /\ OrderedBy(m) \in Seq(Nat)
  BY <1>1, <1>3, EmptySeq DEF SpokenBy, OrderedBy
<1>5. CASE text = <<>>
  <2>1. new = told
    BY <1>5 DEF AddMessage
  <2>2. Said(role, text) = <<>>
    BY <1>5 DEF Said
  <2>3. SpokenBy(m) = <<>> /\ OrderedBy(m) = <<>>
    BY <1>5, <2>2 DEF SpokenBy, OrderedBy
  <2>4. voices \o <<>> = voices /\ orders \o <<>> = orders
    <3> HIDE DEF voices, orders
    <3> QED BY <1>2, ConcatEmptySeq
  <2> QED BY <1>4, <2>1, <2>3, <2>4
<1>6. CASE text # <<>> /\ isSystem(m)
  <2>1. /\ new.contents = told.contents /\ new.system = Append(told.system, text) /\ new \in Told
    <3>1. PICK a \in Seq(Turn), b \in Seq(Seq(Nat)) : told = [contents |-> a, system |-> b]
      BY DEF Told
    <3>2. new = [contents |-> a, system |-> Append(b, text)]
      BY <1>6, <3>1 DEF AddMessage
    <3>3. Append(b, text) \in Seq(Seq(Nat))
      BY <1>1, AppendProperties
    <3> HIDE DEF new, text
    <3> QED BY <3>1, <3>2, <3>3 DEF Told
  <2>2. SpokenBy(m) = <<>> /\ OrderedBy(m) = text
    BY <1>6 DEF SpokenBy, OrderedBy
  <2>3. voices \o <<>> = voices
    <3> HIDE DEF voices
    <3> QED BY <1>2, ConcatEmptySeq
  <2>4. FlattenSeq(Append(told.system, text)) = orders \o text
    BY <1>1, <1>2, FlattenAppend
  <2> QED BY <1>4, <2>1, <2>2, <2>3, <2>4
<1>7. CASE text # <<>> /\ ~isSystem(m)
  <2>1. /\ Accepted(AddTurn(told.contents, role, text))
        /\ FlattenSeq(Voices(AddTurn(told.contents, role, text))) = voices \o Said(role, text)
    BY <1>1, <1>7, AddTurnKeeps
  <2>2. new.contents = AddTurn(told.contents, role, text) /\ new.system = told.system /\ new \in Told
    <3>1. PICK a \in Seq(Turn), b \in Seq(Seq(Nat)) : told = [contents |-> a, system |-> b]
      BY DEF Told
    <3>2. new = [contents |-> AddTurn(a, role, text), system |-> b]
      BY <1>7, <3>1 DEF AddMessage
    <3>3. AddTurn(a, role, text) \in Seq(Turn)
      BY <2>1, <3>1 DEF Accepted
    <3> HIDE DEF new, text, role
    <3> QED BY <3>1, <3>2, <3>3 DEF Told
  <2>3. SpokenBy(m) = Said(role, text) /\ OrderedBy(m) = <<>>
    BY <1>7 DEF SpokenBy, OrderedBy
  <2>4. orders \o <<>> = orders
    <3> HIDE DEF orders
    <3> QED BY <1>2, ConcatEmptySeq
  <2> QED BY <1>4, <2>1, <2>2, <2>3, <2>4
<1> QED BY <1>5, <1>6, <1>7

\* A table of one more entry is the shorter one with that entry at its end.
LEMMA TableAppend ==
  ASSUME NEW S, NEW k \in Nat, NEW f, NEW g, g = [i \in 1..k |-> f[i]], g \in Seq(S), f[k + 1] \in S
  PROVE  [i \in 1..(k + 1) |-> f[i]] = Append(g, f[k + 1]) /\ Append(g, f[k + 1]) \in Seq(S)
<1> DEFINE x == f[k + 1]
           h == [i \in 1..(k + 1) |-> f[i]]
<1>1. Len(g) = k /\ \A i \in 1..k : g[i] = f[i] /\ g[i] \in S
  OBVIOUS
<1>2. x \in S /\ g \in Seq(S)
  OBVIOUS
<1>3. h \in Seq(S) /\ Len(h) = k + 1 /\ \A i \in 1..(k + 1) : h[i] = f[i]
  <2>1. \A i \in 1..(k + 1) : i = k + 1 \/ i \in 1..k
    OBVIOUS
  <2>2. \A i \in 1..(k + 1) : f[i] \in S
    BY <1>1, <1>2, <2>1
  <2> QED BY <2>2
<1> HIDE DEF h
<1>4. /\ Append(g, x) \in Seq(S) /\ Len(Append(g, x)) = k + 1 /\ Append(g, x)[k + 1] = x
      /\ \A i \in 1..k : Append(g, x)[i] = g[i]
  <2> HIDE DEF x
  <2> QED BY <1>1, <1>2, AppendProperties
<1>5. ASSUME NEW i \in 1..(k + 1) PROVE h[i] = Append(g, x)[i]
  <2>1. i = k + 1 \/ i \in 1..k
    OBVIOUS
  <2> QED BY <2>1, <1>1, <1>3, <1>4
<1>6. h = Append(g, x)
  <2> HIDE DEF x
  <2> QED BY <1>3, <1>4, <1>5, SeqEqual
<1> QED BY <1>4, <1>6 DEF h

\* The translation of a conversation says what was said in it.
LEMMA TranslationIsFaithful ==
  ASSUME NEW msgs \in Seq(Msg)
  PROVE  /\ Accepted(Translated(msgs).contents)
         /\ FlattenSeq(Voices(Translated(msgs).contents))
              = FlattenSeq([i \in DOMAIN msgs |-> SpokenBy(msgs[i])])
         /\ FlattenSeq(Translated(msgs).system) = FlattenSeq([i \in DOMAIN msgs |-> OrderedBy(msgs[i])])
<1> DEFINE n == Len(msgs)
           Spoken(k) == [i \in 1..k |-> SpokenBy(msgs[i])]
           Ordered(k) == [i \in 1..k |-> OrderedBy(msgs[i])]
<1>1. n \in Nat /\ DOMAIN msgs = 1..n /\ \A i \in 1..n : msgs[i] \in Msg
  OBVIOUS
<1>2. PICK p : /\ Translated(msgs) = p[n] /\ p[0] = Blank
               /\ \A k \in 1..n : p[k] = AddMessage(p[k - 1], msgs[k])
  BY <1>1, TranslationSteps
<1> DEFINE Good(k) ==
             /\ p[k] \in Told /\ Accepted(p[k].contents)
             /\ Spoken(k) \in Seq(Seq(Pieces)) /\ Ordered(k) \in Seq(Seq(Nat))
             /\ FlattenSeq(Voices(p[k].contents)) = FlattenSeq(Spoken(k))
             /\ FlattenSeq(p[k].system) = FlattenSeq(Ordered(k))
           S == {k \in Nat : k <= n => Good(k)}
<1>3. 0 \in S
  <2>1. p[0].contents = <<>> /\ p[0].system = <<>> /\ p[0] \in Told
    BY <1>2, EmptySeq DEF Blank, Told
  <2>2. Voices(<<>>) = <<>> /\ Spoken(0) = <<>> /\ Ordered(0) = <<>>
    BY DEF Voices
  <2>3. Accepted(<<>>)
    <3>1. <<>> \in Seq(Turn) /\ Len(<<>>) = 0 /\ DOMAIN <<>> = {}
      BY EmptySeq
    <3> QED BY <3>1 DEF Accepted
  <2>4. Good(0)
    <3>1. <<>> \in Seq(Seq(Pieces)) /\ <<>> \in Seq(Seq(Nat))
      BY EmptySeq
    <3> HIDE DEF Spoken, Ordered
    <3> QED BY <2>1, <2>2, <2>3, <3>1
  <2> HIDE DEF Good
  <2> QED BY <2>4
<1>4. ASSUME NEW k \in Nat, k \in S PROVE k + 1 \in S
  <2> SUFFICES ASSUME k + 1 <= n PROVE Good(k + 1)
    OBVIOUS
  <2>1. k + 1 \in 1..n /\ (k + 1) - 1 = k /\ k <= n
    BY <1>1
  <2>2. Good(k)
    <3> HIDE DEF Good
    <3> QED BY <1>4, <2>1
  <2> DEFINE m == msgs[k + 1]
  <2>3. p[k + 1] = AddMessage(p[k], m) /\ m \in Msg
    BY <1>1, <1>2, <2>1
  <2>4. /\ p[k + 1] \in Told /\ Accepted(p[k + 1].contents)
        /\ SpokenBy(m) \in Seq(Pieces) /\ OrderedBy(m) \in Seq(Nat)
        /\ FlattenSeq(Voices(p[k + 1].contents)) = FlattenSeq(Voices(p[k].contents)) \o SpokenBy(m)
        /\ FlattenSeq(p[k + 1].system) = FlattenSeq(p[k].system) \o OrderedBy(m)
    BY <2>2, <2>3, MessageAdds
  <2>6. Spoken(k + 1) = Append(Spoken(k), SpokenBy(m)) /\ Spoken(k + 1) \in Seq(Seq(Pieces))
    <3> DEFINE f == [i \in 1..(k + 1) |-> SpokenBy(msgs[i])]
    <3>1. /\ f[k + 1] = SpokenBy(m) /\ Spoken(k) = [i \in 1..k |-> f[i]]
          /\ Spoken(k + 1) = [i \in 1..(k + 1) |-> f[i]]
      OBVIOUS
    <3>2. Spoken(k) \in Seq(Seq(Pieces))
      BY <2>2
    <3>3. f[k + 1] \in Seq(Pieces)
      BY <2>4, <3>1
    <3> HIDE DEF f, Spoken
    <3>4. /\ [i \in 1..(k + 1) |-> f[i]] = Append(Spoken(k), f[k + 1])
          /\ Append(Spoken(k), f[k + 1]) \in Seq(Seq(Pieces))
      BY <3>1, <3>2, <3>3, TableAppend
    <3> QED BY <3>1, <3>4
  <2>7. Ordered(k + 1) = Append(Ordered(k), OrderedBy(m)) /\ Ordered(k + 1) \in Seq(Seq(Nat))
    <3> DEFINE f == [i \in 1..(k + 1) |-> OrderedBy(msgs[i])]
    <3>1. /\ f[k + 1] = OrderedBy(m) /\ Ordered(k) = [i \in 1..k |-> f[i]]
          /\ Ordered(k + 1) = [i \in 1..(k + 1) |-> f[i]]
      OBVIOUS
    <3>2. Ordered(k) \in Seq(Seq(Nat))
      BY <2>2
    <3>3. f[k + 1] \in Seq(Nat)
      BY <2>4, <3>1
    <3> HIDE DEF f, Ordered
    <3>4. /\ [i \in 1..(k + 1) |-> f[i]] = Append(Ordered(k), f[k + 1])
          /\ Append(Ordered(k), f[k + 1]) \in Seq(Seq(Nat))
      BY <3>1, <3>2, <3>3, TableAppend
    <3> QED BY <3>1, <3>4
  <2>8. FlattenSeq(Spoken(k + 1)) = FlattenSeq(Spoken(k)) \o SpokenBy(m)
    <3>1. Spoken(k) \in Seq(Seq(Pieces))
      BY <2>2
    <3> HIDE DEF Spoken
    <3> QED BY <2>4, <2>6, <3>1, FlattenAppend
  <2>9. FlattenSeq(Ordered(k + 1)) = FlattenSeq(Ordered(k)) \o OrderedBy(m)
    <3>1. Ordered(k) \in Seq(Seq(Nat))
      BY <2>2
    <3> HIDE DEF Ordered
    <3> QED BY <2>4, <2>7, <3>1, FlattenAppend
  <2>10. /\ FlattenSeq(Voices(p[k].contents)) = FlattenSeq(Spoken(k))
         /\ FlattenSeq(p[k].system) = FlattenSeq(Ordered(k))
    BY <2>2
  <2> HIDE DEF Spoken, Ordered, m
  <2> QED BY <2>4, <2>6, <2>7, <2>8, <2>9, <2>10
<1>5. Good(n)
  <2>1. \A k \in Nat : k \in S
    <3> HIDE DEF S
    <3> QED BY <1>3, <1>4, Induction
  <2> HIDE DEF Good
  <2> QED BY <1>1, <2>1
<1> QED BY <1>1, <1>2, <1>5

\* A set of numbers of a sequence has a greatest one.
LEMMA MaxIsGreatest ==
  ASSUME NEW n \in Nat, NEW T \in SUBSET (1..n), T # {}
  PROVE  Max(T) \in T /\ \A y \in T : y <= Max(T)
<1> DEFINE Has(U) == \E m \in U : \A y \in U : m >= y
           S == {k \in Nat : \A U \in SUBSET (1..k) : U # {} => Has(U)}
<1>1. 0 \in S
  <2>1. 1..0 = {}
    OBVIOUS
  <2> HIDE DEF Has
  <2> QED BY <2>1
<1>2. ASSUME NEW k \in Nat, k \in S PROVE k + 1 \in S
  <2> SUFFICES ASSUME NEW U \in SUBSET (1..(k + 1)), U # {} PROVE Has(U)
    OBVIOUS
  <2>1. CASE k + 1 \in U
    BY <2>1
  <2>2. CASE k + 1 \notin U
    <3>1. \A i \in 1..(k + 1) : i # k + 1 => i \in 1..k
      OBVIOUS
    <3>2. U \in SUBSET (1..k)
      BY <2>2, <3>1
    <3> HIDE DEF Has
    <3> QED BY <1>2, <3>2
  <2> QED BY <2>1, <2>2
<1>3. n \in S
  <2> HIDE DEF S
  <2> QED BY <1>1, <1>2, Induction
<1>4. Has(T)
  BY <1>3
<1>5. Max(T) \in T /\ \A y \in T : Max(T) >= y
  BY <1>4 DEF Max
<1>6. \A x \in T : x \in Nat
  OBVIOUS
<1> QED BY <1>5, <1>6

\* w names some of the numbers up to n, in their order.
Picks(w, n) ==
  /\ w \in Seq(Nat)
  /\ \A k \in 1..Len(w) : w[k] \in 1..n
  /\ \A j, k \in 1..Len(w) : j < k => w[j] < w[k]

\* All of A is among what w picks of the numbers up to n, and B is where.
PicksAll(w, n, A, B) ==
  /\ Picks(w, n) /\ A \in SUBSET (1..n) /\ B \in SUBSET (1..Len(w))
  /\ \A i \in A : \E k \in 1..Len(w) : w[k] = i
  /\ \A k \in 1..Len(w) : k \in B <=> w[k] \in A

\* The last place is that of the greatest number.
LastIsLast(w, A, B) ==
  /\ A = {} <=> B = {}
  /\ A # {} => /\ Max(A) \in A /\ \A i \in A : i <= Max(A)
               /\ Max(B) \in 1..Len(w) /\ w[Max(B)] = Max(A)

\* Of the numbers with something to tell, the last one is the last of those picked,
\* when all of them are picked.
LEMMA LastPicked ==
  ASSUME NEW n \in Nat, NEW w, NEW A, NEW B, PicksAll(w, n, A, B)
  PROVE  LastIsLast(w, A, B)
<1>0. /\ Picks(w, n) /\ A \in SUBSET (1..n) /\ B \in SUBSET (1..Len(w))
      /\ \A i \in A : \E k \in 1..Len(w) : w[k] = i
      /\ \A k \in 1..Len(w) : k \in B <=> w[k] \in A
  BY DEF PicksAll
<1> DEFINE N == Len(w)
<1>1. N \in Nat /\ B \in SUBSET (1..N) /\ (A = {} <=> B = {})
  BY <1>0 DEF Picks
<1>2. ASSUME A # {} PROVE /\ Max(A) \in A /\ \A i \in A : i <= Max(A)
                          /\ Max(B) \in 1..N /\ w[Max(B)] = Max(A)
  <2>1. Max(A) \in A /\ \A i \in A : i <= Max(A)
    BY <1>0, <1>2, MaxIsGreatest
  <2>2. Max(B) \in B /\ \A k \in B : k <= Max(B)
    BY <1>1, <1>2, MaxIsGreatest
  <2>3. PICK k \in 1..N : w[k] = Max(A)
    BY <1>0, <2>1
  <2>4. k \in B /\ Max(B) \in 1..N /\ w[Max(B)] \in A
    BY <1>0, <2>1, <2>2, <2>3
  <2>5. k <= Max(B) /\ w[Max(B)] <= w[k]
    BY <1>0, <2>1, <2>2, <2>3, <2>4
  <2>6. k = Max(B)
    <3>1. k < Max(B) => w[k] < w[Max(B)]
      BY <1>0, <2>4 DEF Picks
    <3>2. w[k] \in Nat /\ w[Max(B)] \in Nat /\ k \in Nat /\ Max(B) \in Nat
      <4>1. k \in 1..Len(w) /\ Max(B) \in 1..Len(w) /\ w \in Seq(Nat) /\ Len(w) \in Nat
        BY <1>0, <2>4 DEF Picks
      <4> HIDE DEF N
      <4> QED BY <4>1
    <3> QED BY <2>5, <3>1, <3>2
  <2> QED BY <2>1, <2>3, <2>4, <2>6
<1> QED BY <1>1, <1>2 DEF LastIsLast

\* What is left out of a text has nothing to say.
LEMMA PickedText ==
  ASSUME NEW S, NEW s \in Seq(Seq(S)), NEW w, Picks(w, Len(s)),
         \A i \in 1..Len(s) : s[i] = <<>> \/ \E k \in 1..Len(w) : w[k] = i
  PROVE  FlattenSeq([k \in 1..Len(w) |-> s[w[k]]]) = FlattenSeq(s)
<1> DEFINE Chosen(t, v) == [k \in 1..Len(v) |-> t[v[k]]]
           Covers(t, v) == \A i \in 1..Len(t) : t[i] = <<>> \/ \E k \in 1..Len(v) : v[k] = i
           Same(n) == \A t \in Seq(Seq(S)) : \A v \in Seq(Nat) :
                        Len(t) = n /\ Picks(v, n) /\ Covers(t, v)
                        => FlattenSeq(Chosen(t, v)) = FlattenSeq(t) /\ Chosen(t, v) \in Seq(Seq(S))
           T == {n \in Nat : Same(n)}
<1>1. 0 \in T
  <2> SUFFICES ASSUME NEW t \in Seq(Seq(S)), NEW v \in Seq(Nat), Len(t) = 0, Picks(v, 0)
               PROVE  FlattenSeq(Chosen(t, v)) = FlattenSeq(t) /\ Chosen(t, v) \in Seq(Seq(S))
    OBVIOUS
  <2>1. t = <<>> /\ Len(v) = 0
    BY DEF Picks
  <2>2. Chosen(t, v) = <<>>
    BY <2>1
  <2> HIDE DEF Chosen
  <2> QED BY <2>1, <2>2
<1>2. ASSUME NEW n \in Nat, n \in T PROVE n + 1 \in T
  <2> SUFFICES Same(n + 1)
    <3> HIDE DEF Same
    <3> QED OBVIOUS
  <2> SUFFICES ASSUME NEW t \in Seq(Seq(S)), NEW v \in Seq(Nat), Len(t) = n + 1, Picks(v, n + 1), Covers(t, v)
               PROVE  FlattenSeq(Chosen(t, v)) = FlattenSeq(t) /\ Chosen(t, v) \in Seq(Seq(S))
    OBVIOUS
  <2>1. PICK t0 \in Seq(Seq(S)), x \in Seq(S) : t = Append(t0, x)
    <3>1. t # <<>>
      OBVIOUS
    <3> QED BY <3>1, SequenceEmptyOrAppend
  <2>2. Len(t0) = n /\ t[n + 1] = x /\ \A i \in 1..n : t[i] = t0[i]
    BY <2>1, AppendProperties
  <2>3. FlattenSeq(t) = FlattenSeq(t0) \o x /\ FlattenSeq(t0) \in Seq(S)
    BY <2>1, FlattenAppend
  <2>4. CASE \E k \in 1..Len(v) : v[k] = n + 1
    <3>1. v # <<>>
      BY <2>4
    <3>2. PICK v0 \in Seq(Nat), y \in Nat : v = Append(v0, y)
      BY <3>1, SequenceEmptyOrAppend
    <3> DEFINE m == Len(v0)
    <3>3. m \in Nat /\ Len(v) = m + 1 /\ v[m + 1] = y /\ \A k \in 1..m : v[k] = v0[k]
      BY <3>2, AppendProperties
    <3>4. y = n + 1
      <4>1. PICK k \in 1..(m + 1) : v[k] = n + 1
        BY <2>4, <3>3
      <4>2. CASE k = m + 1
        BY <3>3, <4>1, <4>2
      <4>3. CASE k # m + 1
        <5>1. k < m + 1 /\ m + 1 \in 1..(m + 1)
          <6>1. m \in Nat
            BY <3>3
          <6> HIDE DEF m
          <6> QED BY <4>3, <6>1
        <5>2. v[k] < v[m + 1] /\ v[m + 1] \in 1..(n + 1)
          BY <3>3, <5>1 DEF Picks
        <5> QED BY <4>1, <5>2
      <4> QED BY <4>2, <4>3
    <3>5. \A k \in 1..m : v0[k] \in 1..n /\ v[k] = v0[k]
      <4> TAKE k \in 1..m
      <4>1. k \in 1..(m + 1) /\ m + 1 \in 1..(m + 1) /\ k < m + 1
        <5>1. m \in Nat
          BY <3>3
        <5> HIDE DEF m
        <5> QED BY <5>1
      <4>2. v[k] \in 1..(n + 1) /\ v[k] < v[m + 1]
        BY <3>3, <4>1 DEF Picks
      <4> QED BY <3>3, <3>4, <4>2
    <3>6. Picks(v0, n)
      <4>1. \A j, k \in 1..m : j < k => v0[j] < v0[k]
        <5>1. \A j \in 1..m : j \in 1..(m + 1)
          BY <3>3
        <5> QED BY <3>3, <5>1 DEF Picks
      <4> QED BY <3>5, <4>1 DEF Picks
    <3>7. Covers(t0, v0)
      <4> SUFFICES ASSUME NEW i \in 1..n, t0[i] # <<>> PROVE \E k \in 1..m : v0[k] = i
        BY <2>2
      <4>1. i \in 1..(n + 1) /\ t[i] = t0[i] /\ i # n + 1
        BY <2>2
      <4>2. PICK k \in 1..(m + 1) : v[k] = i
        BY <3>3, <4>1
      <4>3. k \in 1..m
        BY <3>3, <3>4, <4>1, <4>2
      <4> QED BY <3>3, <4>2, <4>3
    <3>8. FlattenSeq(Chosen(t0, v0)) = FlattenSeq(t0) /\ Chosen(t0, v0) \in Seq(Seq(S))
      <4> HIDE DEF Chosen, Covers
      <4> QED BY <1>2, <2>2, <3>6, <3>7
    <3>9. Chosen(t, v) = Append(Chosen(t0, v0), x) /\ Chosen(t, v) \in Seq(Seq(S))
      <4> DEFINE f == [k \in 1..(m + 1) |-> t[v[k]]]
      <4>1. Chosen(t, v) = [k \in 1..(m + 1) |-> f[k]]
        BY <3>3
      <4>2. f[m + 1] = x
        BY <2>2, <3>3, <3>4
      <4>3. \A k \in 1..m : f[k] = t0[v0[k]]
        BY <2>2, <3>3, <3>5
      <4>4. Chosen(t0, v0) = [k \in 1..m |-> f[k]]
        BY <4>3
      <4> HIDE DEF f, Chosen, m
      <4>5. m \in Nat /\ Chosen(t0, v0) \in Seq(Seq(S)) /\ f[m + 1] \in Seq(S)
        BY <2>1, <3>3, <3>8, <4>2
      <4>6. /\ [k \in 1..(m + 1) |-> f[k]] = Append(Chosen(t0, v0), f[m + 1])
            /\ Append(Chosen(t0, v0), f[m + 1]) \in Seq(Seq(S))
        BY <4>4, <4>5, TableAppend
      <4> QED BY <4>1, <4>2, <4>6
    <3>10. FlattenSeq(Append(Chosen(t0, v0), x)) = FlattenSeq(Chosen(t0, v0)) \o x
      <4> HIDE DEF Chosen
      <4> QED BY <3>8, FlattenAppend
    <3> HIDE DEF Chosen
    <3> QED BY <2>3, <3>8, <3>9, <3>10
  <2>5. CASE ~\E k \in 1..Len(v) : v[k] = n + 1
    <3>1. \A k \in 1..Len(v) : v[k] \in 1..n
      BY <2>5 DEF Picks
    <3>2. Picks(v, n)
      BY <3>1 DEF Picks
    <3>3. Covers(t0, v)
      <4> SUFFICES ASSUME NEW i \in 1..n, t0[i] # <<>> PROVE \E k \in 1..Len(v) : v[k] = i
        BY <2>2
      <4>1. i \in 1..(n + 1) /\ t[i] = t0[i]
        BY <2>2
      <4> QED BY <4>1
    <3>4. FlattenSeq(Chosen(t0, v)) = FlattenSeq(t0) /\ Chosen(t0, v) \in Seq(Seq(S))
      <4> HIDE DEF Chosen, Covers
      <4> QED BY <1>2, <2>2, <3>2, <3>3
    <3>5. Chosen(t, v) = Chosen(t0, v)
      BY <2>2, <3>1
    <3>6. x = <<>>
      <4>1. n + 1 \in 1..Len(t)
        OBVIOUS
      <4> QED BY <2>2, <2>5, <4>1
    <3>7. FlattenSeq(t0) \o <<>> = FlattenSeq(t0)
      BY <2>3, ConcatEmptySeq
    <3> HIDE DEF Chosen
    <3> QED BY <2>3, <3>4, <3>5, <3>6, <3>7
  <2> QED BY <2>4, <2>5
<1>3. Len(s) \in T
  <2>1. Len(s) \in Nat
    OBVIOUS
  <2> HIDE DEF T
  <2> QED BY <1>1, <1>2, <2>1, Induction
<1>4. w \in Seq(Nat) /\ Covers(s, w)
  BY DEF Picks
<1>5. FlattenSeq(Chosen(s, w)) = FlattenSeq(s)
  <2> HIDE DEF Chosen, Covers
  <2> QED BY <1>3, <1>4
<1> QED BY <1>5

-----------------------------------------------------------------------------
(* The frames on their way *)

\* The mapper has taken this many frames from the channel.
Taken == readAt - Len(events)

\* What waits in the channel are the last frames that were read.
ReadOK ==
  /\ FramesAreSent(answer)
  /\ readAt \in 0..Len(answer.frames) /\ events \in Seq(Nat) /\ Len(events) <= readAt
  /\ \A k \in 1..Len(events) : events[k] = Taken + k

\* A chunk the client is sent is what the package made of that very frame.
Mapped(x) == x.chunk.kind = "chunk" => x.chunk = MapEvent(x.frame)

\* The mapper holds frame i for the writer.
Offered(i) == mapper.kind = "offer" /\ mapper.item.frame = i

\* What the mapper took is written, on offer or was skipped.
TakenOK ==
  /\ \E S : written \in Seq(S)
  /\ \A k \in 1..Len(written) : written[k].frame \in 1..Taken /\ Mapped(written[k])
  /\ \A j, k \in 1..Len(written) : j < k => written[j].frame < written[k].frame
  /\ mapper.kind = "offer" =>
       /\ mapper.item.frame \in 1..Taken /\ Mapped(mapper.item)
       /\ \A k \in 1..Len(written) : written[k].frame < mapper.item.frame
  /\ \A i \in 1..Taken : \/ MapEvent(i).kind = "skip" \/ Offered(i)
                         \/ \E k \in 1..Len(written) : written[k].frame = i

\* Before there is an answer there is nothing of it.
EarlyOK ==
  /\ phase \in {"build", "call"} => answer = NoAnswer
  /\ phase \in {"build", "call", "answered"} => written = <<>> /\ mapper.kind = "idle"

\* The inductive invariant of the frames.
PipeInv == ReadOK /\ TakenOK /\ EarlyOK

\* Nothing is on its way at the start.
LEMMA PipeInit == Init => PipeInv
<1> SUFFICES ASSUME Init PROVE PipeInv
  OBVIOUS
<1>1. /\ answer = NoAnswer /\ phase = "build" /\ readAt = 0 /\ events = <<>>
      /\ mapper = [kind |-> "idle"] /\ written = <<>>
  BY DEF Init
<1>2. answer.frames = <<>> /\ Len(answer.frames) = 0 /\ DOMAIN answer.frames = 1..0
  BY <1>1 DEF NoAnswer
<1>3. Len(events) = 0 /\ Len(written) = 0 /\ events \in Seq(Nat) /\ written \in Seq(Nat)
  BY <1>1, EmptySeq
<1>7. Taken = 0
  <2>1. Taken = 0 - 0
    BY <1>1, <1>3 DEF Taken
  <2> QED BY <2>1
<1>4. ReadOK
  BY <1>1, <1>2, <1>3, <1>7 DEF ReadOK, FramesAreSent
<1>5. TakenOK
  BY <1>1, <1>3, <1>7 DEF TakenOK
<1> QED BY <1>1, <1>4, <1>5 DEF PipeInv, EarlyOK

\* A step that moves no frame.
LEMMA NothingMoves ==
  ASSUME PipeInv, UNCHANGED <<entry, answer, readAt, events, mapper, written>>,
         phase' = phase \/ phase' \in {"done", "streaming"} \/ (phase = "build" /\ phase' = "call")
  PROVE  PipeInv'
<1>1. Taken' = Taken /\ \A i : MapEvent(i)' = MapEvent(i)
  BY DEF Taken, MapEvent
<1>2. ReadOK'
  BY <1>1 DEF PipeInv, ReadOK, FramesAreSent
<1>3. TakenOK'
  BY <1>1 DEF PipeInv, TakenOK, Mapped, Offered
<1> QED BY <1>2, <1>3 DEF PipeInv, EarlyOK

\* The answer is there and nothing of it was read.
LEMMA RoundTripKeeps == PipeInv /\ RoundTrip => PipeInv'
<1> SUFFICES ASSUME PipeInv, RoundTrip PROVE PipeInv'
  OBVIOUS
<1>1. /\ answer = NoAnswer /\ written = <<>> /\ mapper.kind = "idle"
      /\ UNCHANGED <<readAt, events, mapper, written>>
  BY DEF PipeInv, EarlyOK, RoundTrip
<1>2. Len(answer.frames) = 0
  BY <1>1 DEF NoAnswer
<1>3. readAt = 0 /\ Len(events) = 0 /\ events \in Seq(Nat) /\ Taken = 0
  BY <1>2 DEF PipeInv, ReadOK, Taken
<1>4. Len(written) = 0 /\ written \in Seq(Nat) /\ Taken' = 0
  BY <1>1, <1>3 DEF Taken
<1>5. FramesAreSent(answer') /\ phase' \in {"done", "answered"}
  BY AnswersAssumption DEF RoundTrip, Finished, PipeInv, ReadOK
<1>6. ReadOK'
  BY <1>1, <1>3, <1>4, <1>5 DEF ReadOK, FramesAreSent
<1>7. TakenOK'
  BY <1>1, <1>4 DEF TakenOK
<1> QED BY <1>1, <1>5, <1>6, <1>7 DEF PipeInv, EarlyOK

\* One more frame waits in the channel.
LEMMA ScanKeeps == PipeInv /\ ScanFrame => PipeInv'
<1> SUFFICES ASSUME PipeInv, ScanFrame PROVE PipeInv'
  OBVIOUS
<1>1. /\ UNCHANGED <<entry, answer, phase, mapper, written>> /\ readAt < Len(answer.frames)
      /\ readAt' = readAt + 1 /\ events' = Append(events, readAt + 1)
  BY DEF ScanFrame
<1>2. /\ readAt \in Nat /\ events \in Seq(Nat) /\ Len(answer.frames) \in Nat /\ FramesAreSent(answer)
      /\ readAt <= Len(answer.frames) /\ Len(events) <= readAt
      /\ \A k \in 1..Len(events) : events[k] = Taken + k
  BY DEF PipeInv, ReadOK, FramesAreSent
<1>3. /\ events' \in Seq(Nat) /\ Len(events') = Len(events) + 1 /\ events'[Len(events) + 1] = readAt + 1
      /\ \A k \in 1..Len(events) : events'[k] = events[k]
  BY <1>1, <1>2, AppendProperties
<1>4. Taken' = Taken /\ Len(events) \in Nat /\ Taken \in Nat /\ Taken + Len(events) = readAt
  BY <1>1, <1>2, <1>3 DEF Taken
<1>5. ReadOK'
  <2>1. ASSUME NEW k \in 1..Len(events') PROVE events'[k] = Taken' + k
    <3>1. CASE k = Len(events) + 1
      BY <3>1, <1>2, <1>3, <1>4
    <3>2. CASE k \in 1..Len(events)
      BY <3>2, <1>2, <1>3, <1>4
    <3> QED BY <3>1, <3>2, <1>3, <1>4
  <2>2. readAt' \in 0..Len(answer'.frames) /\ Len(events') <= readAt'
    BY <1>1, <1>2, <1>3
  <2>3. FramesAreSent(answer')
    BY <1>1, <1>2
  <2> QED BY <1>3, <2>1, <2>2, <2>3 DEF ReadOK, FramesAreSent
<1>6. \A i : MapEvent(i)' = MapEvent(i)
  BY <1>1 DEF MapEvent
<1>7. TakenOK'
  BY <1>1, <1>4, <1>6 DEF PipeInv, TakenOK, Mapped, Offered
<1> QED BY <1>1, <1>5, <1>7 DEF PipeInv, EarlyOK

\* The mapper takes the first frame that waits.
LEMMA MapKeeps == PipeInv /\ MapFrame => PipeInv'
<1> SUFFICES ASSUME PipeInv, MapFrame PROVE PipeInv'
  OBVIOUS
<1> DEFINE i == Head(events)
<1>1. /\ UNCHANGED <<entry, answer, phase, readAt, written>> /\ phase = "streaming" /\ mapper.kind = "idle"
      /\ events # <<>> /\ events' = Tail(events)
      /\ \/ MapEvent(i).kind = "skip" /\ mapper' = mapper
         \/ mapper' = [kind |-> "offer", item |-> Item(i, TRUE, [kind |-> "throws"], <<>>)]
         \/ \E done \in [1..Filters -> {"same", "changed", "error"}] :
              mapper' = [kind |-> "offer", item |-> Filtered(i, MapEvent(i), done)]
  BY DEF MapFrame
<1>2. /\ readAt \in Nat /\ events \in Seq(Nat) /\ FramesAreSent(answer) /\ readAt \in 0..Len(answer.frames)
      /\ Len(events) <= readAt /\ \A k \in 1..Len(events) : events[k] = Taken + k
  BY DEF PipeInv, ReadOK, FramesAreSent
<1>3. /\ events' \in Seq(Nat) /\ Len(events') = Len(events) - 1 /\ i = events[1] /\ Len(events) \in Nat \ {0}
      /\ \A k \in 1..Len(events') : events'[k] = events[k + 1]
  BY <1>1, <1>2, HeadTailProperties
<1>4. Taken \in Nat /\ Taken' = Taken + 1 /\ i = Taken + 1 /\ Taken + Len(events) = readAt
  BY <1>1, <1>2, <1>3 DEF Taken
<1> HIDE DEF i
<1>5. ReadOK'
  <2>1. ASSUME NEW k \in 1..Len(events') PROVE events'[k] = Taken' + k
    BY <1>2, <1>3, <1>4
  <2>2. readAt' \in 0..Len(answer'.frames) /\ Len(events') <= readAt'
    BY <1>1, <1>2, <1>3
  <2>3. FramesAreSent(answer')
    BY <1>1, <1>2
  <2> QED BY <1>3, <2>1, <2>2, <2>3 DEF ReadOK, FramesAreSent
<1>6. \A n : MapEvent(n)' = MapEvent(n)
  BY <1>1 DEF MapEvent
<1>7. (MapEvent(i).kind = "skip" /\ mapper'.kind = "idle")
      \/ (mapper'.kind = "offer" /\ mapper'.item.frame = i
          /\ (mapper'.item.chunk.kind = "chunk" => mapper'.item.chunk = MapEvent(i)))
  <2>1. ASSUME NEW done
        PROVE  /\ Filtered(i, MapEvent(i), done).frame = i
               /\ Filtered(i, MapEvent(i), done).chunk = MapEvent(i)
    BY DEF Filtered, Item
  <2> QED BY <1>1, <2>1 DEF Item
<1>8. TakenOK'
  <2>1. /\ \E S : written \in Seq(S)
        /\ \A k \in 1..Len(written) : written[k].frame \in 1..Taken /\ Mapped(written[k])
        /\ \A j, k \in 1..Len(written) : j < k => written[j].frame < written[k].frame
        /\ \A n \in 1..Taken : MapEvent(n).kind = "skip" \/ \E k \in 1..Len(written) : written[k].frame = n
    BY <1>1 DEF PipeInv, TakenOK, Offered
  <2>2. \A k \in 1..Len(written) : written[k].frame < i /\ written[k].frame \in 1..(Taken + 1)
    BY <2>1, <1>4
  <2>3. \A x : Mapped(x)' <=> (x.chunk.kind = "chunk" => x.chunk = MapEvent(x.frame))
    BY <1>6 DEF Mapped
  <2>4. \A k \in 1..Len(written) : Mapped(written[k])'
    BY <2>1, <1>1, <1>6 DEF Mapped
  <2>5. mapper'.kind = "offer" => mapper'.item.frame = i /\ i \in 1..(Taken + 1) /\ Mapped(mapper.item)'
    BY <1>4, <1>6, <1>7 DEF Mapped
  <2>6. ASSUME NEW n \in 1..(Taken + 1)
        PROVE  MapEvent(n)'.kind = "skip" \/ Offered(n)' \/ \E k \in 1..Len(written) : written[k].frame = n
    <3>1. CASE n = i
      BY <3>1, <1>6, <1>7 DEF Offered
    <3>2. CASE n # i
      <4>1. n \in 1..Taken
        BY <3>2, <1>4
      <4> QED BY <4>1, <2>1, <1>6
    <3> QED BY <3>1, <3>2
  <2> QED BY <1>1, <1>4, <2>1, <2>2, <2>4, <2>5, <2>6 DEF TakenOK
<1> QED BY <1>1, <1>5, <1>8 DEF PipeInv, EarlyOK

\* The mapper ends with nothing on offer.
LEMMA EndMapperKeeps == PipeInv /\ EndMapper => PipeInv'
<1> SUFFICES ASSUME PipeInv, EndMapper PROVE PipeInv'
  OBVIOUS
<1>1. /\ UNCHANGED <<entry, answer, phase, readAt, events, written>> /\ phase = "streaming"
      /\ mapper.kind = "idle" /\ mapper'.kind = "ended"
  BY DEF EndMapper
<1>2. Taken' = Taken /\ \A i : MapEvent(i)' = MapEvent(i)
  BY <1>1 DEF Taken, MapEvent
<1>3. ReadOK'
  BY <1>1, <1>2 DEF PipeInv, ReadOK, FramesAreSent
<1>4. TakenOK'
  BY <1>1, <1>2 DEF PipeInv, TakenOK, Mapped, Offered
<1> QED BY <1>1, <1>3, <1>4 DEF PipeInv, EarlyOK

\* What was on offer is the last that is written.
LEMMA WriteKeeps == PipeInv /\ WriteItem => PipeInv'
<1> SUFFICES ASSUME PipeInv, WriteItem PROVE PipeInv'
  OBVIOUS
<1> DEFINE x == mapper.item
           n == Len(written)
<1>1. /\ UNCHANGED <<entry, answer, phase, readAt, events>> /\ phase = "streaming" /\ mapper.kind = "offer"
      /\ written' = Append(written, x) /\ mapper'.kind = "idle"
  BY DEF WriteItem
<1>2. PICK S : written \in Seq(S)
  BY DEF PipeInv, TakenOK
<1>3. n \in Nat /\ written \in Seq(S \cup {x}) /\ x \in S \cup {x}
  BY <1>2
<1>4. /\ written' \in Seq(S \cup {x}) /\ Len(written') = n + 1 /\ written'[n + 1] = x
      /\ \A k \in 1..n : written'[k] = written[k]
  BY <1>1, <1>3, AppendProperties
<1>5. Taken' = Taken /\ \A i : MapEvent(i)' = MapEvent(i)
  BY <1>1 DEF Taken, MapEvent
<1>6. ReadOK'
  BY <1>1, <1>5 DEF PipeInv, ReadOK, FramesAreSent
<1>7. /\ \A k \in 1..n : written[k].frame \in 1..Taken /\ Mapped(written[k]) /\ written[k].frame < x.frame
      /\ \A j, k \in 1..n : j < k => written[j].frame < written[k].frame
      /\ x.frame \in 1..Taken /\ Mapped(x)
      /\ \A i \in 1..Taken : MapEvent(i).kind = "skip" \/ x.frame = i \/ \E k \in 1..n : written[k].frame = i
  BY <1>1 DEF PipeInv, TakenOK, Offered
<1> HIDE DEF x, n
<1>8. TakenOK'
  <2>1. ASSUME NEW k \in 1..(n + 1) PROVE written'[k].frame \in 1..Taken /\ Mapped(written[k])'
    <3>1. CASE k = n + 1
      BY <3>1, <1>4, <1>5, <1>7 DEF Mapped
    <3>2. CASE k \in 1..n
      BY <3>2, <1>4, <1>5, <1>7 DEF Mapped
    <3> QED BY <3>1, <3>2, <1>3
  <2>2. ASSUME NEW j \in 1..(n + 1), NEW k \in 1..(n + 1), j < k PROVE written'[j].frame < written'[k].frame
    <3>1. j \in 1..n
      BY <2>2, <1>3
    <3>2. CASE k = n + 1
      BY <3>1, <3>2, <1>4, <1>7
    <3>3. CASE k \in 1..n
      BY <2>2, <3>1, <3>3, <1>4, <1>7
    <3> QED BY <3>2, <3>3, <1>3
  <2>3. ASSUME NEW i \in 1..Taken
        PROVE  MapEvent(i)'.kind = "skip" \/ \E k \in 1..(n + 1) : written'[k].frame = i
    <3>1. CASE x.frame = i
      <4>1. n + 1 \in 1..(n + 1) /\ written'[n + 1].frame = i
        BY <3>1, <1>3, <1>4
      <4> QED BY <4>1
    <3>2. ASSUME NEW k \in 1..n, written[k].frame = i PROVE \E m \in 1..(n + 1) : written'[m].frame = i
      <4>1. k \in 1..(n + 1) /\ written'[k].frame = i
        BY <3>2, <1>3, <1>4
      <4> QED BY <4>1
    <3>3. MapEvent(i).kind = "skip" => MapEvent(i)'.kind = "skip"
      BY <1>5
    <3> QED BY <1>7, <3>1, <3>2, <3>3
  <2> QED BY <1>1, <1>4, <1>5, <2>1, <2>2, <2>3 DEF TakenOK
<1> QED BY <1>1, <1>6, <1>8 DEF PipeInv, EarlyOK

\* The invariant is inductive.
LEMMA PipeKept == PipeInv /\ [Next]_vars => PipeInv'
<1> SUFFICES ASSUME PipeInv, [Next]_vars PROVE PipeInv'
  OBVIOUS
<1>1. CASE \/ Refuse
           \/ BuildFails \/ Build \/ Terminal \/ Whole \/ StartStream \/ EndReader \/ EndStream
           \/ ClientLeaves
  BY <1>1, NothingMoves DEF Refuse, BuildFails, Build, Terminal, Whole, StartStream, EndReader, EndStream,
     ClientLeaves, Guarded,
     Finished, streamVars
<1>2. CASE UNCHANGED vars
  BY <1>2, NothingMoves DEF vars, streamVars
<1> QED BY <1>1, <1>2, RoundTripKeeps, ScanKeeps, MapKeeps, EndMapperKeeps, WriteKeeps DEF Next, Run, Reader,
   Mapper, Writer

\* A chunk of gemini has the usage of its frame.
LEMMA UsageOfGemini ==
  ASSUME NEW f, NEW i, MapGemini(i, f).kind = "chunk" PROVE MapGemini(i, f).usage = UsageOf(f.usage)
BY DEF MapGemini

\* Theorem of UsageAddsUp (usageOf of gemini/protocol.js): whatever was reported for a
\* frame, the total a client is told is that of prompt and completion.
THEOREM UsageIsTold == Spec => []UsageAddsUp
<1>1. PipeInv => UsageAddsUp
  <2> SUFFICES ASSUME PipeInv, NEW k \in DOMAIN written, written[k].chunk.kind = "chunk",
                      entry.protocol = "gemini", written[k].chunk.usage # <<>>,
                      LET g == answer.frames[written[k].frame].usage
                      IN  g[1].total = g[1].prompt + g[1].candidates + g[1].thoughts
               PROVE  LET told == written[k].chunk.usage IN told[1].total = told[1].prompt + told[1].completion
    BY DEF UsageAddsUp
  <2> DEFINE x == written[k]
             u == answer.frames[x.frame].usage
  <2>1. k \in 1..Len(written)
    <3>1. PICK S : written \in Seq(S)
      BY DEF PipeInv, TakenOK
    <3> QED BY <3>1
  <2>2. x.frame \in 1..Taken /\ x.chunk = MapEvent(x.frame)
    BY <2>1 DEF PipeInv, TakenOK, Mapped
  <2>3. x.chunk.usage = UsageOf(u)
    BY <2>2, UsageOfGemini DEF MapEvent
  <2>4. x.frame \in 1..Len(answer.frames)
    BY <2>2 DEF PipeInv, ReadOK, FramesAreSent, Taken
  <2>5. u = <<>> \/ (u[1].prompt \in Nat /\ u[1].candidates \in Nat /\ u[1].thoughts \in Nat)
    BY <2>4 DEF PipeInv, ReadOK, FramesAreSent
  <2>6. /\ u # <<>>
        /\ x.chunk.usage = <<[prompt |-> u[1].prompt, completion |-> u[1].candidates + u[1].thoughts,
                              total |-> u[1].total]>>
    BY <2>3 DEF UsageOf
  <2> HIDE DEF u
  <2>7. /\ x.chunk.usage[1].total = u[1].total /\ x.chunk.usage[1].prompt = u[1].prompt
        /\ x.chunk.usage[1].completion = u[1].candidates + u[1].thoughts
    BY <2>6
  <2>8. u[1].total = u[1].prompt + u[1].candidates + u[1].thoughts
    BY DEF u
  <2> QED BY <2>5, <2>6, <2>7, <2>8
<1> QED BY <1>1, PipeInit, PipeKept, PTL DEF Spec

\* Theorem of NoFrameLost (frameSSE, mapResponse, writeStream): the frames that were
\* sent, are on offer or wait are in the order in which they were read, each once, and
\* of those read only skipped ones are missing.
THEOREM FramesArriveInOrder == Spec => []NoFrameLost
<1>1. PipeInv => NoFrameLost
  <2> SUFFICES ASSUME PipeInv PROVE NoFrameLost
    OBVIOUS
  <2> DEFINE n == Len(written)
             w == [k \in DOMAIN written |-> written[k].frame]
             h == IF mapper.kind = "offer" THEN <<mapper.item.frame>> ELSE <<>>
             l == w \o h \o events
  <2>1. n \in Nat /\ DOMAIN written = 1..n
    <3>1. PICK S : written \in Seq(S)
      BY DEF PipeInv, TakenOK
    <3> QED BY <3>1
  <2>2. /\ readAt \in Nat /\ events \in Seq(Nat) /\ Len(events) \in Nat /\ Len(events) <= readAt
        /\ \A k \in 1..Len(events) : events[k] = Taken + k
    BY DEF PipeInv, ReadOK, FramesAreSent
  <2>3. Taken \in Nat /\ Taken + Len(events) = readAt
    BY <2>2 DEF Taken
  <2>4. /\ \A k \in 1..n : written[k].frame \in 1..Taken
        /\ \A j, k \in 1..n : j < k => written[j].frame < written[k].frame
        /\ mapper.kind = "offer" =>
             mapper.item.frame \in 1..Taken /\ \A k \in 1..n : written[k].frame < mapper.item.frame
        /\ \A i \in 1..Taken : MapEvent(i).kind = "skip" \/ Offered(i) \/ \E k \in 1..n : written[k].frame = i
    BY DEF PipeInv, TakenOK
  <2>5. w \in Seq(Nat) /\ Len(w) = n /\ \A k \in 1..n : w[k] = written[k].frame
    BY <2>1, <2>3, <2>4
  <2>6. /\ h \in Seq(Nat) /\ Len(h) \in {0, 1} /\ (mapper.kind = "offer" <=> Len(h) = 1)
        /\ (mapper.kind = "offer" => h[1] = mapper.item.frame)
    BY <2>3, <2>4
  <2>7. OnTheirWay = l
    BY DEF OnTheirWay
  <2> DEFINE m == n + Len(h)
  <2>8. /\ w \o h \in Seq(Nat) /\ Len(w \o h) = m
        /\ \A k \in 1..m : (w \o h)[k] = IF k <= n THEN w[k] ELSE h[k - n]
    <3> HIDE DEF w, h
    <3>0. w \in Seq(Nat) /\ h \in Seq(Nat)
      BY <2>5, <2>6
    <3>1. /\ w \o h \in Seq(Nat) /\ Len(w \o h) = Len(w) + Len(h)
          /\ \A k \in 1..(Len(w) + Len(h)) : (w \o h)[k] = IF k <= Len(w) THEN w[k] ELSE h[k - Len(w)]
      BY <3>0, ConcatProperties
    <3> QED BY <3>1, <2>5
  <2>10. m \in Nat /\ n <= m /\ m <= n + 1 /\ (m = n + 1 <=> mapper.kind = "offer")
    <3> HIDE DEF h
    <3>1. ASSUME NEW d \in {0, 1}
          PROVE  /\ n + d \in Nat
                 /\ n <= n + d
                 /\ n + d <= n + 1
                 /\ (n + d = n + 1 <=> d = 1)
      BY <2>1
    <3> QED BY <3>1, <2>6
  <2>9. /\ l \in Seq(Nat) /\ Len(l) = m + Len(events)
        /\ \A k \in 1..(m + Len(events)) : l[k] = IF k <= m THEN (w \o h)[k] ELSE events[k - m]
    <3> HIDE DEF w, h
    <3> DEFINE c == w \o h
    <3>0. c \in Seq(Nat) /\ events \in Seq(Nat) /\ Len(c) = m
      BY <2>2, <2>8
    <3> HIDE DEF c, m
    <3>1. /\ c \o events \in Seq(Nat) /\ Len(c \o events) = Len(c) + Len(events)
          /\ \A k \in 1..(Len(c) + Len(events)) :
               (c \o events)[k] = IF k <= Len(c) THEN c[k] ELSE events[k - Len(c)]
      BY <3>0, ConcatProperties
    <3>2. l = c \o events
      BY DEF l, c
    <3> QED BY <3>0, <3>1, <3>2 DEF c
  <2> HIDE DEF w, h
  <2> HIDE DEF l, m
  <2>11. /\ \A k \in 1..n : k <= m /\ k \in 1..(m + Len(events)) /\ l[k] = written[k].frame
         /\ mapper.kind = "offer" => n + 1 \in 1..(m + Len(events)) /\ l[n + 1] = mapper.item.frame
         /\ \A k \in 1..Len(events) : m + k \in 1..(m + Len(events)) /\ l[m + k] = Taken + k
    <3>1. ASSUME NEW k \in 1..n PROVE k <= m /\ k \in 1..(m + Len(events)) /\ l[k] = written[k].frame
      <4>1. k <= m /\ k \in 1..m /\ k \in 1..(m + Len(events)) /\ k <= n
        BY <2>1, <2>2, <2>10
      <4>2. l[k] = (w \o h)[k] /\ (w \o h)[k] = w[k]
        BY <4>1, <2>8, <2>9
      <4> QED BY <4>1, <4>2, <2>5
    <3>2. ASSUME mapper.kind = "offer" PROVE n + 1 \in 1..(m + Len(events)) /\ l[n + 1] = mapper.item.frame
      <4>1. n + 1 <= m /\ n + 1 \in 1..m /\ n + 1 \in 1..(m + Len(events)) /\ ~(n + 1 <= n) /\ (n + 1) - n = 1
        BY <3>2, <2>1, <2>2, <2>10
      <4>2. l[n + 1] = (w \o h)[n + 1] /\ (w \o h)[n + 1] = h[1]
        BY <4>1, <2>8, <2>9
      <4> QED BY <3>2, <4>1, <4>2, <2>6
    <3>3. ASSUME NEW k \in 1..Len(events) PROVE m + k \in 1..(m + Len(events)) /\ l[m + k] = Taken + k
      <4>1. m + k \in 1..(m + Len(events)) /\ ~(m + k <= m) /\ (m + k) - m = k
        BY <2>2, <2>10
      <4> QED BY <4>1, <2>2, <2>9
    <3> QED BY <3>1, <3>2, <3>3
  <2>12. DOMAIN l = 1..(m + Len(events))
    BY <2>9
  \* A place in the line.
  <2>13. ASSUME NEW k \in 1..(m + Len(events))
         PROVE  \/ k \in 1..n
                \/ mapper.kind = "offer" /\ k = n + 1 /\ m = n + 1
                \/ k > m /\ k - m \in 1..Len(events) /\ l[k] = Taken + (k - m)
    <3>1. k > m => k - m \in 1..Len(events) /\ m + (k - m) = k
      BY <2>2, <2>10
    <3> QED BY <3>1, <2>1, <2>2, <2>10, <2>11
  <2>14. ASSUME NEW k \in 1..(m + Len(events))
         PROVE  l[k] \in 1..readAt /\ (k <= m => l[k] \in 1..Taken)
    <3>1. CASE k \in 1..n
      <4>1. l[k] = written[k].frame /\ written[k].frame \in 1..Taken
        BY <3>1, <2>4, <2>11
      <4> QED BY <4>1, <2>2, <2>3
    <3>2. CASE mapper.kind = "offer" /\ k = n + 1 /\ m = n + 1
      BY <3>2, <2>2, <2>3, <2>4, <2>11
    <3>3. CASE k > m /\ k - m \in 1..Len(events) /\ l[k] = Taken + (k - m)
      BY <3>3, <2>2, <2>3, <2>10
    <3> QED BY <2>13, <3>1, <3>2, <3>3
  <2>15. ASSUME NEW j \in 1..(m + Len(events)), NEW k \in 1..(m + Len(events)), j < k
         PROVE  l[j] < l[k]
    <3>1. CASE k > m /\ j > m
      BY <2>15, <3>1, <2>3, <2>10, <2>13
    <3>2. CASE k > m /\ ~(j > m)
      BY <3>2, <2>3, <2>10, <2>13, <2>14
    <3>3. CASE ~(k > m)
      <4>1. j \in 1..n
        BY <2>15, <3>3, <2>1, <2>10
      <4> QED BY <2>15, <3>3, <4>1, <2>4, <2>10, <2>11, <2>13
    <3> QED BY <3>1, <3>2, <3>3
  <2>16. ASSUME NEW i \in 1..readAt, \A k \in DOMAIN l : l[k] # i PROVE MapEvent(i).kind = "skip"
    <3>1. CASE i \in 1..Taken
      BY <3>1, <2>4, <2>11, <2>12, <2>16 DEF Offered
    <3>2. CASE ~(i \in 1..Taken)
      <4>1. i - Taken \in 1..Len(events) /\ Taken + (i - Taken) = i
        BY <3>2, <2>2, <2>3
      <4> QED BY <4>1, <2>11, <2>12, <2>16
    <3> QED BY <3>1, <3>2
  <2>17. Range(l) = {l[k] : k \in DOMAIN l}
    BY DEF Range
  <2> QED BY <2>7, <2>12, <2>14, <2>15, <2>16, <2>17 DEF NoFrameLost
<1> QED BY <1>1, PipeInit, PipeKept, PTL DEF Spec

-----------------------------------------------------------------------------
(* What is asked *)

\* What is asked is the translation of the client's messages.
AskOK ==
  /\ phase = "build" => entry.messages \in Seq(Msg)
  /\ sent.kind = "gemini" =>
       /\ sent.body = Translated(entry.messages) /\ sent.body.contents # <<>>
       /\ entry.messages \in Seq(Msg)

\* Nothing is asked at the start.
LEMMA AskInit == Init => AskOK
BY EntriesAssumption DEF Init, AskOK, Nothing, MessagesAreGiven, Msg

\* Only Build makes a request, and the round trip ends it.
LEMMA AskKept == ASSUME AskOK, [Next]_vars PROVE AskOK'
<1>1. CASE Build
  <2>1. UNCHANGED entry /\ phase = "build" /\ phase' = "call"
    BY <1>1 DEF Build, Guarded
  <2>2. CASE /\ Translated(entry.messages).contents # <<>>
             /\ sent' = [kind |-> "gemini", body |-> Translated(entry.messages)]
    BY <2>1, <2>2 DEF AskOK
  <2>3. CASE sent' = [kind |-> "anthropic", body |-> entry.messages]
    BY <2>1, <2>3 DEF AskOK
  <2> QED BY <1>1, <2>2, <2>3 DEF Build
<1>2. CASE RoundTrip
  BY <1>2 DEF RoundTrip, AskOK, Nothing, Finished
<1>3. CASE UNCHANGED <<entry, sent>> /\ (phase' = "build" => phase = "build")
  BY <1>3 DEF AskOK
<1> QED BY <1>1, <1>2, <1>3 DEF Next, Run, Reader, Mapper, Writer, Refuse, BuildFails, Terminal, Whole,
   StartStream, ScanFrame,
       EndReader, MapFrame, EndMapper, WriteItem, EndStream, ClientLeaves, Finished, vars, streamVars

\* Theorem of RequestIsFaithful (buildRequest of gemini/protocol.js): the request gemini
\* gets is one it accepts, and says what the client said, in its order, by its speakers.
THEOREM RequestSaysAll == Spec => []RequestIsFaithful
<1>1. AskOK => RequestIsFaithful
  <2> SUFFICES ASSUME AskOK, sent.kind = "gemini"
               PROVE  LET turns == sent.body.contents
                          msgs == entry.messages
                      IN  /\ turns # <<>>
                          /\ \A i \in 2..Len(turns) : turns[i].role # turns[i - 1].role
                          /\ \A i \in DOMAIN turns : turns[i].parts # <<>> /\ <<>> \notin Range(turns[i].parts)
                          /\ FlattenSeq([i \in DOMAIN turns |-> Said(turns[i].role, FlattenSeq(turns[i].parts))])
                               = FlattenSeq([i \in DOMAIN msgs |-> SpokenBy(msgs[i])])
                          /\ FlattenSeq(sent.body.system) = FlattenSeq([i \in DOMAIN msgs |-> OrderedBy(msgs[i])])
    BY DEF RequestIsFaithful
  <2>1. sent.body = Translated(entry.messages) /\ sent.body.contents # <<>> /\ entry.messages \in Seq(Msg)
    BY DEF AskOK
  <2>2. /\ Accepted(sent.body.contents)
        /\ FlattenSeq(Voices(sent.body.contents))
             = FlattenSeq([i \in DOMAIN entry.messages |-> SpokenBy(entry.messages[i])])
        /\ FlattenSeq(sent.body.system)
             = FlattenSeq([i \in DOMAIN entry.messages |-> OrderedBy(entry.messages[i])])
    BY <2>1, TranslationIsFaithful
  <2> QED BY <2>1, <2>2 DEF Accepted, Voices
<1> QED BY <1>1, AskInit, AskKept, PTL DEF Spec

-----------------------------------------------------------------------------
(* The end of a stream *)

\* A goroutine ends with its work done, unless the client left.
EndOK ==
  /\ BlockIsLast(answer)
  /\ phase \in {"build", "call"} => reader = "none"
  /\ \A k \in 1..Len(written) : ~written[k].raw => written[k].chunk.kind = "chunk"
  /\ mapper.kind = "offer" /\ ~mapper.item.raw => mapper.item.chunk.kind = "chunk"
  /\ reader = "ended" /\ ~gone => readAt = Len(answer.frames)
  /\ mapper.kind = "ended" => events = <<>> /\ reader = "ended"
  /\ reply.kind = "flushed" => mapper.kind = "ended" /\ phase = "done"

\* Nothing has ended at the start.
LEMMA EndInit == Init => EndOK
<1> SUFFICES ASSUME Init PROVE EndOK
  OBVIOUS
<1>1. /\ answer = NoAnswer /\ answer.frames = <<>> /\ written = <<>> /\ reader = "none"
      /\ mapper.kind = "idle" /\ reply.kind = "nothing"
  BY DEF Init, NoAnswer, Nothing
<1>2. Len(answer.frames) = 0 /\ Len(written) = 0
  BY <1>1
<1> QED BY <1>1, <1>2 DEF EndOK, BlockIsLast

\* It is inductive, with the invariant of the frames.
LEMMA EndKept == ASSUME PipeInv, EndOK, [Next]_vars PROVE EndOK'
<1>1. CASE RoundTrip
  <2>1. /\ phase = "call" /\ UNCHANGED <<readAt, events, mapper, written, gone>> /\ reader = "none"
        /\ reply.kind # "flushed"
    BY <1>1 DEF RoundTrip, EndOK
  <2>2. CASE Finished([kind |-> "failed"]) /\ UNCHANGED <<answer, reader>>
    BY <2>1, <2>2 DEF EndOK, BlockIsLast, Finished
  <2>3. CASE /\ answer' \in Answers /\ reader' = (IF answer'.sse THEN "reading" ELSE "none")
             /\ phase' = "answered" /\ UNCHANGED reply
    <3>1. BlockIsLast(answer')
      BY <2>3, AnswersAssumption
    <3>2. BlockIsLast(answer)'
      BY <3>1 DEF BlockIsLast
    <3>3. reader' # "ended" /\ mapper.kind # "ended"
      BY <2>1, <2>3 DEF EndOK
    <3> QED BY <2>1, <2>3, <3>2, <3>3 DEF EndOK
  <2> QED BY <1>1, <2>2, <2>3 DEF RoundTrip
<1>2. CASE EndReader
  BY <1>2 DEF EndReader, EndOK, BlockIsLast
<1>3. CASE ScanFrame
  BY <1>3 DEF ScanFrame, EndOK, BlockIsLast
<1>4. CASE MapFrame
  <2>1. /\ UNCHANGED <<entry, answer, phase, reply, reader, readAt, written, gone>>
        /\ mapper.kind = "idle" /\ phase = "streaming"
    BY <1>4 DEF MapFrame
  <2>2. \/ mapper' = mapper
        \/ mapper'.kind = "offer" /\ (~mapper'.item.raw => mapper'.item.chunk.kind = "chunk")
    <3> DEFINE i == Head(events)
    <3>1. \/ mapper' = mapper
          \/ mapper' = [kind |-> "offer", item |-> Item(i, TRUE, [kind |-> "throws"], <<>>)]
          \/ /\ MapEvent(i).kind = "chunk"
             /\ \E done \in [1..Filters -> {"same", "changed", "error"}] :
                  mapper' = [kind |-> "offer", item |-> Filtered(i, MapEvent(i), done)]
      BY <1>4 DEF MapFrame
    <3> HIDE DEF i
    <3>2. ASSUME NEW m, NEW done PROVE Filtered(i, m, done).chunk = m
      BY DEF Filtered, Item
    <3>3. Item(i, TRUE, [kind |-> "throws"], <<>>).raw
      BY DEF Item
    <3>4. CASE mapper' = [kind |-> "offer", item |-> Item(i, TRUE, [kind |-> "throws"], <<>>)]
      <4>1. mapper'.kind = "offer" /\ mapper'.item.raw
        BY <3>3, <3>4
      <4> QED BY <4>1
    <3>5. ASSUME NEW done, MapEvent(i).kind = "chunk",
                 mapper' = [kind |-> "offer", item |-> Filtered(i, MapEvent(i), done)]
          PROVE  mapper'.kind = "offer" /\ mapper'.item.chunk.kind = "chunk"
      BY <3>2, <3>5
    <3> QED BY <3>1, <3>4, <3>5
  <2> QED BY <2>1, <2>2 DEF EndOK, BlockIsLast
<1>5. CASE EndMapper
  BY <1>5 DEF EndMapper, EndOK, BlockIsLast
<1>6. CASE WriteItem
  <2> DEFINE x == mapper.item
             n == Len(written)
  <2>1. /\ UNCHANGED <<entry, answer, phase, reply, reader, readAt, events, gone>>
        /\ phase = "streaming" /\ mapper.kind = "offer"
        /\ written' = Append(written, x) /\ mapper'.kind = "idle"
    BY <1>6 DEF WriteItem
  <2>2. PICK S : written \in Seq(S)
    BY DEF PipeInv, TakenOK
  <2>3. n \in Nat /\ written \in Seq(S \cup {x}) /\ x \in S \cup {x}
    BY <2>2
  <2>4. /\ Len(written') = n + 1 /\ written'[n + 1] = x
        /\ \A k \in 1..n : written'[k] = written[k]
    BY <2>1, <2>3, AppendProperties
  <2>5. \A k \in 1..(n + 1) : k = n + 1 \/ k \in 1..n
    BY <2>3
  <2>6. (~x.raw => x.chunk.kind = "chunk") /\ \A k \in 1..n : ~written[k].raw => written[k].chunk.kind = "chunk"
    BY <2>1 DEF EndOK
  <2> HIDE DEF x, n
  <2>7. \A k \in 1..Len(written') : ~written'[k].raw => written'[k].chunk.kind = "chunk"
    BY <2>4, <2>5, <2>6
  <2> QED BY <2>1, <2>7 DEF EndOK, BlockIsLast
<1>7. CASE EndStream
  BY <1>7 DEF EndStream, Finished, EndOK, BlockIsLast, streamVars
<1>8. CASE ClientLeaves
  BY <1>8 DEF ClientLeaves, EndOK, BlockIsLast, streamVars
<1>9. CASE Refuse \/ BuildFails \/ Terminal \/ Whole
  <2>1. /\ UNCHANGED <<answer, reader, readAt, events, mapper, written, gone>> /\ phase' = "done"
        /\ phase # "done"
        /\ reply'.kind # "flushed"
    BY <1>9 DEF Refuse, BuildFails, Terminal, Whole, Guarded, Finished, streamVars
  <2> QED BY <2>1 DEF EndOK, BlockIsLast
<1>10. CASE Build \/ StartStream
  <2>1. /\ UNCHANGED <<answer, reply, reader, readAt, events, mapper, written, gone>>
        /\ phase \in {"build", "answered"} /\ phase' \in {"call", "streaming"}
        /\ (phase' = "call" => phase = "build")
    BY <1>10 DEF Build, StartStream, Guarded, streamVars
  <2> QED BY <2>1 DEF EndOK, BlockIsLast
<1>11. CASE UNCHANGED vars
  BY <1>11 DEF vars, streamVars, EndOK, BlockIsLast
<1> QED BY <1>1, <1>2, <1>3, <1>4, <1>5, <1>6, <1>7, <1>8, <1>9, <1>10, <1>11 DEF Next, Run, Reader, Mapper,
   Writer

\* What a chunk of gemini takes from its frame, and when there is none.
LEMMA ChunkOfGemini ==
  ASSUME NEW i, NEW f
  PROVE  /\ MapGemini(i, f).kind = "chunk" =>
              /\ MapGemini(i, f).text = f.text /\ MapGemini(i, f).finish = Finish(f)
              /\ MapGemini(i, f).usage = UsageOf(f.usage)
         /\ f.data = "json" /\ MapGemini(i, f).kind = "skip" =>
              f.text = <<>> /\ Finish(f) = "none" /\ f.usage = <<>>
<1>1. UsageOf(f.usage) = <<>> => f.usage = <<>>
  <2>1. ASSUME NEW x PROVE <<x>> # <<>>
    OBVIOUS
  <2> QED BY <2>1 DEF UsageOf
<1> QED BY <1>1 DEF MapGemini

\* A frame gives a reason when its prompt is blocked or a candidate finished.
LEMMA FinishIs ==
  ASSUME NEW f, f.block \in BOOLEAN
  PROVE  Finish(f) # "none" <=> f.block \/ f.finish # "none"
BY DEF Finish, finishReason

\* The chunks c are those of the frames F that w picks, and only such a frame has none
\* as says nothing: of the text, the usage or the reason.
TellText(n, F, c, w) ==
  /\ Picks(w, n) /\ \A i \in 1..n : F[i].text \in Seq(Nat)
  /\ \A k \in 1..Len(w) : c[k].text = F[w[k]].text
  /\ \A i \in 1..n : F[i].text = <<>> \/ \E k \in 1..Len(w) : w[k] = i

\* The same of the usage.
TellUsage(n, F, c, w) ==
  /\ Picks(w, n)
  /\ \A k \in 1..Len(w) : c[k].usage = UsageOf(F[w[k]].usage)
  /\ \A i \in 1..n : F[i].usage = <<>> \/ \E k \in 1..Len(w) : w[k] = i

\* The same of the reason; behind a block there is none.
TellFinish(n, F, c, w) ==
  /\ Picks(w, n) /\ \A i \in 1..n : F[i].block \in BOOLEAN
  /\ \A i, j \in 1..n : F[i].block /\ i < j => F[j].finish = "none"
  /\ \A k \in 1..Len(w) : c[k].finish = Finish(F[w[k]])
  /\ \A i \in 1..n : Finish(F[i]) = "none" \/ \E k \in 1..Len(w) : w[k] = i

\* The texts of the chunks are the text of the frames.
LEMMA TextAddsUp ==
  ASSUME NEW n \in Nat, NEW F, NEW c, NEW w, TellText(n, F, c, w)
  PROVE  FlattenSeq([k \in 1..Len(w) |-> c[k].text]) = FlattenSeq([i \in 1..n |-> F[i].text])
<1> DEFINE s == [i \in 1..n |-> F[i].text]
<1> USE DEF TellText
<1>1. s \in Seq(Seq(Nat)) /\ Len(s) = n /\ \A i \in 1..n : s[i] = F[i].text
  OBVIOUS
<1> HIDE DEF s
<1>2. \A k \in 1..Len(w) : w[k] \in 1..n /\ c[k].text = s[w[k]]
  BY <1>1 DEF Picks
<1>3. [k \in 1..Len(w) |-> c[k].text] = [k \in 1..Len(w) |-> s[w[k]]]
  BY <1>2
<1>4. Picks(w, Len(s)) /\ \A i \in 1..Len(s) : s[i] = <<>> \/ \E k \in 1..Len(w) : w[k] = i
  BY <1>1
<1>5. FlattenSeq([k \in 1..Len(w) |-> s[w[k]]]) = FlattenSeq(s)
  BY <1>1, <1>4, PickedText
<1> QED BY <1>3, <1>5 DEF s

\* The last usage of the chunks is the last of the frames.
UsageIsTheLast(n, F, c, w) ==
  LET counted == {i \in 1..n : F[i].usage # <<>>}
      told == {k \in 1..Len(w) : c[k].usage # <<>>}
  IN  IF told = {} THEN counted = {}
      ELSE counted # {} /\ c[Max(told)].usage = UsageOf(F[Max(counted)].usage)

\* The usage a client has last is that of the last frame with one.
LEMMA UsageIsLast ==
  ASSUME NEW n \in Nat, NEW F, NEW c, NEW w, TellUsage(n, F, c, w)
  PROVE  UsageIsTheLast(n, F, c, w)
<1> DEFINE counted == {i \in 1..n : F[i].usage # <<>>}
           told == {k \in 1..Len(w) : c[k].usage # <<>>}
<1>1. \A u : UsageOf(u) # <<>> <=> u # <<>>
  <2>1. \A x : <<x>> # <<>>
    OBVIOUS
  <2> QED BY <2>1 DEF UsageOf
<1>2. \A k \in 1..Len(w) : w[k] \in 1..n
  BY DEF Picks, TellUsage
<1>3. counted \in SUBSET (1..n) /\ told \in SUBSET (1..Len(w))
  OBVIOUS
<1>4. \A i \in counted : \E k \in 1..Len(w) : w[k] = i
  BY DEF TellUsage
<1>5. \A k \in 1..Len(w) : k \in told <=> w[k] \in counted
  BY <1>1, <1>2 DEF TellUsage
<1>6. LastIsLast(w, counted, told)
  <2> HIDE DEF counted, told
  <2>1. PicksAll(w, n, counted, told)
    BY <1>3, <1>4, <1>5 DEF PicksAll, TellUsage
  <2> QED BY <2>1, LastPicked
<1>7. IF told = {} THEN counted = {}
      ELSE counted # {} /\ c[Max(told)].usage = UsageOf(F[Max(counted)].usage)
  <2> HIDE DEF counted, told
  <2> QED BY <1>6 DEF LastIsLast, TellUsage
<1> QED BY <1>7 DEF UsageIsTheLast

\* The last reason of the chunks is a block, if there is one, or the last of the frames.
FinishIsTheLast(n, F, c, w) ==
  LET finished == {i \in 1..n : F[i].finish # "none"}
      told == {k \in 1..Len(w) : c[k].finish # "none"}
  IN  /\ (\E i \in 1..n : F[i].block) => told # {} /\ c[Max(told)].finish = "content_filter"
      /\ (\A i \in 1..n : ~F[i].block) /\ finished # {} =>
            told # {} /\ c[Max(told)].finish = finishReason(F[Max(finished)].finish)

\* The reason a client has last is that of the block or of the last frame with one.
LEMMA FinishIsLast ==
  ASSUME NEW n \in Nat, NEW F, NEW c, NEW w, TellFinish(n, F, c, w)
  PROVE  FinishIsTheLast(n, F, c, w)
<1> DEFINE finished == {i \in 1..n : F[i].finish # "none"}
           told == {k \in 1..Len(w) : c[k].finish # "none"}
           A == {i \in 1..n : F[i].block \/ F[i].finish # "none"}
<1>1. \A i \in 1..n : Finish(F[i]) # "none" <=> F[i].block \/ F[i].finish # "none"
  BY FinishIs DEF TellFinish
<1>2. \A k \in 1..Len(w) : w[k] \in 1..n
  BY DEF Picks, TellFinish
<1>3. A \in SUBSET (1..n) /\ told \in SUBSET (1..Len(w))
  OBVIOUS
<1>4. \A i \in A : \E k \in 1..Len(w) : w[k] = i
  BY <1>1 DEF TellFinish
<1>5. \A k \in 1..Len(w) : k \in told <=> w[k] \in A
  BY <1>1, <1>2 DEF TellFinish
<1>6. LastIsLast(w, A, told)
  <2> HIDE DEF A, told
  <2>1. PicksAll(w, n, A, told)
    BY <1>3, <1>4, <1>5 DEF PicksAll, TellFinish
  <2> QED BY <2>1, LastPicked
<1>7. A # {} => told # {} /\ c[Max(told)].finish = Finish(F[Max(A)])
  <2> HIDE DEF A, told
  <2> QED BY <1>6 DEF LastIsLast, TellFinish
<1>8. \A i : i \in A <=> i \in 1..n /\ (F[i].block \/ F[i].finish # "none")
  OBVIOUS
<1>9. ASSUME NEW b \in 1..n, F[b].block
      PROVE  told # {} /\ c[Max(told)].finish = "content_filter"
  <2> HIDE DEF A, told
  <2>1. b \in A
    BY <1>8, <1>9
  <2>2. Max(A) \in 1..n /\ b <= Max(A) /\ (F[Max(A)].block \/ F[Max(A)].finish # "none")
    BY <1>6, <1>8, <2>1 DEF LastIsLast
  <2>3. F[Max(A)].block
    BY <1>9, <2>2 DEF TellFinish
  <2> QED BY <1>7, <2>1, <2>3 DEF Finish
<1>10. ASSUME \A i \in 1..n : ~F[i].block, finished # {}
       PROVE  told # {} /\ c[Max(told)].finish = finishReason(F[Max(finished)].finish)
  <2>1. A = finished
    BY <1>10
  <2> HIDE DEF A, told, finished
  <2>2. Max(A) \in 1..n /\ F[Max(A)].finish # "none" /\ ~F[Max(A)].block
    BY <1>6, <1>8, <1>10, <2>1 DEF LastIsLast, TellFinish
  <2> QED BY <1>7, <1>10, <2>1, <2>2 DEF Finish
<1> QED BY <1>9, <1>10 DEF FinishIsTheLast

\* Theorem of StreamAgreesWithWhole (mapEvent and mapResponse of gemini/protocol.js): a
\* stream that nothing degraded adds up to the answer that is not streamed.
THEOREM StreamSaysAll == Spec => []StreamAgreesWithWhole
<1>1. PipeInv /\ EndOK => StreamAgreesWithWhole
  <2> DEFINE F == answer.frames
             n == Len(F)
             N == Len(written)
             c == [k \in 1..N |-> written[k].chunk]
             w == [k \in 1..N |-> written[k].frame]
             finished == {i \in 1..n : F[i].finish # "none"}
             counted == {i \in 1..n : F[i].usage # <<>>}
             finishedW == {k \in 1..N : c[k].finish # "none"}
             countedW == {k \in 1..N : c[k].usage # <<>>}
  <2> SUFFICES ASSUME PipeInv, EndOK, reply.kind = "flushed", entry.protocol = "gemini", ~gone,
                      \A i \in DOMAIN F : F[i].data = "json", \A k \in DOMAIN written : ~written[k].raw
               PROVE  /\ Collected.text = MapWhole(Merged(F)).text
                      /\ Collected.usage = MapWhole(Merged(F)).usage
                      /\ Merged(F).block \/ Merged(F).finish # "none" => Collected.finish = MapWhole(Merged(F)).finish
    BY DEF StreamAgreesWithWhole
  <2>1. /\ n \in Nat /\ DOMAIN F = 1..n /\ N \in Nat /\ DOMAIN written = 1..N
        /\ \A i \in 1..n : F[i].text \in Seq(Nat) /\ F[i].block \in BOOLEAN
    <3>1. PICK S : written \in Seq(S)
      BY DEF PipeInv, TakenOK
    <3>2. n \in Nat /\ DOMAIN F = 1..n /\ \A i \in 1..n : F[i].text \in Seq(Nat) /\ F[i].block \in BOOLEAN
      BY DEF PipeInv, ReadOK, FramesAreSent
    <3> QED BY <3>1, <3>2
  <2>2. mapper.kind = "ended" /\ readAt = n /\ Taken = n
    <3>1. mapper.kind = "ended" /\ events = <<>> /\ readAt = n
      BY DEF EndOK
    <3>2. Taken = n - 0
      BY <3>1 DEF Taken
    <3> QED BY <2>1, <3>1, <3>2
  <2>3. /\ \A k \in 1..N : written[k].frame \in 1..n /\ Mapped(written[k]) /\ written[k].chunk.kind = "chunk"
        /\ \A j, k \in 1..N : j < k => written[j].frame < written[k].frame
        /\ \A i \in 1..n : MapEvent(i).kind = "skip" \/ \E k \in 1..N : written[k].frame = i
    BY <2>1, <2>2 DEF PipeInv, TakenOK, EndOK, Offered
  <2>4. Len(w) = N /\ Picks(w, n) /\ \A k \in 1..N : w[k] = written[k].frame
    BY <2>1, <2>3 DEF Picks
  <2>5. \A i : MapEvent(i) = MapGemini(i, F[i])
    BY DEF MapEvent
  <2>6. \A k \in 1..N : /\ c[k].text = F[w[k]].text /\ c[k].finish = Finish(F[w[k]])
                        /\ c[k].usage = UsageOf(F[w[k]].usage)
    BY <2>3, <2>4, <2>5, ChunkOfGemini DEF Mapped
  <2>7. \A i \in 1..n : \/ F[i].text = <<>> /\ Finish(F[i]) = "none" /\ F[i].usage = <<>>
                        \/ \E k \in 1..N : w[k] = i
    <3> SUFFICES ASSUME NEW i \in 1..n, ~\E k \in 1..N : w[k] = i
                 PROVE  F[i].text = <<>> /\ Finish(F[i]) = "none" /\ F[i].usage = <<>>
      OBVIOUS
    <3>1. MapGemini(i, F[i]).kind = "skip"
      BY <2>3, <2>4, <2>5
    <3>2. F[i].data = "json"
      BY <2>1
    <3> HIDE DEF F
    <3> QED BY <3>1, <3>2, ChunkOfGemini
  <2>8. \A i, j \in 1..n : F[i].block /\ i < j => F[j].finish = "none"
    BY DEF EndOK, BlockIsLast
  <2>9. /\ Collected.text = FlattenSeq([k \in 1..N |-> c[k].text])
        /\ Collected.finish = IF finishedW = {} THEN "none" ELSE c[Max(finishedW)].finish
        /\ Collected.usage = IF countedW = {} THEN <<>> ELSE c[Max(countedW)].usage
    <3>1. finishedW = {k \in DOMAIN written : written[k].chunk.finish # "none"}
          /\ countedW = {k \in DOMAIN written : written[k].chunk.usage # <<>>}
          /\ [k \in 1..N |-> c[k].text] = [k \in DOMAIN written |-> written[k].chunk.text]
      BY <2>1
    <3>2. /\ finishedW # {} => Max(finishedW) \in 1..N
          /\ countedW # {} => Max(countedW) \in 1..N
      <4>1. finishedW \in SUBSET (1..N) /\ countedW \in SUBSET (1..N)
        OBVIOUS
      <4> HIDE DEF finishedW, countedW
      <4> QED BY <2>1, <4>1, MaxIsGreatest
    <3> HIDE DEF finishedW, countedW
    <3> QED BY <3>1, <3>2 DEF Collected
  <2>10. /\ Merged(F).text = FlattenSeq([i \in 1..n |-> F[i].text])
         /\ Merged(F).block <=> \E i \in 1..n : F[i].block
         /\ Merged(F).finish = IF finished = {} THEN "none" ELSE F[Max(finished)].finish
         /\ Merged(F).usage = IF counted = {} THEN <<>> ELSE F[Max(counted)].usage
    <3> HIDE DEF F
    <3> QED BY <2>1 DEF Merged
  <2> HIDE DEF F, n, N, c, w, finished, counted, finishedW, countedW
  <2>11. finished = {i \in 1..n : F[i].finish # "none"} /\ counted = {i \in 1..n : F[i].usage # <<>>}
         /\ finishedW = {k \in 1..N : c[k].finish # "none"} /\ countedW = {k \in 1..N : c[k].usage # <<>>}
    BY DEF finished, counted, finishedW, countedW
  <2>12. /\ FlattenSeq([k \in 1..N |-> c[k].text]) = FlattenSeq([i \in 1..n |-> F[i].text])
         /\ IF countedW = {} THEN counted = {}
            ELSE counted # {} /\ c[Max(countedW)].usage = UsageOf(F[Max(counted)].usage)
         /\ (\E i \in 1..n : F[i].block) => finishedW # {} /\ c[Max(finishedW)].finish = "content_filter"
         /\ (\A i \in 1..n : ~F[i].block) /\ finished # {} =>
               finishedW # {} /\ c[Max(finishedW)].finish = finishReason(F[Max(finished)].finish)
    <3>0. n \in Nat /\ TellText(n, F, c, w) /\ TellUsage(n, F, c, w) /\ TellFinish(n, F, c, w)
      BY <2>1, <2>4, <2>6, <2>7, <2>8 DEF TellText, TellUsage, TellFinish
    <3>1. FlattenSeq([k \in 1..Len(w) |-> c[k].text]) = FlattenSeq([i \in 1..n |-> F[i].text])
      BY <3>0, TextAddsUp
    <3>2. UsageIsTheLast(n, F, c, w)
      BY <3>0, UsageIsLast
    <3>3. FinishIsTheLast(n, F, c, w)
      BY <3>0, FinishIsLast
    <3> QED BY <2>4, <2>11, <3>1, <3>2, <3>3 DEF UsageIsTheLast, FinishIsTheLast
  <2>13. MapWhole(Merged(F)).text = Merged(F).text /\ MapWhole(Merged(F)).usage = UsageOf(Merged(F).usage)
         /\ MapWhole(Merged(F)).finish =
              IF Merged(F).block THEN "content_filter" ELSE finishReason(Merged(F).finish)
    BY DEF MapWhole
  <2>14. Collected.usage = MapWhole(Merged(F)).usage
    <3>1. UsageOf(<<>>) = <<>>
      BY DEF UsageOf
    <3> QED BY <2>9, <2>10, <2>12, <2>13, <3>1
  <2>15. Merged(F).block \/ Merged(F).finish # "none" => Collected.finish = MapWhole(Merged(F)).finish
    BY <2>9, <2>10, <2>12, <2>13
  <2> QED BY <2>9, <2>10, <2>12, <2>13, <2>14, <2>15
<1> QED BY <1>1, PipeInit, PipeKept, EndInit, EndKept, PTL DEF Spec
=============================================================================
