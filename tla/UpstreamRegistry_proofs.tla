---------------------- MODULE UpstreamRegistry_proofs ----------------------
(***************************************************************************)
(* Proofs about UpstreamRegistry, for any number of operations and any ids, *)
(* names and prefixes.  Base says what holds whatever overlaps; Apart what  *)
(* the operations of one group may rely on as long as none has met another  *)
(* one on its group; Rounds what the counters belong to.                    *)
(***************************************************************************)
EXTENDS UpstreamRegistry, SequenceTheorems, FiniteSetTheorems, TLAPS

-----------------------------------------------------------------------------
(* Lists of the elements of a set *)

\* What RemoveAt does to a queue, element by element.
LEMMA RemoveAtElements ==
  ASSUME NEW S, NEW q \in Seq(S), NEW i \in 1 .. Len(q)
  PROVE  /\ RemoveAt(q, i) \in Seq(S)
         /\ Len(RemoveAt(q, i)) = Len(q) - 1
         /\ \A j \in 1 .. Len(q) - 1 :
              RemoveAt(q, i)[j] = IF j < i THEN q[j] ELSE q[j + 1]
<1> DEFINE a == SubSeq(q, 1, i - 1)
           b == SubSeq(q, i + 1, Len(q))
<1>1. a \in Seq(S) /\ Len(a) = i - 1 /\ \A j \in 1 .. i - 1 : a[j] = q[j]
  OBVIOUS
<1>2. /\ b \in Seq(S) /\ Len(b) = Len(q) - i
      /\ \A j \in 1 .. Len(q) - i : b[j] = q[i + j]
  OBVIOUS
<1>3. RemoveAt(q, i) = a \o b
  BY DEF RemoveAt
<1> HIDE DEF a, b
<1>4. /\ a \o b \in Seq(S) /\ Len(a \o b) = Len(a) + Len(b)
      /\ \A j \in 1 .. Len(a) + Len(b) :
           (a \o b)[j] = IF j <= Len(a) THEN a[j] ELSE b[j - Len(a)]
  BY <1>1, <1>2, ConcatProperties
<1>5. Len(a) + Len(b) = Len(q) - 1 /\ Len(q) \in Nat
  BY <1>1, <1>2
<1>6. ASSUME NEW j \in 1 .. Len(q) - 1
      PROVE  (a \o b)[j] = IF j < i THEN q[j] ELSE q[j + 1]
  <2>1. CASE j < i
    BY <2>1, <1>1, <1>4, <1>5
  <2>2. CASE ~(j < i)
    <3>1. j - (i - 1) \in 1 .. Len(q) - i /\ i + (j - (i - 1)) = j + 1
      BY <2>2, <1>5
    <3>2. (a \o b)[j] = b[j - (i - 1)]
      BY <2>2, <1>1, <1>4, <1>5
    <3> QED BY <2>2, <3>1, <3>2, <1>2
  <2> QED BY <2>1, <2>2
<1> QED BY <1>3, <1>4, <1>5, <1>6

\* A list of a set has each of its elements once.
Lists(s, S) == IsInjective(s) /\ ToSet(s) = S

LEMMA ListEmpty == Lists(<<>>, {})
  BY DEF Lists, IsInjective, ToSet

\* An element that is new is listed after the others.
LEMMA ListAppend ==
  ASSUME NEW T, NEW q \in Seq(T), NEW S, Lists(q, S), NEW e \in T, e \notin S
  PROVE  Append(q, e) \in Seq(T) /\ Lists(Append(q, e), S \cup {e})
<1> DEFINE r == Append(q, e)
<1>1. /\ r \in Seq(T) /\ Len(r) = Len(q) + 1 /\ Len(q) \in Nat
      /\ \A i \in 1 .. Len(q) : r[i] = q[i]
      /\ r[Len(q) + 1] = e
  BY AppendProperties
<1>2. DOMAIN r = 1 .. Len(q) + 1 /\ DOMAIN q = 1 .. Len(q)
  BY <1>1
<1> HIDE DEF r
<1>3. \A i \in 1 .. Len(q) : q[i] \in S /\ q[i] # e
  BY <1>2 DEF Lists, ToSet
<1>4. \A x \in S : \E i \in 1 .. Len(q) : q[i] = x
  BY <1>2 DEF Lists, ToSet
<1>5. IsInjective(r)
  <2> SUFFICES ASSUME NEW i \in 1 .. Len(q) + 1, NEW j \in 1 .. Len(q) + 1, r[i] = r[j]
               PROVE  i = j
    BY <1>2 DEF IsInjective
  <2>1. CASE i \in 1 .. Len(q) /\ j \in 1 .. Len(q)
    BY <1>1, <1>2, <2>1 DEF Lists, IsInjective
  <2>2. CASE i = Len(q) + 1 \/ j = Len(q) + 1
    BY <1>1, <1>3, <2>2
  <2> QED BY <1>1, <2>1, <2>2
<1>6. ToSet(r) = S \cup {e}
  <2>1. ASSUME NEW i \in 1 .. Len(q) + 1 PROVE r[i] \in S \cup {e}
    <3>1. i \in 1 .. Len(q) \/ i = Len(q) + 1
      BY <1>1
    <3> QED BY <1>1, <1>3, <3>1
  <2>2. ASSUME NEW x \in S \cup {e} PROVE \E i \in 1 .. Len(q) + 1 : r[i] = x
    <3>1. CASE x = e
      BY <1>1, <3>1
    <3>2. CASE x \in S
      <4>1. PICK i \in 1 .. Len(q) : q[i] = x
        BY <1>4, <3>2
      <4>2. i \in 1 .. Len(q) + 1 /\ r[i] = x
        BY <1>1, <4>1
      <4> QED BY <4>2
    <3> QED BY <3>1, <3>2
  <2> QED BY <1>2, <2>1, <2>2 DEF ToSet
<1> QED BY <1>1, <1>5, <1>6 DEF Lists, r

\* Removing the first occurrence removes the element.
LEMMA ListRemove ==
  ASSUME NEW T, NEW q \in Seq(T), NEW S, Lists(q, S), NEW e
  PROVE  RemoveFirst(q, e) \in Seq(T) /\ Lists(RemoveFirst(q, e), S \ {e})
<1>0. DOMAIN q = 1 .. Len(q) /\ Len(q) \in Nat
  OBVIOUS
<1>1. /\ \A i \in 1 .. Len(q) : q[i] \in S
      /\ \A x \in S : \E i \in 1 .. Len(q) : q[i] = x
      /\ \A i, j \in 1 .. Len(q) : q[i] = q[j] => i = j
  BY <1>0 DEF Lists, ToSet, IsInjective
<1>2. CASE ~\E i \in 1 .. Len(q) : q[i] = e
  <2>1. RemoveFirst(q, e) = q /\ S \ {e} = S
    BY <1>1, <1>2 DEF RemoveFirst
  <2> QED BY <2>1
<1>3. CASE \E i \in 1 .. Len(q) : q[i] = e
  <2>1. PICK n \in 1 .. Len(q) : q[n] = e
    BY <1>3
  <2>2. SelectInSeq(q, LAMBDA v : v = e) = n
    <3> DEFINE I == {i \in 1 .. Len(q) : q[i] = e}
    <3>1. I = {n}
      BY <2>1, <1>1
    <3>2. Min(I) = n
      <4>1. \A x : (x \in I /\ \A y \in I : x =< y) <=> x = n
        BY <3>1, <2>1, <1>0
      <4> QED BY <4>1 DEF Min
    <3> QED BY <3>1, <3>2 DEF SelectInSeq
  <2> DEFINE r == RemoveAt(q, n)
  <2>3. RemoveFirst(q, e) = r
    BY <1>3, <2>2 DEF RemoveFirst
  <2>4. /\ r \in Seq(T) /\ Len(r) = Len(q) - 1
        /\ \A j \in 1 .. Len(q) - 1 : r[j] = IF j < n THEN q[j] ELSE q[j + 1]
    BY RemoveAtElements
  <2>5. DOMAIN r = 1 .. Len(q) - 1
    BY <2>4
  <2> HIDE DEF r
  <2> DEFINE at(j) == IF j < n THEN j ELSE j + 1
  <2>6. \A j \in 1 .. Len(q) - 1 : at(j) \in 1 .. Len(q) /\ at(j) # n /\ r[j] = q[at(j)]
    BY <1>0, <2>4
  <2>7. \A j, k \in 1 .. Len(q) - 1 : at(j) = at(k) => j = k
    BY <1>0
  <2>8. \A i \in 1 .. Len(q) : i # n => \E j \in 1 .. Len(q) - 1 : at(j) = i
    <3> SUFFICES ASSUME NEW i \in 1 .. Len(q), i # n
                 PROVE  \E j \in 1 .. Len(q) - 1 : at(j) = i
      OBVIOUS
    <3>1. CASE i < n
      <4>1. i \in 1 .. Len(q) - 1 /\ at(i) = i
        BY <3>1, <1>0
      <4> QED BY <4>1
    <3>2. CASE ~(i < n)
      <4>1. i - 1 \in 1 .. Len(q) - 1 /\ at(i - 1) = i
        BY <3>2, <1>0
      <4> QED BY <4>1
    <3> QED BY <3>1, <3>2
  <2> HIDE DEF at
  <2>9. IsInjective(r)
    <3> SUFFICES ASSUME NEW j \in 1 .. Len(q) - 1, NEW k \in 1 .. Len(q) - 1, r[j] = r[k]
                 PROVE  j = k
      BY <2>5 DEF IsInjective
    <3>1. at(j) \in 1 .. Len(q) /\ at(k) \in 1 .. Len(q) /\ q[at(j)] = q[at(k)]
      BY <2>6
    <3>2. at(j) = at(k)
      BY <3>1, <1>1
    <3> QED BY <3>2, <2>7
  <2>10. ToSet(r) = S \ {e}
    <3>1. ASSUME NEW j \in 1 .. Len(q) - 1 PROVE r[j] \in S \ {e}
      BY <1>1, <2>1, <2>6
    <3>2. ASSUME NEW x \in S \ {e} PROVE \E j \in 1 .. Len(q) - 1 : r[j] = x
      <4>1. PICK i \in 1 .. Len(q) : q[i] = x
        BY <1>1
      <4>2. i # n
        BY <4>1, <2>1
      <4>3. PICK j \in 1 .. Len(q) - 1 : at(j) = i
        BY <4>2, <2>8
      <4> QED BY <4>1, <4>3, <2>6
    <3> QED BY <2>5, <3>1, <3>2 DEF ToSet
  <2> QED BY <2>3, <2>4, <2>9, <2>10 DEF Lists
<1> QED BY <1>2, <1>3

-----------------------------------------------------------------------------

GroupKinds == {"addGroup", "setGroup"}
MemberKinds == {"addMember", "setMember", "delMember"}

\* An id that was not given out yet is nowhere in use.
Fresh ==
  /\ \A g \in Groups : g >= nextGroup => dbGroup[g] = None /\ byGroup[g] = None
  /\ \A m \in Members : m >= nextMember => dbMember[m] = None /\ byMember[m] = None
  /\ \A m \in Members : dbMember[m] # None => dbMember[m].group < nextGroup
  /\ \A m \in Members : byMember[m] # None => byMember[m].group < nextGroup
  /\ \A o \in Ops : target(job[o]) < nextGroup
  /\ \A o \in Ops : job[o].kind \in MemberKinds => job[o].member < nextMember

\* A member belongs to one group for good, wherever it is mentioned.
Homes(home) ==
  /\ \A m \in Members : dbMember[m] # None => dbMember[m].group = home[m]
  /\ \A m \in Members : byMember[m] # None => byMember[m].group = home[m]
  /\ \A o \in Ops : job[o].kind \in MemberKinds /\ job[o].member # 0 =>
       job[o].group = home[job[o].member]
OneHome == \E home \in [Members -> 0 .. MaxGroups] : Homes(home)

\* The constraints of the database, and what is gone stays gone.
TablesOK ==
  /\ \A g, h \in Groups : dbGroup[g] # None /\ dbGroup[h] # None /\ g # h =>
       dbGroup[g].prefix # dbGroup[h].prefix
  /\ \A m \in Members : dbMember[m] # None => dbGroup[dbMember[m].group] # None
  /\ \A o \in Ops : job[o].kind \in {"addMember", "setMember"} => job[o].row.group = job[o].group
  /\ \A o \in Ops : job[o].kind = "delGroup" /\ job[o].stage = "index" =>
       dbGroup[job[o].group] = None
  /\ \A o \in Ops : job[o].kind = "delMember" /\ job[o].stage = "index" =>
       dbMember[job[o].member] = None

Base == TypeOK /\ Fresh /\ OneHome /\ TablesOK /\ OrderMatchesMembers

-----------------------------------------------------------------------------
\* Operations on one group are all additions of members.
Apart ==
  \A o, p \in Ops : o # p /\ target(job[o]) # 0 /\ target(job[p]) = target(job[o]) =>
    job[o].kind = "addMember" /\ job[p].kind = "addMember"

\* What an operation relies on between its check and its last step.
Steady(o) ==
  LET j == job[o] IN
  /\ j.kind \in GroupKinds /\ j.stage = "index" => dbGroup[j.group] = j.row
  /\ j.kind = "setGroup" => dbGroup[j.group] # None
  /\ j.kind = "addMember" /\ j.stage = "index" =>
       dbMember[j.member] = j.row /\ byMember[j.member] \in {None, j.row}
  /\ j.kind = "setMember" => dbMember[j.member] = j.row /\ byMember[j.member] = j.row
  /\ j.kind = "delGroup" => \A m \in membersOf(byMember, j.group) : byMember[m].name \in j.names
  /\ j.kind = "delMember" /\ byMember[j.member] # None => byMember[j.member].name \in j.names

\* The statement is done and the memory part is due.
groupDue(o, g) ==
  job[o].kind \in {"addGroup", "setGroup", "delGroup"} /\ job[o].stage = "index" /\ job[o].group = g
memberDue(o, m) ==
  /\ job[o].kind \in {"addMember", "delMember", "delGroup"} /\ job[o].stage = "index"
  /\ IF job[o].kind = "delGroup" THEN m \in membersOf(byMember, job[o].group)
     ELSE job[o].member = m

Synced ==
  /\ \A g \in Groups : (\A o \in Ops : ~groupDue(o, g)) => byGroup[g] = dbGroup[g]
  /\ \A m \in Members : (\A o \in Ops : ~memberDue(o, m)) => byMember[m] = dbMember[m]

InStep == ~clash => Apart /\ (\A o \in Ops : Steady(o)) /\ Synced

-----------------------------------------------------------------------------
named(n) == \E m \in Members : byMember[m] # None /\ byMember[m].name = n

\* A lookup that nothing has overlapped is alone, with a name some member has.
PickAlone ==
  ~raced => \A o \in Ops : job[o].kind = "pick" =>
              named(job[o].name) /\ \A p \in Ops \ {o} : job[p] = Idle

\* A counter has a member of its name, or a cleaning that will look at it.
Counted ==
  ~clash /\ ~raced =>
    \A n \in rrRound : named(n) \/ \E o \in Ops : job[o].kind = "clean" /\ n \in job[o].left

Rounds == PickAlone /\ Counted

IndInv == Base /\ InStep /\ Rounds

-----------------------------------------------------------------------------
(* What jobs look like *)

\* The fields of a job, by its kind.
LEMMA JobShape ==
  ASSUME NEW j \in Jobs
  PROVE  /\ j.kind \in {"idle", "addGroup", "setGroup", "delGroup", "addMember",
                        "setMember", "delMember", "stray", "clean", "pick"}
         /\ j.kind = "idle" <=> j = Idle
         /\ j.kind \in {"addGroup", "setGroup"} =>
              j.stage \in Stages /\ j.group \in 0 .. MaxGroups /\ j.row \in GroupRow
         /\ j.kind = "addGroup" => (j.group = 0 <=> j.stage = "db")
         /\ j.kind = "setGroup" => j.group \in Groups
         /\ j.kind = "delGroup" =>
              j.stage \in Stages /\ j.group \in Groups /\ j.names \subseteq Names
         /\ j.kind \in MemberKinds =>
              j.stage \in Stages /\ j.group \in Groups /\ j.member \in 0 .. MaxMembers
         /\ j.kind = "addMember" => (j.member = 0 <=> j.stage = "db")
         /\ j.kind \in {"setMember", "delMember"} => j.member \in Members
         /\ j.kind \in {"addMember", "setMember"} => j.row \in MemberRow
         /\ j.kind = "delMember" => j.names \subseteq Names
         /\ j.kind = "stray" =>
              /\ j.stage \in Stages /\ j.group = 0 /\ j.id \in Strays
              /\ j.row \in GroupRow \cup {None}
         /\ j.kind = "clean" =>
              j.stage \in {"count"} \cup Names /\ j.left \subseteq Names /\ j.group = 0
         /\ j.kind = "pick" => j.name \in Names /\ j.stage = "rotate"
  BY CountAssumption DEF Jobs, Idle, MemberKinds, Stages, Groups, Members

\* What a job becomes when its statement has been executed.
LEMMA PersistedGroup ==
  ASSUME NEW j \in Jobs, j.kind = "addGroup", j.stage = "db", NEW g \in Groups
  PROVE  LET k == [[j EXCEPT !.group = g] EXCEPT !.stage = "index"] IN
         /\ k \in Jobs /\ k.kind = "addGroup" /\ k.stage = "index" /\ k.group = g
         /\ k.row = j.row
<1>1. j \in [kind : {"addGroup"}, stage : {"db"}, group : {0}, row : GroupRow]
  BY DEF Jobs, Idle
<1> QED BY <1>1 DEF Jobs

LEMMA PersistedMember ==
  ASSUME NEW j \in Jobs, j.kind = "addMember", j.stage = "db", NEW m \in Members
  PROVE  LET k == [[j EXCEPT !.member = m] EXCEPT !.stage = "index"] IN
         /\ k \in Jobs /\ k.kind = "addMember" /\ k.stage = "index" /\ k.group = j.group
         /\ k.member = m /\ k.row = j.row
<1>1. j \in [kind : {"addMember"}, stage : {"db"}, group : Groups, member : {0}, row : MemberRow]
  BY DEF Jobs, Idle
<1> QED BY <1>1 DEF Jobs

LEMMA Persisted ==
  ASSUME NEW j \in Jobs, j.kind \in {"setGroup", "delGroup", "setMember", "delMember"}
  PROVE  LET k == [j EXCEPT !.stage = "index"] IN
         /\ k \in Jobs /\ k.kind = j.kind /\ k.stage = "index" /\ k.group = j.group
         /\ j.kind = "setGroup" => k.row = j.row
         /\ j.kind = "delGroup" => k.names = j.names
         /\ j.kind = "setMember" => k.row = j.row /\ k.member = j.member
         /\ j.kind = "delMember" => k.names = j.names /\ k.member = j.member
<1>1. CASE j.kind = "setGroup"
  <2>1. j \in [kind : {"setGroup"}, stage : Stages, group : Groups, row : GroupRow]
    BY <1>1 DEF Jobs, Idle
  <2> QED BY <1>1, <2>1 DEF Jobs, Stages
<1>2. CASE j.kind = "delGroup"
  <2>1. j \in [kind : {"delGroup"}, stage : Stages, group : Groups, names : SUBSET Names]
    BY <1>2 DEF Jobs, Idle
  <2> QED BY <1>2, <2>1 DEF Jobs, Stages
<1>3. CASE j.kind = "setMember"
  <2>1. j \in [kind : {"setMember"}, stage : Stages, group : Groups, member : Members,
               row : MemberRow]
    BY <1>3 DEF Jobs, Idle
  <2> QED BY <1>3, <2>1 DEF Jobs, Stages
<1>4. CASE j.kind = "delMember"
  <2>1. j \in [kind : {"delMember"}, stage : Stages, group : Groups, member : Members,
               names : SUBSET Names]
    BY <1>4 DEF Jobs, Idle
  <2> QED BY <1>4, <2>1 DEF Jobs, Stages
<1> QED BY <1>1, <1>2, <1>3, <1>4

\* The list a restart builds has every member of the group once.
LEMMA IdOrder ==
  ASSUME NEW S \in SUBSET Members
  PROVE  inIdOrder(S) \in Seq(Members) /\ Lists(inIdOrder(S), S)
<1> DEFINE n == Cardinality(S)
           upTo(m) == {x \in S : x <= m}
           rank == [m \in S |-> Cardinality(upTo(m))]
           s == inIdOrder(S)
<1>1. IsFiniteSet(S) /\ n \in Nat /\ S \subseteq Nat
  <2>1. IsFiniteSet(Members)
    BY FS_Interval, CountAssumption DEF Members
  <2>2. IsFiniteSet(S) /\ n \in Nat
    BY <2>1, FS_Subset, FS_CardinalityType
  <2>3. S \subseteq Nat
    BY DEF Members
  <2> QED BY <2>2, <2>3
<1>2. \A m \in S : IsFiniteSet(upTo(m)) /\ Cardinality(upTo(m)) \in 1 .. n
  <2> SUFFICES ASSUME NEW m \in S
               PROVE  IsFiniteSet(upTo(m)) /\ Cardinality(upTo(m)) \in 1 .. n
    OBVIOUS
  <2>1. upTo(m) \in SUBSET S /\ m \in upTo(m)
    BY <1>1
  <2>2. IsFiniteSet(upTo(m)) /\ Cardinality(upTo(m)) <= n /\ Cardinality(upTo(m)) \in Nat
    BY <2>1, <1>1, FS_Subset, FS_CardinalityType
  <2>3. Cardinality(upTo(m)) # 0
    BY <2>1, <2>2, FS_EmptySet
  <2> QED BY <1>1, <2>2, <2>3
<1>3. ASSUME NEW a \in S, NEW b \in S, a < b PROVE Cardinality(upTo(a)) # Cardinality(upTo(b))
  <2>0. a \in Nat /\ b \in Nat /\ \A x \in S : x \in Nat
    BY <1>1
  <2>1. upTo(a) \subseteq upTo(b) /\ b \in upTo(b) /\ b \notin upTo(a)
    <3>1. ASSUME NEW x \in S, x <= a PROVE x <= b
      BY <2>0, <1>3, <3>1
    <3>2. b \in upTo(b)
      BY <2>0
    <3>3. b \notin upTo(a)
      BY <2>0, <1>3
    <3>4. upTo(a) \subseteq upTo(b)
      BY <3>1
    <3> QED BY <3>2, <3>3, <3>4
  <2>2. upTo(a) # upTo(b)
    BY <2>1
  <2> HIDE DEF upTo
  <2> QED BY <1>2, <2>1, <2>2, FS_Subset
<1>4. rank \in [S -> 1 .. n] /\ \A m \in S : rank[m] = Cardinality(upTo(m))
  BY <1>2
<1>5. \A a, b \in S : rank[a] = rank[b] => a = b
  <2> SUFFICES ASSUME NEW a \in S, NEW b \in S, rank[a] = rank[b], a # b PROVE FALSE
    OBVIOUS
  <2>1. a < b \/ b < a
    BY <1>1
  <2> HIDE DEF upTo, rank
  <2> QED BY <1>3, <1>4, <2>1
<1> HIDE DEF rank
<1>6. \A i \in 1 .. n : \E m \in S : rank[m] = i
  <2>1. rank \in Injection(S, 1 .. n)
    BY <1>4, <1>5 DEF Injection, IsInjective
  <2>2. IsFiniteSet(1 .. n) /\ Cardinality(1 .. n) = n
    BY <1>1, FS_Interval
  <2>3. rank \in Surjection(S, 1 .. n)
    BY <2>1, <2>2, FS_Injection
  <2> QED BY <2>3 DEF Surjection
<1> DEFINE at(i) == CHOOSE m \in S : Cardinality(upTo(m)) = i
<1>7. \A i \in 1 .. n : at(i) \in S /\ rank[at(i)] = i
  <2> SUFFICES ASSUME NEW i \in 1 .. n PROVE at(i) \in S /\ rank[at(i)] = i
    OBVIOUS
  <2>1. \E m \in S : Cardinality(upTo(m)) = i
    BY <1>4, <1>6
  <2> HIDE DEF upTo
  <2>2. at(i) \in S /\ Cardinality(upTo(at(i))) = i
    BY <2>1
  <2> QED BY <2>2, <1>4
<1>8. s = [i \in 1 .. n |-> at(i)]
  BY DEF inIdOrder
<1> HIDE DEF s, upTo, n, at
<1>9. s \in [1 .. n -> Members] /\ DOMAIN s = 1 .. n /\ \A i \in 1 .. n : s[i] = at(i)
  BY <1>7, <1>8
<1>10. s \in Seq(Members)
  BY <1>1, <1>9
<1>11. IsInjective(s)
  BY <1>7, <1>9 DEF IsInjective
<1>12. ToSet(s) = S
  <2>1. \A x \in S : \E i \in 1 .. n : s[i] = x
    <3> SUFFICES ASSUME NEW x \in S PROVE \E i \in 1 .. n : s[i] = x
      OBVIOUS
    <3>1. rank[x] \in 1 .. n
      BY <1>4
    <3>2. at(rank[x]) \in S /\ rank[at(rank[x])] = rank[x]
      BY <3>1, <1>7
    <3>3. s[rank[x]] = x
      BY <3>1, <3>2, <1>5, <1>9
    <3> QED BY <3>1, <3>3
  <2> QED BY <1>7, <1>9, <2>1 DEF ToSet
<1> QED BY <1>10, <1>11, <1>12 DEF Lists, s

-----------------------------------------------------------------------------
(* What holds whatever overlaps *)

\* At first there is nothing, and nothing is under way.
LEMMA Initially == Init => IndInv
<1> SUFFICES ASSUME Init PROVE IndInv
  OBVIOUS
<1>1. \A o \in Ops : job[o] = Idle /\ job[o].kind = "idle" /\ target(job[o]) = 0
  BY DEF Init, Idle, target
<1>2. TypeOK
  <2>1. Idle \in Jobs
    BY DEF Jobs
  <2>2. nextGroup \in 1 .. MaxGroups + 1 /\ nextMember \in 1 .. MaxMembers + 1
    BY CountAssumption DEF Init
  <2>3. memberOrder \in [Groups -> Seq(Members)]
    BY DEF Init
  <2>4. job \in [Ops -> Jobs]
    BY <2>1 DEF Init
  <2> QED BY <2>2, <2>3, <2>4 DEF Init, TypeOK
<1>3. Fresh
  BY <1>1 DEF Init, Fresh, MemberKinds
<1>4. OneHome
  <2> DEFINE home == [m \in Members |-> 0]
  <2>1. home \in [Members -> 0 .. MaxGroups]
    BY CountAssumption
  <2> HIDE DEF home
  <2>2. Homes(home)
    BY <1>1 DEF Init, Homes, MemberKinds
  <2> QED BY <2>1, <2>2 DEF OneHome
<1>5. TablesOK
  BY <1>1 DEF Init, TablesOK
<1>6. OrderMatchesMembers
  <2>1. ASSUME NEW g \in Groups PROVE memberOrder[g] = <<>> /\ membersOf(byMember, g) = {}
    BY DEF Init, membersOf
  <2> QED BY <2>1, ListEmpty DEF OrderMatchesMembers, Lists
<1>7. InStep
  BY <1>1 DEF InStep, Init, Apart, Steady, Synced, GroupKinds
<1>8. Rounds
  BY <1>1 DEF Rounds, PickAlone, Counted, Init
<1> QED BY <1>2, <1>3, <1>4, <1>5, <1>6, <1>7, <1>8 DEF IndInv, Base

\* The names a lookup finds in a group are those of its members.
LEMMA NamesOfMembers ==
  ASSUME TypeOK, OrderMatchesMembers, NEW g \in Groups
  PROVE  namesOf(g) = {byMember[m].name : m \in membersOf(byMember, g)}
<1>1. ToSet(memberOrder[g]) = membersOf(byMember, g)
  BY DEF OrderMatchesMembers
<1>2. \A i \in DOMAIN memberOrder[g] : memberOrder[g][i] \in membersOf(byMember, g)
  BY <1>1 DEF ToSet
<1>3. \A m \in membersOf(byMember, g) : \E i \in DOMAIN memberOrder[g] : memberOrder[g][i] = m
  BY <1>1 DEF ToSet
<1> QED BY <1>2, <1>3 DEF namesOf

\* A member's entry is a row of its table.
LEMMA Rows ==
  ASSUME TypeOK
  PROVE  /\ \A g \in Groups : byGroup[g] # None => byGroup[g] \in GroupRow
         /\ \A g \in Groups : dbGroup[g] # None => dbGroup[g] \in GroupRow
         /\ \A m \in Members : byMember[m] # None =>
              byMember[m] \in MemberRow /\ byMember[m].group \in Groups /\ byMember[m].name \in Names
         /\ \A m \in Members : dbMember[m] # None =>
              dbMember[m] \in MemberRow /\ dbMember[m].group \in Groups /\ dbMember[m].name \in Names
  BY DEF TypeOK, MemberRow

\* What an operation that begins has found out.
Claims(j) ==
  /\ j.stage = "db"
  /\ j.kind \in {"addGroup", "setGroup", "delGroup", "stray"} \cup MemberKinds
  /\ target(j) < nextGroup
  /\ j.kind \in {"setGroup", "delGroup"} => byGroup[j.group] # None
  /\ j.kind \in MemberKinds => j.member < nextMember
  /\ j.kind \in {"setMember", "delMember"} =>
       byMember[j.member] # None /\ byMember[j.member].group = j.group
  /\ j.kind \in {"addMember", "setMember"} => j.row.group = j.group
  /\ j.kind = "setMember" => j.row = byMember[j.member]
  /\ j.kind = "delGroup" => \A m \in membersOf(byMember, j.group) : byMember[m].name \in j.names
  /\ j.kind = "delMember" => byMember[j.member].name \in j.names

Begins(o) ==
  \/ \E p \in Prefix : AddGroup(o, p)
  \/ \E g \in Groups : \/ DelGroup(o, g)
                       \/ \E row \in GroupRow : SetGroup(o, g, row)
                       \/ \E n \in Names : AddMember(o, g, n)
  \/ \E m \in Members : DelMember(o, m) \/ SetMember(o, m)
  \/ \E i \in Strays : DelStray(o, i) \/ \E row \in GroupRow : SaveStray(o, i, row)

LEMMA Beginnings ==
  ASSUME Base, NEW o \in Ops, Begins(o)
  PROVE  \E j \in Jobs : begin(o, j) /\ Claims(j)
<1>t. TypeOK /\ Fresh /\ OrderMatchesMembers
  BY DEF Base
<1>n. nextGroup \in Nat /\ nextGroup >= 1 /\ nextMember \in Nat /\ nextMember >= 1
  BY <1>t, CountAssumption DEF TypeOK
<1>g. \A g \in Groups : byGroup[g] # None => g < nextGroup
  BY <1>t, <1>n DEF Fresh, Groups
<1>m. \A m \in Members : byMember[m] # None => m < nextMember /\ byMember[m].group < nextGroup
  BY <1>t, <1>n DEF Fresh, Members
<1>1. ASSUME NEW p \in Prefix, AddGroup(o, p)
      PROVE  \E j \in Jobs : begin(o, j) /\ Claims(j)
  <2> DEFINE j == [kind |-> "addGroup", stage |-> "db", group |-> 0, row |-> [prefix |-> p]]
  <2>1. j \in Jobs
    BY DEF Jobs, GroupRow
  <2>2. Claims(j)
    BY <1>n DEF Claims, target, MemberKinds
  <2>3. begin(o, j)
    BY <1>1 DEF AddGroup
  <2> QED BY <2>1, <2>2, <2>3
<1>2. ASSUME NEW g \in Groups, NEW row \in GroupRow, SetGroup(o, g, row)
      PROVE  \E j \in Jobs : begin(o, j) /\ Claims(j)
  <2> DEFINE j == [kind |-> "setGroup", stage |-> "db", group |-> g, row |-> row]
  <2>1. j \in Jobs
    BY DEF Jobs, Stages
  <2>2. Claims(j)
    BY <1>2, <1>g DEF Claims, target, MemberKinds, SetGroup
  <2>3. begin(o, j)
    BY <1>2 DEF SetGroup
  <2> QED BY <2>1, <2>2, <2>3
<1>3. ASSUME NEW g \in Groups, NEW n \in Names, AddMember(o, g, n)
      PROVE  \E j \in Jobs : begin(o, j) /\ Claims(j)
  <2> DEFINE j == [kind |-> "addMember", stage |-> "db", group |-> g, member |-> 0,
                   row |-> [group |-> g, name |-> n]]
  <2>1. j \in Jobs
    BY DEF Jobs, MemberRow
  <2>2. Claims(j)
    BY <1>3, <1>g, <1>n DEF Claims, target, MemberKinds, AddMember
  <2>3. begin(o, j)
    BY <1>3 DEF AddMember
  <2> QED BY <2>1, <2>2, <2>3
<1>4. ASSUME NEW m \in Members, SetMember(o, m)
      PROVE  \E j \in Jobs : begin(o, j) /\ Claims(j)
  <2> DEFINE j == [kind |-> "setMember", stage |-> "db", group |-> byMember[m].group,
                   member |-> m, row |-> byMember[m]]
  <2>0. byMember[m] # None /\ byMember[m] \in MemberRow /\ byMember[m].group \in Groups
    BY <1>4, <1>t, Rows DEF SetMember
  <2>1. j \in Jobs
    BY <2>0 DEF Jobs, Stages
  <2>2. Claims(j)
    BY <2>0, <1>m DEF Claims, target, MemberKinds
  <2>3. begin(o, j)
    BY <1>4 DEF SetMember
  <2> QED BY <2>1, <2>2, <2>3
<1>5. ASSUME NEW g \in Groups, DelGroup(o, g)
      PROVE  \E j \in Jobs : begin(o, j) /\ Claims(j)
  <2> DEFINE j == [kind |-> "delGroup", stage |-> "db", group |-> g, names |-> namesOf(g)]
  <2>0. /\ \A m \in membersOf(byMember, g) : byMember[m].name \in namesOf(g)
        /\ namesOf(g) \subseteq Names
    <3>1. \A m \in membersOf(byMember, g) : byMember[m].name \in Names
      BY <1>t, Rows DEF membersOf
    <3> QED BY <3>1, <1>t, NamesOfMembers
  <2>1. j \in Jobs
    BY <2>0 DEF Jobs, Stages
  <2>2. Claims(j)
    BY <1>5, <2>0, <1>g DEF Claims, target, MemberKinds, DelGroup
  <2>3. begin(o, j)
    BY <1>5 DEF DelGroup
  <2> QED BY <2>1, <2>2, <2>3
<1>6. ASSUME NEW m \in Members, DelMember(o, m)
      PROVE  \E j \in Jobs : begin(o, j) /\ Claims(j)
  <2> DEFINE j == [kind |-> "delMember", stage |-> "db", group |-> byMember[m].group,
                   member |-> m, names |-> {byMember[m].name}]
  <2>0. byMember[m] # None /\ byMember[m].name \in Names /\ byMember[m].group \in Groups
    BY <1>6, <1>t, Rows DEF DelMember
  <2>1. j \in Jobs
    BY <2>0 DEF Jobs, Stages
  <2>2. Claims(j)
    BY <2>0, <1>m DEF Claims, target, MemberKinds
  <2>3. begin(o, j)
    BY <1>6 DEF DelMember
  <2> QED BY <2>1, <2>2, <2>3
<1>7. ASSUME NEW i \in Strays, NEW row \in GroupRow, SaveStray(o, i, row)
      PROVE  \E j \in Jobs : begin(o, j) /\ Claims(j)
  <2> DEFINE j == [kind |-> "stray", stage |-> "db", group |-> 0, id |-> i, row |-> row]
  <2>1. j \in Jobs
    BY DEF Jobs, Stages
  <2>2. Claims(j)
    BY <1>n DEF Claims, target, MemberKinds
  <2>3. begin(o, j)
    BY <1>7 DEF SaveStray
  <2> QED BY <2>1, <2>2, <2>3
<1>8. ASSUME NEW i \in Strays, DelStray(o, i)
      PROVE  \E j \in Jobs : begin(o, j) /\ Claims(j)
  <2> DEFINE j == [kind |-> "stray", stage |-> "db", group |-> 0, id |-> i, row |-> None]
  <2>1. j \in Jobs
    BY DEF Jobs, Stages
  <2>2. Claims(j)
    BY <1>n DEF Claims, target, MemberKinds
  <2>3. begin(o, j)
    BY <1>8 DEF DelStray
  <2> QED BY <2>1, <2>2, <2>3
<1> QED BY <1>1, <1>2, <1>3, <1>4, <1>5, <1>6, <1>7, <1>8 DEF Begins

\* A step that changes no table and no index, and one job at most.
LEMMA JobMovesBase ==
  ASSUME Base, NEW o \in Ops, NEW j \in Jobs,
         UNCHANGED <<db, index>>, job' = [job EXCEPT ![o] = j],
         byStray' \in [Strays -> GroupRow \cup {None}],
         rrRound' \subseteq Names, stuck' \in BOOLEAN, clash' \in BOOLEAN, raced' \in BOOLEAN,
         Claims(j) \/ j.kind \in {"idle", "stray", "clean", "pick"}
  PROVE  Base'
<1>t. TypeOK /\ Fresh /\ OneHome /\ TablesOK /\ OrderMatchesMembers
  BY DEF Base
<1>u. /\ dbGroup' = dbGroup /\ dbMember' = dbMember /\ byGroup' = byGroup /\ byMember' = byMember
      /\ nextGroup' = nextGroup /\ nextMember' = nextMember
      /\ memberOrder' = memberOrder /\ listed' = listed
  BY DEF db, index
<1>j. job'[o] = j /\ \A p \in Ops : p # o => job'[p] = job[p]
  BY <1>t DEF TypeOK
<1>1. TypeOK'
  BY <1>t, <1>u DEF TypeOK
<1>2. Fresh'
  <2>1. target(j) < nextGroup
    <3>1. CASE j.kind \in {"idle", "stray", "clean", "pick"}
      <4>1. target(j) = 0
        BY <3>1, JobShape DEF target
      <4> QED BY <4>1, <1>t, CountAssumption DEF TypeOK
    <3>2. CASE Claims(j)
      BY <3>2 DEF Claims
    <3> QED BY <3>1, <3>2
  <2>2. j.kind \in MemberKinds => j.member < nextMember
    BY DEF Claims, MemberKinds
  <2>3. \A p \in Ops : target(job'[p]) < nextGroup
    BY <2>1, <1>j, <1>t DEF Fresh
  <2>4. \A p \in Ops : job'[p].kind \in MemberKinds => job'[p].member < nextMember
    BY <2>2, <1>j, <1>t DEF Fresh
  <2> QED BY <2>3, <2>4, <1>t, <1>u DEF Fresh, target
<1>3. OneHome'
  <2>1. PICK home \in [Members -> 0 .. MaxGroups] : Homes(home)
    BY <1>t DEF OneHome
  <2>2. j.kind \in MemberKinds /\ j.member # 0 => j.group = home[j.member]
    <3>1. SUFFICES ASSUME j.kind \in MemberKinds, j.member # 0 PROVE j.group = home[j.member]
      OBVIOUS
    <3>2. Claims(j) /\ j.kind \in {"setMember", "delMember"} /\ j.member \in Members
      BY <3>1, JobShape DEF Claims, MemberKinds
    <3>3. byMember[j.member] # None /\ byMember[j.member].group = j.group
      BY <3>2 DEF Claims
    <3> QED BY <3>2, <3>3, <2>1 DEF Homes
  <2>3. Homes(home)'
    BY <2>1, <2>2, <1>j, <1>u DEF Homes
  <2> QED BY <2>3 DEF OneHome
<1>4. TablesOK'
  <2>1. j.kind \in {"addMember", "setMember"} => j.row.group = j.group
    BY DEF Claims
  <2>2. j.kind \in {"delGroup", "delMember"} => j.stage # "index"
    BY DEF Claims
  <2> QED BY <2>1, <2>2, <1>t, <1>u, <1>j DEF TablesOK
<1>5. OrderMatchesMembers'
  BY <1>t, <1>u DEF OrderMatchesMembers, membersOf
<1> QED BY <1>1, <1>2, <1>3, <1>4, <1>5 DEF Base

\* A step that changes neither tables, nor indexes, nor jobs.
LEMMA NothingMovesBase ==
  ASSUME Base, UNCHANGED <<db, index, job>>,
         byStray' \in [Strays -> GroupRow \cup {None}],
         rrRound' \subseteq Names, stuck' \in BOOLEAN, clash' \in BOOLEAN, raced' \in BOOLEAN
  PROVE  Base'
<1>t. TypeOK /\ Fresh /\ OneHome /\ TablesOK /\ OrderMatchesMembers
  BY DEF Base
<1>u. /\ dbGroup' = dbGroup /\ dbMember' = dbMember /\ byGroup' = byGroup /\ byMember' = byMember
      /\ nextGroup' = nextGroup /\ nextMember' = nextMember
      /\ memberOrder' = memberOrder /\ listed' = listed /\ job' = job
  BY DEF db, index
<1>1. TypeOK'
  BY <1>t, <1>u DEF TypeOK
<1>2. Fresh'
  BY <1>t, <1>u DEF Fresh, target
<1>3. OneHome'
  BY <1>t, <1>u DEF OneHome, Homes
<1>4. TablesOK'
  BY <1>t, <1>u DEF TablesOK
<1>5. OrderMatchesMembers'
  BY <1>t, <1>u DEF OrderMatchesMembers, membersOf
<1> QED BY <1>1, <1>2, <1>3, <1>4, <1>5 DEF Base

\* What a deletion leaves to be cleaned up is a job.
LEMMA CleanJob ==
  ASSUME NEW names \in SUBSET Names
  PROVE  LET j == IF names = {} THEN Idle
                  ELSE [kind |-> "clean", stage |-> "count", group |-> 0, left |-> names] IN
         /\ j \in Jobs /\ j.kind \in {"idle", "clean"} /\ target(j) = 0
         /\ names # {} => j.kind = "clean" /\ j.left = names
  BY DEF Jobs, Idle, target

-----------------------------------------------------------------------------
(* What operations on one group keep apart *)

\* An operation that is not an addition of a member has its group for itself.
LEMMA Elsewhere ==
  ASSUME Apart, NEW o \in Ops, NEW p \in Ops, p # o,
         job[o].kind \in {"addGroup", "setGroup", "delGroup"} \cup MemberKinds,
         job[p].kind \in {"addGroup", "setGroup", "delGroup"} \cup MemberKinds,
         job[o].group # 0,
         job[o].kind # "addMember" \/ job[p].kind # "addMember"
  PROVE  job[p].group # job[o].group
<1>1. target(job[o]) = job[o].group /\ target(job[p]) = job[p].group
  BY DEF target, MemberKinds
<1> QED BY <1>1 DEF Apart

\* Going on with the same group, or leaving it, keeps operations apart.
LEMMA ApartKept ==
  ASSUME Apart, NEW o \in Ops, \A p \in Ops : p # o => job'[p] = job[p],
         \/ target(job'[o]) = 0
         \/ target(job'[o]) = target(job[o]) /\ job'[o].kind = job[o].kind
  PROVE  Apart'
<1>1. \A p \in Ops : p # o => target(job'[p]) = target(job[p])
  OBVIOUS
<1> QED BY <1>1 DEF Apart, target

\* Whatever mentions a member agrees on its group.
LEMMA SameHome ==
  ASSUME OneHome
  PROVE  /\ \A m \in Members : dbMember[m] # None /\ byMember[m] # None =>
              dbMember[m].group = byMember[m].group
         /\ \A o \in Ops : job[o].kind \in MemberKinds /\ job[o].member \in Members =>
              /\ dbMember[job[o].member] # None => dbMember[job[o].member].group = job[o].group
              /\ byMember[job[o].member] # None => byMember[job[o].member].group = job[o].group
         /\ \A o, p \in Ops :
              /\ job[o].kind \in MemberKinds /\ job[o].member \in Members
              /\ job[p].kind \in MemberKinds /\ job[p].member = job[o].member
              => job[p].group = job[o].group
<1>1. PICK home \in [Members -> 0 .. MaxGroups] : Homes(home)
  BY DEF OneHome
<1>2. \A m \in Members : m # 0
  BY DEF Members
<1> QED BY <1>1, <1>2 DEF Homes

\* While nothing has overlapped a lookup, other operations move only without one.
LEMMA PicksKept ==
  ASSUME PickAlone, raced' = raced, NEW o \in Ops, job[o] # Idle, job[o].kind # "pick",
         job'[o].kind # "pick", \A p \in Ops : p # o => job'[p] = job[p]
  PROVE  PickAlone'
<1> SUFFICES ASSUME ~raced, NEW p \in Ops, job'[p].kind = "pick" PROVE FALSE
  BY DEF PickAlone, named
<1>1. p # o /\ job[p].kind = "pick"
  OBVIOUS
<1> QED BY <1>1 DEF PickAlone

\* What changes no entry of a member and cleans nothing keeps the counters accounted for.
LEMMA RoundsKept ==
  ASSUME Rounds, NEW o \in Ops, job[o] # Idle, job[o].kind \notin {"pick", "clean"},
         job'[o].kind # "pick", \A p \in Ops : p # o => job'[p] = job[p],
         byMember' = byMember, rrRound' = rrRound, clash' = clash, raced' = raced
  PROVE  Rounds'
<1>1. PickAlone'
  BY PicksKept DEF Rounds
<1>2. Counted'
  <2> SUFFICES ASSUME ~clash, ~raced, NEW n \in rrRound
               PROVE  named(n)' \/ \E p \in Ops : job'[p].kind = "clean" /\ n \in job'[p].left
    BY DEF Counted, named
  <2>1. CASE named(n)
    BY <2>1 DEF named
  <2>2. CASE \E p \in Ops : job[p].kind = "clean" /\ n \in job[p].left
    BY <2>2
  <2> QED BY <2>1, <2>2 DEF Rounds, Counted
<1> QED BY <1>1, <1>2 DEF Rounds

-----------------------------------------------------------------------------
(* The steps of operations *)

\* The statements on groups: ids are fresh, prefixes stay apart.
LEMMA InsertGroupKeeps ==
  ASSUME IndInv, NEW o \in Ops, InsertGroup(o)
  PROVE  IndInv'
<1> DEFINE g == nextGroup
           k == job'[o]
<1>k. Base /\ InStep /\ Rounds
  BY DEF IndInv
<1>t. TypeOK /\ Fresh /\ OneHome /\ TablesOK /\ OrderMatchesMembers
  BY <1>k DEF Base
<1>0. job[o] \in Jobs /\ job[o].kind = "addGroup" /\ job[o].stage = "db" /\ g \in Groups
  BY <1>t, CountAssumption DEF TypeOK, InsertGroup, atDB, Groups
<1>j. /\ k \in Jobs /\ k.kind = "addGroup" /\ k.stage = "index" /\ k.group = g
      /\ k.row = job[o].row
      /\ \A p \in Ops : p # o => job'[p] = job[p]
      /\ job' \in [Ops -> Jobs]
  <2> DEFINE J == [[job[o] EXCEPT !.group = g] EXCEPT !.stage = "index"]
  <2>1. job' = [job EXCEPT ![o] = J]
    BY DEF InsertGroup, persisted
  <2>2. J \in Jobs /\ J.kind = "addGroup" /\ J.stage = "index" /\ J.group = g /\ J.row = job[o].row
    BY <1>0, PersistedGroup
  <2> HIDE DEF J
  <2> QED BY <2>1, <2>2, <1>t DEF TypeOK
<1>u. /\ dbGroup' = [dbGroup EXCEPT ![g] = job[o].row] /\ dbMember' = dbMember
      /\ byGroup' = byGroup /\ byMember' = byMember
      /\ nextGroup' = g + 1 /\ nextMember' = nextMember
      /\ memberOrder' = memberOrder /\ listed' = listed /\ rrRound' = rrRound
      /\ byStray' = byStray /\ stuck' = stuck /\ clash' = clash /\ raced' = raced
  BY DEF InsertGroup, index, history
<1>n. g \in Nat /\ nextMember \in Nat /\ g >= 1
  BY <1>t, CountAssumption DEF TypeOK
<1>r. job[o].row \in GroupRow
  BY <1>0, JobShape
<1>1. TypeOK'
  <2>1. dbGroup' \in [Groups -> GroupRow \cup {None}]
    BY <1>t, <1>u, <1>r DEF TypeOK
  <2>2. nextGroup' \in 1 .. MaxGroups + 1
    BY <1>0, <1>u, CountAssumption DEF Groups
  <2> QED BY <1>t, <1>u, <1>j, <2>1, <2>2 DEF TypeOK
<1>2. Fresh'
  <2>1. \A h \in Groups : h >= g + 1 => dbGroup'[h] = None /\ byGroup'[h] = None
    BY <1>t, <1>u, <1>n DEF Fresh, TypeOK, Groups
  <2>2. \A p \in Ops : target(job'[p]) < g + 1
    <3>1. target(k) = g
      BY <1>j DEF target
    <3>2. \A p \in Ops : target(job[p]) < g /\ target(job[p]) \in Nat
      <4>1. \A p \in Ops : target(job[p]) \in Nat
        BY <1>t, JobShape, CountAssumption DEF TypeOK, target, MemberKinds, Groups
      <4> QED BY <4>1, <1>t DEF Fresh
    <3> QED BY <3>1, <3>2, <1>j, <1>n
  <2>3. \A p \in Ops : job'[p].kind \in MemberKinds => job'[p].member < nextMember
    BY <1>t, <1>j DEF Fresh, MemberKinds
  <2>4. \A m \in Members : byMember[m] # None => byMember[m].group < g + 1
    BY <1>t, <1>n, Rows DEF Fresh, Groups
  <2>5. \A m \in Members : dbMember[m] # None => dbMember[m].group < g + 1
    BY <1>t, <1>n, Rows DEF Fresh, Groups
  <2> QED BY <2>1, <2>2, <2>3, <2>4, <2>5, <1>t, <1>u DEF Fresh, target
<1>3. OneHome'
  <2>1. PICK home \in [Members -> 0 .. MaxGroups] : Homes(home)
    BY <1>t DEF OneHome
  <2>2. Homes(home)'
    BY <2>1, <1>j, <1>u DEF Homes, MemberKinds
  <2> QED BY <2>2 DEF OneHome
<1>4. TablesOK'
  <2>1. \A a, b \in Groups : dbGroup'[a] # None /\ dbGroup'[b] # None /\ a # b =>
          dbGroup'[a].prefix # dbGroup'[b].prefix
    <3>1. \A h \in Groups : h # 0 /\ dbGroup[h] # None => dbGroup[h].prefix # job[o].row.prefix
      BY DEF InsertGroup, prefixUnique
    <3>2. \A h \in Groups : h # 0
      BY DEF Groups
    <3> QED BY <3>1, <3>2, <1>t, <1>u, <1>0 DEF TablesOK, TypeOK
  <2>2. \A m \in Members : dbMember'[m] # None => dbGroup'[dbMember'[m].group] # None
    BY <1>t, <1>u, <1>0, <1>r, Rows, NoneAssumption DEF TablesOK, TypeOK
  <2>3. \A p \in Ops : job[p].kind = "delGroup" => job[p].group # g
    BY <1>t, <1>n DEF Fresh, target
  <2>4. \A p \in Ops : job'[p].kind = "delGroup" /\ job'[p].stage = "index" =>
          dbGroup'[job'[p].group] = None
    <3>1. \A h \in Groups : h # g => dbGroup'[h] = dbGroup[h]
      BY <1>t, <1>u DEF TypeOK
    <3>2. \A p \in Ops : job[p].kind = "delGroup" => job[p].group \in Groups
      BY <1>t, JobShape DEF TypeOK
    <3>3. job'[o].kind # "delGroup" /\ \A p \in Ops : p # o => job'[p] = job[p]
      BY <1>j
    <3>4. \A p \in Ops : job[p].kind = "delGroup" /\ job[p].stage = "index" =>
            dbGroup[job[p].group] = None
      BY <1>t DEF TablesOK
    <3> QED BY <2>3, <3>1, <3>2, <3>3, <3>4
  <2> QED BY <2>1, <2>2, <2>4, <1>t, <1>u, <1>j DEF TablesOK
<1>5. OrderMatchesMembers'
  BY <1>t, <1>u DEF OrderMatchesMembers, membersOf
<1>6. Base'
  BY <1>1, <1>2, <1>3, <1>4, <1>5 DEF Base
<1>7. InStep'
  <2> SUFFICES ASSUME ~clash PROVE Apart' /\ (\A p \in Ops : Steady(p)') /\ Synced'
    BY <1>u DEF InStep
  <2>1. Apart /\ (\A p \in Ops : Steady(p)) /\ Synced
    BY <1>k DEF InStep
  <2>2. Apart'
    <3>1. target(job'[o]) = g
      BY <1>j DEF target
    <3>2. \A p \in Ops : p # o => target(job'[p]) = target(job[p]) /\ target(job[p]) # g
      BY <1>t, <1>j, <1>n DEF Fresh
    <3> QED BY <2>1, <3>1, <3>2, <1>j DEF Apart
  <2>3. ASSUME NEW p \in Ops PROVE Steady(p)'
    <3>1. CASE p = o
      BY <3>1, <1>j, <1>u, <1>0, <1>t DEF Steady, GroupKinds, TypeOK
    <3>2. CASE p # o
      <4>1. Steady(p) /\ job'[p] = job[p]
        BY <2>1, <3>2, <1>j
      <4>2. job[p].kind \in GroupKinds => job[p].group # g
        BY <1>t, <1>n DEF Fresh, target, GroupKinds
      <4> QED BY <4>1, <4>2, <1>u, <1>t DEF Steady, TypeOK, membersOf, GroupKinds
    <3> QED BY <3>1, <3>2
  <2>4. \A h \in Groups : (\A p \in Ops : ~groupDue(p, h)') => byGroup'[h] = dbGroup'[h]
    <3> SUFFICES ASSUME NEW h \in Groups, \A p \in Ops : ~groupDue(p, h)'
                 PROVE  byGroup'[h] = dbGroup'[h]
      OBVIOUS
    <3>1. h # g
      BY <1>j DEF groupDue
    <3>2. \A p \in Ops : ~groupDue(p, h)
      BY <1>0, <1>j DEF groupDue
    <3> QED BY <2>1, <3>1, <3>2, <1>u, <1>t DEF Synced, TypeOK
  <2>5. \A m \in Members : (\A p \in Ops : ~memberDue(p, m)') => byMember'[m] = dbMember'[m]
    <3> SUFFICES ASSUME NEW m \in Members, \A p \in Ops : ~memberDue(p, m)'
                 PROVE  byMember'[m] = dbMember'[m]
      OBVIOUS
    <3>1. \A p \in Ops : ~memberDue(p, m)
      BY <1>0, <1>j, <1>u DEF memberDue, membersOf
    <3> QED BY <2>1, <3>1, <1>u DEF Synced
  <2> QED BY <2>2, <2>3, <2>4, <2>5 DEF Synced
<1>8. Rounds'
  <2>1. job[o] # Idle /\ job[o].kind \notin {"pick", "clean"}
    BY <1>0 DEF Idle
  <2>2. job'[o].kind # "pick"
    BY <1>j
  <2> QED BY <2>1, <2>2, <1>k, <1>j, <1>u, RoundsKept
<1> QED BY <1>6, <1>7, <1>8 DEF IndInv

LEMMA UpdateGroupKeeps ==
  ASSUME IndInv, NEW o \in Ops, UpdateGroup(o)
  PROVE  IndInv'
<1> DEFINE g == job[o].group
           k == job'[o]
<1>k. Base /\ InStep /\ Rounds
  BY DEF IndInv
<1>t. TypeOK /\ Fresh /\ OneHome /\ TablesOK /\ OrderMatchesMembers
  BY <1>k DEF Base
<1>0. job[o] \in Jobs /\ job[o].kind = "setGroup" /\ job[o].stage = "db" /\ g \in Groups
  BY <1>t, JobShape DEF TypeOK, UpdateGroup, atDB
<1>j. /\ k \in Jobs /\ k.kind = "setGroup" /\ k.stage = "index" /\ k.group = g
      /\ k.row = job[o].row
      /\ \A p \in Ops : p # o => job'[p] = job[p]
      /\ job' \in [Ops -> Jobs]
  BY <1>0, <1>t, Persisted DEF TypeOK, UpdateGroup, persisted
<1>u. /\ dbGroup' = [dbGroup EXCEPT ![g] = IF @ = None THEN None ELSE job[o].row]
      /\ dbMember' = dbMember /\ byGroup' = byGroup /\ byMember' = byMember
      /\ nextGroup' = nextGroup /\ nextMember' = nextMember
      /\ memberOrder' = memberOrder /\ listed' = listed /\ rrRound' = rrRound
      /\ byStray' = byStray /\ stuck' = stuck /\ clash' = clash /\ raced' = raced
  BY DEF UpdateGroup, index, history
<1>r. job[o].row \in GroupRow
  BY <1>0, JobShape
<1>d. \A h \in Groups : /\ dbGroup'[h] = None <=> dbGroup[h] = None
                        /\ h # g => dbGroup'[h] = dbGroup[h]
  BY <1>t, <1>u, <1>0, <1>r, NoneAssumption DEF TypeOK
<1>1. TypeOK'
  <2>1. dbGroup' \in [Groups -> GroupRow \cup {None}]
    BY <1>t, <1>u, <1>r DEF TypeOK
  <2> QED BY <1>t, <1>u, <1>j, <2>1 DEF TypeOK
<1>2. Fresh'
  <2>1. target(k) = target(job[o])
    BY <1>0, <1>j DEF target
  <2>2. \A p \in Ops : target(job'[p]) < nextGroup
    BY <2>1, <1>j, <1>t DEF Fresh
  <2>3. \A p \in Ops : job'[p].kind \in MemberKinds => job'[p].member < nextMember
    BY <1>t, <1>j DEF Fresh, MemberKinds
  <2> QED BY <2>2, <2>3, <1>t, <1>u, <1>d DEF Fresh, target
<1>3. OneHome'
  <2>1. PICK home \in [Members -> 0 .. MaxGroups] : Homes(home)
    BY <1>t DEF OneHome
  <2>2. Homes(home)'
    BY <2>1, <1>j, <1>u DEF Homes, MemberKinds
  <2> QED BY <2>2 DEF OneHome
<1>4. TablesOK'
  <2>1. \A a, b \in Groups : dbGroup'[a] # None /\ dbGroup'[b] # None /\ a # b =>
          dbGroup'[a].prefix # dbGroup'[b].prefix
    <3>1. \A h \in Groups : h # g /\ dbGroup[h] # None => dbGroup[h].prefix # job[o].row.prefix
      BY DEF UpdateGroup, prefixUnique
    <3>2. dbGroup'[g] # None => dbGroup'[g] = job[o].row
      BY <1>t, <1>u, <1>0 DEF TypeOK
    <3> QED BY <3>1, <3>2, <1>t, <1>d DEF TablesOK
  <2>2. \A m \in Members : dbMember'[m] # None => dbGroup'[dbMember'[m].group] # None
    BY <1>t, <1>u, <1>d, Rows DEF TablesOK
  <2>3. \A p \in Ops : job'[p].kind = "delGroup" /\ job'[p].stage = "index" =>
          dbGroup'[job'[p].group] = None
    BY <1>t, <1>d, <1>j, JobShape DEF TablesOK, TypeOK
  <2> QED BY <2>1, <2>2, <2>3, <1>t, <1>u, <1>j, <1>0 DEF TablesOK
<1>5. OrderMatchesMembers'
  BY <1>t, <1>u DEF OrderMatchesMembers, membersOf
<1>6. Base'
  BY <1>1, <1>2, <1>3, <1>4, <1>5 DEF Base
<1>7. InStep'
  <2> SUFFICES ASSUME ~clash PROVE Apart' /\ (\A p \in Ops : Steady(p)') /\ Synced'
    BY <1>u DEF InStep
  <2>1. Apart /\ (\A p \in Ops : Steady(p)) /\ Synced
    BY <1>k DEF InStep
  <2>2. Apart'
    <3>1. target(job'[o]) = target(job[o])
      BY <1>0, <1>j DEF target
    <3> QED BY <2>1, <3>1, <1>0, <1>j, ApartKept
  <2>3. ASSUME NEW p \in Ops PROVE Steady(p)'
    <3>1. CASE p = o
      <4>1. dbGroup[g] # None
        BY <2>1, <1>0 DEF Steady
      <4>2. dbGroup'[g] = job[o].row /\ dbGroup'[g] # None
        BY <4>1, <1>d, <1>t, <1>u, <1>0 DEF TypeOK
      <4> QED BY <3>1, <4>2, <1>j DEF Steady, GroupKinds
    <3>2. CASE p # o
      <4>0. g # 0
        BY <1>0 DEF Groups
      <4>1. Steady(p) /\ job'[p] = job[p]
        BY <2>1, <3>2, <1>j
      <4>2. job[p].kind \in GroupKinds => job[p].group # g
        BY <2>1, <3>2, <4>0, <1>0, Elsewhere DEF GroupKinds
      <4> QED BY <4>1, <4>2, <1>u, <1>t DEF Steady, TypeOK, membersOf, GroupKinds
    <3> QED BY <3>1, <3>2
  <2>4. \A h \in Groups : (\A p \in Ops : ~groupDue(p, h)') => byGroup'[h] = dbGroup'[h]
    <3> SUFFICES ASSUME NEW h \in Groups, \A p \in Ops : ~groupDue(p, h)'
                 PROVE  byGroup'[h] = dbGroup'[h]
      OBVIOUS
    <3>1. h # g
      BY <1>j DEF groupDue
    <3>2. \A p \in Ops : ~groupDue(p, h)
      BY <1>0, <1>j DEF groupDue
    <3> QED BY <2>1, <3>1, <3>2, <1>u, <1>t DEF Synced, TypeOK
  <2>5. \A x \in Members : (\A p \in Ops : ~memberDue(p, x)') => byMember'[x] = dbMember'[x]
    <3> SUFFICES ASSUME NEW x \in Members, \A p \in Ops : ~memberDue(p, x)'
                 PROVE  byMember'[x] = dbMember'[x]
      OBVIOUS
    <3>1. \A p \in Ops : ~memberDue(p, x)
      BY <1>0, <1>j, <1>u DEF memberDue, membersOf
    <3> QED BY <2>1, <3>1, <1>u DEF Synced
  <2> QED BY <2>2, <2>3, <2>4, <2>5 DEF Synced
<1>8. Rounds'
  <2>1. job[o] # Idle /\ job[o].kind \notin {"pick", "clean"}
    BY <1>0 DEF Idle
  <2>2. job'[o].kind # "pick"
    BY <1>j
  <2> QED BY <2>1, <2>2, <1>k, <1>j, <1>u, RoundsKept
<1> QED BY <1>6, <1>7, <1>8 DEF IndInv

\* Members and group go together, so no member is left without its group.
LEMMA DropGroupKeeps ==
  ASSUME IndInv, NEW o \in Ops, DropGroup(o)
  PROVE  IndInv'
<1> DEFINE g == job[o].group
           k == job'[o]
<1>k. Base /\ InStep /\ Rounds
  BY DEF IndInv
<1>t. TypeOK /\ Fresh /\ OneHome /\ TablesOK /\ OrderMatchesMembers
  BY <1>k DEF Base
<1>0. job[o] \in Jobs /\ job[o].kind = "delGroup" /\ job[o].stage = "db" /\ g \in Groups
  BY <1>t, JobShape DEF TypeOK, DropGroup, atDB
<1>j. /\ k \in Jobs /\ k.kind = "delGroup" /\ k.stage = "index" /\ k.group = g
      /\ k.names = job[o].names
      /\ \A p \in Ops : p # o => job'[p] = job[p]
      /\ job' \in [Ops -> Jobs]
  BY <1>0, <1>t, Persisted DEF TypeOK, DropGroup, persisted
<1>u. /\ dbGroup' = [dbGroup EXCEPT ![g] = None]
      /\ dbMember' = [m \in Members |-> IF m \in membersOf(dbMember, g) THEN None ELSE dbMember[m]]
      /\ byGroup' = byGroup /\ byMember' = byMember
      /\ nextGroup' = nextGroup /\ nextMember' = nextMember
      /\ memberOrder' = memberOrder /\ listed' = listed /\ rrRound' = rrRound
      /\ byStray' = byStray /\ stuck' = stuck /\ clash' = clash /\ raced' = raced
  BY DEF DropGroup, index, history
<1>d. /\ \A h \in Groups : dbGroup'[h] = IF h = g THEN None ELSE dbGroup[h]
      /\ \A m \in Members : dbMember'[m] # None => dbMember'[m] = dbMember[m] /\ dbMember[m].group # g
      /\ \A m \in Members : dbMember[m] = None => dbMember'[m] = None
  BY <1>t, <1>u, <1>0 DEF TypeOK, membersOf
<1>1. TypeOK'
  <2>1. dbGroup' \in [Groups -> GroupRow \cup {None}]
    BY <1>t, <1>u DEF TypeOK
  <2>2. dbMember' \in [Members -> MemberRow \cup {None}]
    BY <1>t, <1>u DEF TypeOK
  <2> QED BY <1>t, <1>u, <1>j, <2>1, <2>2 DEF TypeOK
<1>2. Fresh'
  <2>1. target(k) = target(job[o])
    BY <1>0, <1>j DEF target
  <2>2. \A p \in Ops : target(job'[p]) < nextGroup
    BY <2>1, <1>j, <1>t DEF Fresh
  <2>3. \A p \in Ops : job'[p].kind \in MemberKinds => job'[p].member < nextMember
    BY <1>t, <1>j DEF Fresh, MemberKinds
  <2> QED BY <2>2, <2>3, <1>t, <1>u, <1>d DEF Fresh, target
<1>3. OneHome'
  <2>1. PICK home \in [Members -> 0 .. MaxGroups] : Homes(home)
    BY <1>t DEF OneHome
  <2>2. Homes(home)'
    BY <2>1, <1>j, <1>u, <1>d DEF Homes, MemberKinds
  <2> QED BY <2>2 DEF OneHome
<1>4. TablesOK'
  <2>1. \A a, b \in Groups : dbGroup'[a] # None /\ dbGroup'[b] # None /\ a # b =>
          dbGroup'[a].prefix # dbGroup'[b].prefix
    BY <1>t, <1>d DEF TablesOK
  <2>2. \A m \in Members : dbMember'[m] # None => dbGroup'[dbMember'[m].group] # None
    BY <1>t, <1>d, Rows DEF TablesOK
  <2>3. \A p \in Ops : job'[p].kind = "delGroup" /\ job'[p].stage = "index" =>
          dbGroup'[job'[p].group] = None
    <3>1. \A p \in Ops : job[p].kind = "delGroup" => job[p].group \in Groups
      BY <1>t, JobShape DEF TypeOK
    <3> QED BY <3>1, <1>t, <1>d, <1>j, <1>0 DEF TablesOK
  <2>4. \A p \in Ops : job'[p].kind = "delMember" /\ job'[p].stage = "index" =>
          dbMember'[job'[p].member] = None
    <3>1. \A p \in Ops : job[p].kind = "delMember" => job[p].member \in Members
      BY <1>t, JobShape DEF TypeOK
    <3>2. job'[o].kind # "delMember" /\ \A p \in Ops : p # o => job'[p] = job[p]
      BY <1>j
    <3> QED BY <3>1, <3>2, <1>t, <1>d DEF TablesOK
  <2> QED BY <2>1, <2>2, <2>3, <2>4, <1>t, <1>j, <1>0 DEF TablesOK
<1>5. OrderMatchesMembers'
  BY <1>t, <1>u DEF OrderMatchesMembers, membersOf
<1>6. Base'
  BY <1>1, <1>2, <1>3, <1>4, <1>5 DEF Base
<1>7. InStep'
  <2> SUFFICES ASSUME ~clash PROVE Apart' /\ (\A p \in Ops : Steady(p)') /\ Synced'
    BY <1>u DEF InStep
  <2>1. Apart /\ (\A p \in Ops : Steady(p)) /\ Synced
    BY <1>k DEF InStep
  <2>2. Apart'
    <3>1. target(job'[o]) = target(job[o])
      BY <1>0, <1>j DEF target
    <3> QED BY <2>1, <3>1, <1>0, <1>j, ApartKept
  <2>3. ASSUME NEW p \in Ops PROVE Steady(p)'
    <3>1. CASE p = o
      BY <2>1, <3>1, <1>0, <1>j, <1>u DEF Steady, GroupKinds, membersOf
    <3>2. CASE p # o
      <4>0. g # 0
        BY <1>0 DEF Groups
      <4>1. Steady(p) /\ job'[p] = job[p]
        BY <2>1, <3>2, <1>j
      <4>2. job[p].kind \in GroupKinds \cup MemberKinds => job[p].group # g
        BY <2>1, <3>2, <4>0, <1>0, Elsewhere DEF GroupKinds, MemberKinds
      <4>3. job[p].kind \in {"addMember", "setMember"} => job[p].row.group = job[p].group
        BY <1>t DEF TablesOK
      <4>4. job[p].kind \in GroupKinds => dbGroup'[job[p].group] = dbGroup[job[p].group]
        BY <4>2, <1>u, <1>t DEF TypeOK
      <4>5. \A m \in Members : dbMember[m] = job[p].row /\ job[p].kind \in {"addMember", "setMember"} =>
              dbMember'[m] = dbMember[m]
        BY <4>2, <4>3, <1>u DEF membersOf, MemberKinds
      <4>6. (job[p].kind = "addMember" /\ job[p].stage = "index") \/ job[p].kind = "setMember" =>
              job[p].member \in Members
        BY <1>t, JobShape, CountAssumption DEF TypeOK, MemberKinds, Members
      <4> QED BY <4>1, <4>4, <4>5, <4>6, <1>u DEF Steady, membersOf, GroupKinds
    <3> QED BY <3>1, <3>2
  <2>4. \A h \in Groups : (\A p \in Ops : ~groupDue(p, h)') => byGroup'[h] = dbGroup'[h]
    <3> SUFFICES ASSUME NEW h \in Groups, \A p \in Ops : ~groupDue(p, h)'
                 PROVE  byGroup'[h] = dbGroup'[h]
      OBVIOUS
    <3>1. h # g
      BY <1>j DEF groupDue
    <3>2. \A p \in Ops : ~groupDue(p, h)
      BY <1>0, <1>j DEF groupDue
    <3> QED BY <2>1, <3>1, <3>2, <1>u, <1>t DEF Synced, TypeOK
  <2>5. \A x \in Members : (\A p \in Ops : ~memberDue(p, x)') => byMember'[x] = dbMember'[x]
    <3> SUFFICES ASSUME NEW x \in Members, \A p \in Ops : ~memberDue(p, x)'
                 PROVE  byMember'[x] = dbMember'[x]
      OBVIOUS
    <3>1. \A p \in Ops : ~memberDue(p, x)
      BY <1>0, <1>j, <1>u DEF memberDue, membersOf
    <3>2. byMember[x] = dbMember[x]
      BY <2>1, <3>1 DEF Synced
    <3>3. x \notin membersOf(byMember, g)
      BY <1>j, <1>u DEF memberDue, membersOf
    <3>4. x \notin membersOf(dbMember, g)
      BY <3>2, <3>3 DEF membersOf
    <3> QED BY <3>2, <3>4, <1>u
  <2> QED BY <2>2, <2>3, <2>4, <2>5 DEF Synced
<1>8. Rounds'
  <2>1. job[o] # Idle /\ job[o].kind \notin {"pick", "clean"}
    BY <1>0 DEF Idle
  <2>2. job'[o].kind # "pick"
    BY <1>j
  <2> QED BY <2>1, <2>2, <1>k, <1>j, <1>u, RoundsKept
<1> QED BY <1>6, <1>7, <1>8 DEF IndInv

\* The statements on members: ids are fresh, so a new member has no other home.
LEMMA InsertMemberKeeps ==
  ASSUME IndInv, NEW o \in Ops, InsertMember(o)
  PROVE  IndInv'
<1> DEFINE n == nextMember
           k == job'[o]
           row == job[o].row
<1>k. Base /\ InStep /\ Rounds
  BY DEF IndInv
<1>t. TypeOK /\ Fresh /\ OneHome /\ TablesOK /\ OrderMatchesMembers
  BY <1>k DEF Base
<1>0. job[o] \in Jobs /\ job[o].kind = "addMember" /\ job[o].stage = "db" /\ n \in Members
  BY <1>t, CountAssumption DEF TypeOK, InsertMember, atDB, Members
<1>j. /\ k \in Jobs /\ k.kind = "addMember" /\ k.stage = "index" /\ k.group = job[o].group
      /\ k.row = row /\ k.member = n
      /\ \A p \in Ops : p # o => job'[p] = job[p]
      /\ job' \in [Ops -> Jobs]
  <2> DEFINE J == [[job[o] EXCEPT !.member = n] EXCEPT !.stage = "index"]
  <2>1. job' = [job EXCEPT ![o] = J]
    BY DEF InsertMember, persisted
  <2>2. /\ J \in Jobs /\ J.kind = "addMember" /\ J.stage = "index" /\ J.group = job[o].group
        /\ J.row = row /\ J.member = n
    BY <1>0, PersistedMember
  <2> HIDE DEF J
  <2> QED BY <2>1, <2>2, <1>t DEF TypeOK
<1>u. /\ dbMember' = [dbMember EXCEPT ![n] = row] /\ dbGroup' = dbGroup
      /\ byGroup' = byGroup /\ byMember' = byMember
      /\ nextGroup' = nextGroup /\ nextMember' = n + 1
      /\ memberOrder' = memberOrder /\ listed' = listed /\ rrRound' = rrRound
      /\ byStray' = byStray /\ stuck' = stuck /\ clash' = clash /\ raced' = raced
  BY DEF InsertMember, index, history
<1>n. n \in Nat /\ nextGroup \in Nat /\ n >= 1
  BY <1>t, CountAssumption DEF TypeOK
<1>r. row \in MemberRow /\ row.group = job[o].group /\ row.group \in Groups
  BY <1>0, <1>t, JobShape DEF MemberRow, TablesOK
<1>d. /\ dbMember'[n] = row
      /\ \A m \in Members : m # n => dbMember'[m] = dbMember[m]
  BY <1>t, <1>u, <1>0 DEF TypeOK
<1>1. TypeOK'
  <2>1. dbMember' \in [Members -> MemberRow \cup {None}]
    BY <1>t, <1>u, <1>r DEF TypeOK
  <2>2. nextMember' \in 1 .. MaxMembers + 1
    BY <1>0, <1>u, CountAssumption DEF Members
  <2> QED BY <1>t, <1>u, <1>j, <2>1, <2>2 DEF TypeOK
<1>2. Fresh'
  <2>1. \A m \in Members : m >= n + 1 => dbMember'[m] = None /\ byMember'[m] = None
    BY <1>t, <1>u, <1>d, <1>n DEF Fresh, Members
  <2>2. target(k) = target(job[o])
    BY <1>0, <1>j DEF target
  <2>3. \A p \in Ops : target(job'[p]) < nextGroup
    BY <2>2, <1>j, <1>t DEF Fresh
  <2>4. \A p \in Ops : job'[p].kind \in MemberKinds => job'[p].member < n + 1
    <3>1. \A p \in Ops : job[p].kind \in MemberKinds => job[p].member < n /\ job[p].member \in Nat
      <4>1. \A p \in Ops : job[p].kind \in MemberKinds => job[p].member \in Nat
        BY <1>t, JobShape, CountAssumption DEF TypeOK
      <4> QED BY <4>1, <1>t DEF Fresh
    <3> QED BY <3>1, <1>j, <1>n
  <2>5. row.group < nextGroup
    <3>1. target(job[o]) = row.group
      BY <1>0, <1>r DEF target
    <3> QED BY <3>1, <1>t DEF Fresh
  <2>6. \A m \in Members : dbMember'[m] # None => dbMember'[m].group < nextGroup
    BY <2>5, <1>t, <1>d DEF Fresh
  <2> QED BY <2>1, <2>3, <2>4, <2>6, <1>t, <1>u DEF Fresh, target
<1>3. OneHome'
  <2>1. PICK home \in [Members -> 0 .. MaxGroups] : Homes(home)
    BY <1>t DEF OneHome
  <2> DEFINE new == [home EXCEPT ![n] = row.group]
  <2>2. /\ new \in [Members -> 0 .. MaxGroups] /\ new[n] = row.group
        /\ \A m \in Members : m # n => new[m] = home[m]
    BY <1>0, <1>r, CountAssumption DEF Groups
  <2> HIDE DEF new
  <2>3. byMember[n] = None
    BY <1>0, <1>n, <1>t DEF Fresh
  <2>4. \A m \in Members : dbMember'[m] # None => dbMember'[m].group = new[m]
    BY <2>1, <2>2, <1>d DEF Homes
  <2>5. \A m \in Members : byMember'[m] # None => byMember'[m].group = new[m]
    BY <2>1, <2>2, <2>3, <1>u DEF Homes
  <2>6. \A p \in Ops : job'[p].kind \in MemberKinds /\ job'[p].member # 0 =>
          job'[p].group = new[job'[p].member]
    <3> SUFFICES ASSUME NEW p \in Ops, job'[p].kind \in MemberKinds, job'[p].member # 0
                 PROVE  job'[p].group = new[job'[p].member]
      OBVIOUS
    <3>1. CASE p = o
      BY <3>1, <1>j, <1>r, <2>2
    <3>2. CASE p # o
      <4>1. job[p].kind \in MemberKinds /\ job[p].member # 0 /\ job'[p] = job[p]
        BY <3>2, <1>j
      <4>2. job[p].member \in Members /\ job[p].member # n
        <5>1. job[p].member \in 0 .. MaxMembers
          BY <4>1, <1>t, JobShape DEF TypeOK
        <5>2. job[p].member < n
          BY <4>1, <1>t DEF Fresh
        <5> QED BY <4>1, <5>1, <5>2, <1>n, CountAssumption DEF Members
      <4> QED BY <4>1, <4>2, <2>1, <2>2 DEF Homes
    <3> QED BY <3>1, <3>2
  <2> QED BY <2>2, <2>4, <2>5, <2>6 DEF OneHome, Homes
<1>4. TablesOK'
  <2>1. \A m \in Members : dbMember'[m] # None => dbGroup'[dbMember'[m].group] # None
    <3>1. dbGroup[row.group] # None
      BY DEF InsertMember
    <3> QED BY <3>1, <1>t, <1>u, <1>d DEF TablesOK
  <2>2. \A p \in Ops : job[p].kind = "delMember" => job[p].member \in Members /\ job[p].member # n
    <3> SUFFICES ASSUME NEW p \in Ops, job[p].kind = "delMember"
                 PROVE  job[p].member \in Members /\ job[p].member # n
      OBVIOUS
    <3>1. job[p].member \in Members
      BY <1>t, JobShape DEF TypeOK
    <3>2. job[p].member < n
      BY <1>t DEF Fresh, MemberKinds
    <3> QED BY <3>1, <3>2, <1>n DEF Members
  <2>3. \A p \in Ops : job'[p].kind = "delMember" /\ job'[p].stage = "index" =>
          dbMember'[job'[p].member] = None
    BY <2>2, <1>t, <1>d, <1>j DEF TablesOK
  <2>4. \A p \in Ops : job'[p].kind \in {"addMember", "setMember"} => job'[p].row.group = job'[p].group
    BY <1>t, <1>j, <1>r DEF TablesOK
  <2> QED BY <2>1, <2>3, <2>4, <1>t, <1>u, <1>j DEF TablesOK
<1>5. OrderMatchesMembers'
  BY <1>t, <1>u DEF OrderMatchesMembers, membersOf
<1>6. Base'
  BY <1>1, <1>2, <1>3, <1>4, <1>5 DEF Base
<1>7. InStep'
  <2> SUFFICES ASSUME ~clash PROVE Apart' /\ (\A p \in Ops : Steady(p)') /\ Synced'
    BY <1>u DEF InStep
  <2>1. Apart /\ (\A p \in Ops : Steady(p)) /\ Synced
    BY <1>k DEF InStep
  <2>2. Apart'
    <3>1. target(job'[o]) = target(job[o])
      BY <1>0, <1>j DEF target
    <3> QED BY <2>1, <3>1, <1>0, <1>j, ApartKept
  <2>3. ASSUME NEW p \in Ops PROVE Steady(p)'
    <3>1. CASE p = o
      <4>1. byMember[n] = None
        BY <1>0, <1>n, <1>t DEF Fresh
      <4> QED BY <3>1, <4>1, <1>0, <1>d, <1>j, <1>u DEF Steady, GroupKinds
    <3>2. CASE p # o
      <4>1. Steady(p) /\ job'[p] = job[p]
        BY <2>1, <3>2, <1>j
      <4>2. (job[p].kind = "addMember" /\ job[p].stage = "index") \/ job[p].kind = "setMember" =>
              job[p].member \in Members /\ job[p].member # n
        <5>1. job[p].kind \in MemberKinds => job[p].member < n
          BY <1>t DEF Fresh
        <5>2. (job[p].kind = "addMember" /\ job[p].stage = "index") \/ job[p].kind = "setMember" =>
                job[p].member \in Members
          BY <1>t, JobShape, CountAssumption DEF TypeOK, MemberKinds, Members
        <5> QED BY <5>1, <5>2, <1>n DEF MemberKinds, Members
      <4> QED BY <4>1, <4>2, <1>d, <1>u DEF Steady, membersOf, GroupKinds
    <3> QED BY <3>1, <3>2
  <2>4. \A h \in Groups : (\A p \in Ops : ~groupDue(p, h)') => byGroup'[h] = dbGroup'[h]
    <3> SUFFICES ASSUME NEW h \in Groups, \A p \in Ops : ~groupDue(p, h)'
                 PROVE  byGroup'[h] = dbGroup'[h]
      OBVIOUS
    <3>1. \A p \in Ops : ~groupDue(p, h)
      BY <1>0, <1>j DEF groupDue
    <3> QED BY <2>1, <3>1, <1>u DEF Synced
  <2>5. \A x \in Members : (\A p \in Ops : ~memberDue(p, x)') => byMember'[x] = dbMember'[x]
    <3> SUFFICES ASSUME NEW x \in Members, \A p \in Ops : ~memberDue(p, x)'
                 PROVE  byMember'[x] = dbMember'[x]
      OBVIOUS
    <3>1. x # n
      BY <1>j DEF memberDue
    <3>2. \A p \in Ops : ~memberDue(p, x)
      BY <1>0, <1>j, <1>u DEF memberDue, membersOf
    <3> QED BY <2>1, <3>1, <3>2, <1>d, <1>u DEF Synced
  <2> QED BY <2>2, <2>3, <2>4, <2>5 DEF Synced
<1>8. Rounds'
  <2>1. job[o] # Idle /\ job[o].kind \notin {"pick", "clean"}
    BY <1>0 DEF Idle
  <2>2. job'[o].kind # "pick"
    BY <1>j
  <2> QED BY <2>1, <2>2, <1>k, <1>j, <1>u, RoundsKept
<1> QED BY <1>6, <1>7, <1>8 DEF IndInv

LEMMA UpdateMemberKeeps ==
  ASSUME IndInv, NEW o \in Ops, UpdateMember(o)
  PROVE  IndInv'
<1> DEFINE m == job[o].member
           k == job'[o]
           row == job[o].row
<1>k. Base /\ InStep /\ Rounds
  BY DEF IndInv
<1>t. TypeOK /\ Fresh /\ OneHome /\ TablesOK /\ OrderMatchesMembers
  BY <1>k DEF Base
<1>0. job[o] \in Jobs /\ job[o].kind = "setMember" /\ job[o].stage = "db" /\ m \in Members
  BY <1>t, JobShape DEF TypeOK, UpdateMember, atDB
<1>j. /\ k \in Jobs /\ k.kind = "setMember" /\ k.stage = "index" /\ k.group = job[o].group
      /\ k.row = row /\ k.member = m
      /\ \A p \in Ops : p # o => job'[p] = job[p]
      /\ job' \in [Ops -> Jobs]
  BY <1>0, <1>t, Persisted DEF TypeOK, UpdateMember, persisted
<1>u. /\ dbMember' = [dbMember EXCEPT ![m] = IF @ = None THEN None ELSE row]
      /\ dbGroup' = dbGroup /\ byGroup' = byGroup /\ byMember' = byMember
      /\ nextGroup' = nextGroup /\ nextMember' = nextMember
      /\ memberOrder' = memberOrder /\ listed' = listed /\ rrRound' = rrRound
      /\ byStray' = byStray /\ stuck' = stuck /\ clash' = clash /\ raced' = raced
  BY DEF UpdateMember, index, history
<1>r. row \in MemberRow /\ row.group = job[o].group /\ row.group \in Groups
  BY <1>0, <1>t, JobShape DEF MemberRow, TablesOK
<1>h. dbMember[m] # None => dbMember[m].group = row.group
  <2>1. PICK home \in [Members -> 0 .. MaxGroups] : Homes(home)
    BY <1>t DEF OneHome
  <2>2. m # 0
    BY <1>0 DEF Members
  <2> QED BY <2>1, <2>2, <1>0, <1>r DEF Homes, MemberKinds
<1>d. \A x \in Members : /\ dbMember'[x] = None <=> dbMember[x] = None
                         /\ dbMember[x] # None => dbMember'[x].group = dbMember[x].group
  <2>1. \A x \in Members : x # m => dbMember'[x] = dbMember[x]
    BY <1>t, <1>u DEF TypeOK
  <2>2. dbMember'[m] = IF dbMember[m] = None THEN None ELSE row
    BY <1>t, <1>u, <1>0 DEF TypeOK
  <2>3. row # None
    BY <1>r, NoneAssumption
  <2> QED BY <2>1, <2>2, <2>3, <1>h
<1>1. TypeOK'
  <2>1. dbMember' \in [Members -> MemberRow \cup {None}]
    BY <1>t, <1>u, <1>r DEF TypeOK
  <2> QED BY <1>t, <1>u, <1>j, <2>1 DEF TypeOK
<1>2. Fresh'
  <2>1. target(k) = target(job[o])
    BY <1>0, <1>j DEF target
  <2>2. \A p \in Ops : target(job'[p]) < nextGroup
    BY <2>1, <1>j, <1>t DEF Fresh
  <2>3. \A p \in Ops : job'[p].kind \in MemberKinds => job'[p].member < nextMember
    BY <1>t, <1>j, <1>0 DEF Fresh, MemberKinds
  <2> QED BY <2>2, <2>3, <1>t, <1>u, <1>d DEF Fresh, target
<1>3. OneHome'
  <2>1. PICK home \in [Members -> 0 .. MaxGroups] : Homes(home)
    BY <1>t DEF OneHome
  <2>2. Homes(home)'
    BY <2>1, <1>j, <1>u, <1>d, <1>0 DEF Homes, MemberKinds
  <2> QED BY <2>2 DEF OneHome
<1>4. TablesOK'
  <2>1. \A x \in Members : dbMember'[x] # None => dbGroup'[dbMember'[x].group] # None
    BY <1>t, <1>u, <1>d DEF TablesOK
  <2>2. \A p \in Ops : job'[p].kind = "delMember" /\ job'[p].stage = "index" =>
          dbMember'[job'[p].member] = None
    BY <1>t, <1>d, <1>j, JobShape DEF TablesOK, TypeOK
  <2>3. \A p \in Ops : job'[p].kind \in {"addMember", "setMember"} => job'[p].row.group = job'[p].group
    BY <1>t, <1>j, <1>r DEF TablesOK
  <2> QED BY <2>1, <2>2, <2>3, <1>t, <1>u, <1>j DEF TablesOK
<1>5. OrderMatchesMembers'
  BY <1>t, <1>u DEF OrderMatchesMembers, membersOf
<1>6. Base'
  BY <1>1, <1>2, <1>3, <1>4, <1>5 DEF Base
<1>7. InStep'
  <2> SUFFICES ASSUME ~clash PROVE Apart' /\ (\A p \in Ops : Steady(p)') /\ Synced'
    BY <1>u DEF InStep
  <2>1. Apart /\ (\A p \in Ops : Steady(p)) /\ Synced
    BY <1>k DEF InStep
  <2>0. dbMember' = dbMember
    <3>1. dbMember[m] = row
      BY <2>1, <1>0 DEF Steady
    <3> QED BY <3>1, <1>t, <1>u DEF TypeOK
  <2>2. Apart'
    <3>1. target(job'[o]) = target(job[o])
      BY <1>0, <1>j DEF target
    <3> QED BY <2>1, <3>1, <1>0, <1>j, ApartKept
  <2>3. ASSUME NEW p \in Ops PROVE Steady(p)'
    <3>1. CASE p = o
      BY <2>0, <2>1, <3>1, <1>0, <1>j, <1>u DEF Steady, GroupKinds
    <3>2. CASE p # o
      <4>1. Steady(p) /\ job'[p] = job[p]
        BY <2>1, <3>2, <1>j
      <4> QED BY <2>0, <4>1, <1>u DEF Steady, membersOf, GroupKinds
    <3> QED BY <3>1, <3>2
  <2>4. \A h \in Groups : (\A p \in Ops : ~groupDue(p, h)') => byGroup'[h] = dbGroup'[h]
    <3> SUFFICES ASSUME NEW h \in Groups, \A p \in Ops : ~groupDue(p, h)'
                 PROVE  byGroup'[h] = dbGroup'[h]
      OBVIOUS
    <3>1. \A p \in Ops : ~groupDue(p, h)
      BY <1>0, <1>j DEF groupDue
    <3> QED BY <2>1, <3>1, <1>u DEF Synced
  <2>5. \A x \in Members : (\A p \in Ops : ~memberDue(p, x)') => byMember'[x] = dbMember'[x]
    <3> SUFFICES ASSUME NEW x \in Members, \A p \in Ops : ~memberDue(p, x)'
                 PROVE  byMember'[x] = dbMember'[x]
      OBVIOUS
    <3>1. \A p \in Ops : ~memberDue(p, x)
      BY <1>0, <1>j, <1>u DEF memberDue, membersOf
    <3> QED BY <2>0, <2>1, <3>1, <1>u DEF Synced
  <2> QED BY <2>2, <2>3, <2>4, <2>5 DEF Synced
<1>8. Rounds'
  <2>1. job[o] # Idle /\ job[o].kind \notin {"pick", "clean"}
    BY <1>0 DEF Idle
  <2>2. job'[o].kind # "pick"
    BY <1>j
  <2> QED BY <2>1, <2>2, <1>k, <1>j, <1>u, RoundsKept
<1> QED BY <1>6, <1>7, <1>8 DEF IndInv

LEMMA DropMemberKeeps ==
  ASSUME IndInv, NEW o \in Ops, DropMember(o)
  PROVE  IndInv'
<1> DEFINE m == job[o].member
           g == job[o].group
           k == job'[o]
<1>k. Base /\ InStep /\ Rounds
  BY DEF IndInv
<1>t. TypeOK /\ Fresh /\ OneHome /\ TablesOK /\ OrderMatchesMembers
  BY <1>k DEF Base
<1>0. job[o] \in Jobs /\ job[o].kind = "delMember" /\ job[o].stage = "db" /\ m \in Members
  BY <1>t, JobShape DEF TypeOK, DropMember, atDB
<1>j. /\ k \in Jobs /\ k.kind = "delMember" /\ k.stage = "index" /\ k.group = job[o].group
      /\ k.names = job[o].names /\ k.member = m
      /\ \A p \in Ops : p # o => job'[p] = job[p]
      /\ job' \in [Ops -> Jobs]
  BY <1>0, <1>t, Persisted DEF TypeOK, DropMember, persisted
<1>u. /\ dbMember' = [dbMember EXCEPT ![m] = None]
      /\ dbGroup' = dbGroup /\ byGroup' = byGroup /\ byMember' = byMember
      /\ nextGroup' = nextGroup /\ nextMember' = nextMember
      /\ memberOrder' = memberOrder /\ listed' = listed /\ rrRound' = rrRound
      /\ byStray' = byStray /\ stuck' = stuck /\ clash' = clash /\ raced' = raced
  BY DEF DropMember, index, history
<1>d. \A x \in Members : dbMember'[x] = IF x = m THEN None ELSE dbMember[x]
  BY <1>t, <1>u, <1>0 DEF TypeOK
<1>1. TypeOK'
  <2>1. dbMember' \in [Members -> MemberRow \cup {None}]
    BY <1>t, <1>u DEF TypeOK
  <2> QED BY <1>t, <1>u, <1>j, <2>1 DEF TypeOK
<1>2. Fresh'
  <2>1. target(k) = target(job[o])
    BY <1>0, <1>j DEF target
  <2>2. \A p \in Ops : target(job'[p]) < nextGroup
    BY <2>1, <1>j, <1>t DEF Fresh
  <2>3. \A p \in Ops : job'[p].kind \in MemberKinds => job'[p].member < nextMember
    BY <1>t, <1>j, <1>0 DEF Fresh, MemberKinds
  <2> QED BY <2>2, <2>3, <1>t, <1>u, <1>d DEF Fresh, target
<1>3. OneHome'
  <2>1. PICK home \in [Members -> 0 .. MaxGroups] : Homes(home)
    BY <1>t DEF OneHome
  <2>2. Homes(home)'
    BY <2>1, <1>j, <1>u, <1>d, <1>0 DEF Homes, MemberKinds
  <2> QED BY <2>2 DEF OneHome
<1>4. TablesOK'
  <2>1. \A x \in Members : dbMember'[x] # None => dbGroup'[dbMember'[x].group] # None
    BY <1>t, <1>u, <1>d DEF TablesOK
  <2>2. \A p \in Ops : job'[p].kind = "delMember" /\ job'[p].stage = "index" =>
          dbMember'[job'[p].member] = None
    BY <1>t, <1>d, <1>j, <1>0, JobShape DEF TablesOK, TypeOK
  <2>3. \A p \in Ops : job'[p].kind \in {"addMember", "setMember"} => job'[p].row.group = job'[p].group
    BY <1>t, <1>j DEF TablesOK
  <2> QED BY <2>1, <2>2, <2>3, <1>t, <1>u, <1>j DEF TablesOK
<1>5. OrderMatchesMembers'
  BY <1>t, <1>u DEF OrderMatchesMembers, membersOf
<1>6. Base'
  BY <1>1, <1>2, <1>3, <1>4, <1>5 DEF Base
<1>7. InStep'
  <2> SUFFICES ASSUME ~clash PROVE Apart' /\ (\A p \in Ops : Steady(p)') /\ Synced'
    BY <1>u DEF InStep
  <2>1. Apart /\ (\A p \in Ops : Steady(p)) /\ Synced
    BY <1>k DEF InStep
  <2>2. Apart'
    <3>1. target(job'[o]) = target(job[o])
      BY <1>0, <1>j DEF target
    <3> QED BY <2>1, <3>1, <1>0, <1>j, ApartKept
  <2>3. ASSUME NEW p \in Ops PROVE Steady(p)'
    <3>1. CASE p = o
      BY <2>1, <3>1, <1>0, <1>j, <1>u DEF Steady, GroupKinds
    <3>2. CASE p # o
      <4>0. g # 0
        BY <1>0, JobShape DEF Groups, MemberKinds
      <4>1. Steady(p) /\ job'[p] = job[p]
        BY <2>1, <3>2, <1>j
      <4>2. job[p].kind \in MemberKinds => job[p].group # g
        BY <2>1, <3>2, <4>0, <1>0, Elsewhere DEF MemberKinds
      <4>3. job[p].kind \in MemberKinds => job[p].member # m
        BY <4>2, <1>0, <1>t, SameHome DEF MemberKinds
      <4>6. (job[p].kind = "addMember" /\ job[p].stage = "index") \/ job[p].kind = "setMember" =>
              job[p].member \in Members
        BY <1>t, JobShape, CountAssumption DEF TypeOK, MemberKinds, Members
      <4> QED BY <4>1, <4>3, <4>6, <1>d, <1>u DEF Steady, membersOf, GroupKinds, MemberKinds
    <3> QED BY <3>1, <3>2
  <2>4. \A h \in Groups : (\A p \in Ops : ~groupDue(p, h)') => byGroup'[h] = dbGroup'[h]
    <3> SUFFICES ASSUME NEW h \in Groups, \A p \in Ops : ~groupDue(p, h)'
                 PROVE  byGroup'[h] = dbGroup'[h]
      OBVIOUS
    <3>1. \A p \in Ops : ~groupDue(p, h)
      BY <1>0, <1>j DEF groupDue
    <3> QED BY <2>1, <3>1, <1>u DEF Synced
  <2>5. \A x \in Members : (\A p \in Ops : ~memberDue(p, x)') => byMember'[x] = dbMember'[x]
    <3> SUFFICES ASSUME NEW x \in Members, \A p \in Ops : ~memberDue(p, x)'
                 PROVE  byMember'[x] = dbMember'[x]
      OBVIOUS
    <3>1. x # m
      BY <1>j DEF memberDue
    <3>2. \A p \in Ops : ~memberDue(p, x)
      BY <1>0, <1>j, <1>u DEF memberDue, membersOf
    <3> QED BY <2>1, <3>1, <3>2, <1>d, <1>u DEF Synced
  <2> QED BY <2>2, <2>3, <2>4, <2>5 DEF Synced
<1>8. Rounds'
  <2>1. job[o] # Idle /\ job[o].kind \notin {"pick", "clean"}
    BY <1>0 DEF Idle
  <2>2. job'[o].kind # "pick"
    BY <1>j
  <2> QED BY <2>1, <2>2, <1>k, <1>j, <1>u, RoundsKept
<1> QED BY <1>6, <1>7, <1>8 DEF IndInv

\* The memory parts leave a job that is about no group.
LEMMA JobsAfter ==
  ASSUME Base, NEW o \in Ops, NEW j \in Jobs, j.kind \in {"idle", "clean"}, target(j) = 0,
         job' = [job EXCEPT ![o] = j],
         UNCHANGED db, byGroup' \in [Groups -> GroupRow \cup {None}],
         \A g \in Groups : g >= nextGroup => byGroup'[g] = None,
         \A m \in Members : m >= nextMember => byMember'[m] = None,
         \A m \in Members : byMember'[m] # None => byMember'[m].group < nextGroup
  PROVE  /\ Fresh' /\ TablesOK'
         /\ job'[o] = j /\ \A p \in Ops : p # o => job'[p] = job[p]
         /\ job' \in [Ops -> Jobs]
<1>t. TypeOK /\ Fresh /\ TablesOK
  BY DEF Base
<1>j. /\ job'[o] = j /\ \A p \in Ops : p # o => job'[p] = job[p]
      /\ job' \in [Ops -> Jobs]
  BY <1>t DEF TypeOK
<1>u. /\ dbGroup' = dbGroup /\ dbMember' = dbMember
      /\ nextGroup' = nextGroup /\ nextMember' = nextMember
  BY DEF db
<1>1. Fresh'
  <2>1. \A p \in Ops : target(job'[p]) < nextGroup
    <3>1. 0 < nextGroup
      BY <1>t, CountAssumption DEF TypeOK
    <3> QED BY <3>1, <1>j, <1>t DEF Fresh
  <2>2. \A p \in Ops : job'[p].kind \in MemberKinds => job'[p].member < nextMember
    BY <1>t, <1>j DEF Fresh, MemberKinds
  <2> QED BY <2>1, <2>2, <1>t, <1>u DEF Fresh, target
<1>2. TablesOK'
  BY <1>t, <1>u, <1>j DEF TablesOK
<1> QED BY <1>1, <1>2, <1>j

LEMMA IndexGroupKeeps ==
  ASSUME IndInv, NEW o \in Ops, IndexGroup(o)
  PROVE  IndInv'
<1> DEFINE g == job[o].group
<1>k. Base /\ InStep /\ Rounds
  BY DEF IndInv
<1>t. TypeOK /\ Fresh /\ OneHome /\ TablesOK /\ OrderMatchesMembers
  BY <1>k DEF Base
<1>0. job[o] \in Jobs /\ job[o].kind \in {"addGroup", "setGroup"} /\ job[o].stage = "index"
  BY <1>t DEF TypeOK, IndexGroup, atIndex
<1>g. g \in Groups /\ job[o].row \in GroupRow
  <2>1. g \in 0 .. MaxGroups /\ g # 0 /\ job[o].row \in GroupRow
    BY <1>0, JobShape DEF Groups
  <2> QED BY <2>1, CountAssumption DEF Groups
<1>u. /\ byGroup' = [byGroup EXCEPT ![g] = job[o].row]
      /\ job' = [job EXCEPT ![o] = Idle]
      /\ dbGroup' = dbGroup /\ dbMember' = dbMember /\ byMember' = byMember
      /\ nextGroup' = nextGroup /\ nextMember' = nextMember
      /\ memberOrder' = memberOrder /\ listed' = listed /\ rrRound' = rrRound
      /\ byStray' = byStray /\ stuck' = stuck /\ clash' = clash /\ raced' = raced
  BY DEF IndexGroup, finish, db, history
<1>i. Idle \in Jobs /\ Idle.kind = "idle" /\ target(Idle) = 0
  BY DEF Jobs, Idle, target
<1>b. byGroup' \in [Groups -> GroupRow \cup {None}]
  BY <1>t, <1>u, <1>g DEF TypeOK
<1>f. \A h \in Groups : h >= nextGroup => byGroup'[h] = None
  <2>0. target(job[o]) = g /\ target(job[o]) < nextGroup
    BY <1>t, <1>0 DEF Fresh, target
  <2>1. g < nextGroup /\ g \in Nat /\ nextGroup \in Nat
    BY <2>0, <1>t, <1>g, CountAssumption DEF TypeOK, Groups
  <2> QED BY <2>1, <1>t, <1>u DEF Fresh, TypeOK, Groups
<1>a. /\ Fresh' /\ TablesOK'
      /\ job'[o] = Idle /\ \A p \in Ops : p # o => job'[p] = job[p]
      /\ job' \in [Ops -> Jobs]
  <2>1. UNCHANGED db
    BY DEF IndexGroup
  <2>2. /\ \A m \in Members : m >= nextMember => byMember'[m] = None
        /\ \A m \in Members : byMember'[m] # None => byMember'[m].group < nextGroup
    BY <1>t, <1>u DEF Fresh
  <2> QED BY <2>1, <2>2, <1>u, <1>i, <1>b, <1>f, <1>k, JobsAfter
<1>1. TypeOK'
  BY <1>t, <1>u, <1>a, <1>b DEF TypeOK
<1>2. OneHome'
  <2>1. PICK home \in [Members -> 0 .. MaxGroups] : Homes(home)
    BY <1>t DEF OneHome
  <2>2. Homes(home)'
    BY <2>1, <1>a, <1>u, <1>i DEF Homes, MemberKinds
  <2> QED BY <2>2 DEF OneHome
<1>3. OrderMatchesMembers'
  BY <1>t, <1>u DEF OrderMatchesMembers, membersOf
<1>6. Base'
  BY <1>1, <1>2, <1>3, <1>a DEF Base
<1>7. InStep'
  <2> SUFFICES ASSUME ~clash PROVE Apart' /\ (\A p \in Ops : Steady(p)') /\ Synced'
    BY <1>u DEF InStep
  <2>1. Apart /\ (\A p \in Ops : Steady(p)) /\ Synced
    BY <1>k DEF InStep
  <2>2. Apart'
    BY <2>1, <1>a, <1>i, ApartKept
  <2>3. ASSUME NEW p \in Ops PROVE Steady(p)'
    <3>1. CASE p = o
      BY <3>1, <1>a, <1>i DEF Steady, GroupKinds
    <3>2. CASE p # o
      <4>1. Steady(p) /\ job'[p] = job[p]
        BY <2>1, <3>2, <1>a
      <4> QED BY <4>1, <1>u DEF Steady, membersOf, GroupKinds
    <3> QED BY <3>1, <3>2
  <2>4. \A h \in Groups : (\A p \in Ops : ~groupDue(p, h)') => byGroup'[h] = dbGroup'[h]
    <3> SUFFICES ASSUME NEW h \in Groups, \A p \in Ops : ~groupDue(p, h)'
                 PROVE  byGroup'[h] = dbGroup'[h]
      OBVIOUS
    <3>1. CASE h = g
      <4>1. dbGroup[g] = job[o].row
        BY <2>1, <1>0 DEF Steady, GroupKinds
      <4> QED BY <3>1, <4>1, <1>u, <1>t, <1>g DEF TypeOK
    <3>2. CASE h # g
      <4>1. \A p \in Ops : ~groupDue(p, h)
        BY <3>2, <1>0, <1>a DEF groupDue
      <4> QED BY <2>1, <3>2, <4>1, <1>u, <1>t DEF Synced, TypeOK
    <3> QED BY <3>1, <3>2
  <2>5. \A x \in Members : (\A p \in Ops : ~memberDue(p, x)') => byMember'[x] = dbMember'[x]
    <3> SUFFICES ASSUME NEW x \in Members, \A p \in Ops : ~memberDue(p, x)'
                 PROVE  byMember'[x] = dbMember'[x]
      OBVIOUS
    <3>1. \A p \in Ops : ~memberDue(p, x)
      BY <1>0, <1>a, <1>u DEF memberDue, membersOf
    <3> QED BY <2>1, <3>1, <1>u DEF Synced
  <2> QED BY <2>2, <2>3, <2>4, <2>5 DEF Synced
<1>8. Rounds'
  <2>1. job[o] # Idle /\ job[o].kind \notin {"pick", "clean"}
    BY <1>0 DEF Idle
  <2>2. job'[o].kind # "pick"
    BY <1>a, <1>i
  <2> QED BY <2>1, <2>2, <1>k, <1>a, <1>u, RoundsKept
<1> QED BY <1>6, <1>7, <1>8 DEF IndInv

\* A new entry is listed at the end, an old one keeps its place.
LEMMA IndexMemberKeeps ==
  ASSUME IndInv, NEW o \in Ops, IndexMember(o)
  PROVE  IndInv'
<1> DEFINE m == job[o].member
           row == job[o].row
           g == job[o].row.group
<1>k. Base /\ InStep /\ Rounds
  BY DEF IndInv
<1>t. TypeOK /\ Fresh /\ OneHome /\ TablesOK /\ OrderMatchesMembers
  BY <1>k DEF Base
<1>0. job[o] \in Jobs /\ job[o].kind \in {"addMember", "setMember"} /\ job[o].stage = "index"
  BY <1>t DEF TypeOK, IndexMember, atIndex
<1>g. m \in Members /\ m # 0 /\ row \in MemberRow /\ g \in Groups /\ job[o].group = g
  <2>1. m \in 0 .. MaxMembers /\ m # 0 /\ row \in MemberRow
    BY <1>0, JobShape DEF Members, MemberKinds
  <2>2. g \in Groups /\ job[o].group = g
    BY <2>1, <1>t, <1>0 DEF MemberRow, TablesOK
  <2> QED BY <2>1, <2>2, CountAssumption DEF Members
<1>u. /\ byMember' = [byMember EXCEPT ![m] = row]
      /\ job' = [job EXCEPT ![o] = Idle]
      /\ dbGroup' = dbGroup /\ dbMember' = dbMember /\ byGroup' = byGroup
      /\ nextGroup' = nextGroup /\ nextMember' = nextMember /\ rrRound' = rrRound
      /\ byStray' = byStray /\ stuck' = stuck /\ clash' = clash /\ raced' = raced
  BY DEF IndexMember, finish, db, history
<1>v. IF byMember[m] = None
      THEN memberOrder' = [memberOrder EXCEPT ![g] = Append(@, m)] /\ listed' = listed \cup {g}
      ELSE memberOrder' = memberOrder /\ listed' = listed
  BY DEF IndexMember
<1>d. \A x \in Members : byMember'[x] = IF x = m THEN row ELSE byMember[x]
  BY <1>t, <1>u, <1>g DEF TypeOK
<1>h. byMember[m] # None => byMember[m].group = g
  <2>1. PICK home \in [Members -> 0 .. MaxGroups] : Homes(home)
    BY <1>t DEF OneHome
  <2> QED BY <2>1, <1>0, <1>g DEF Homes, MemberKinds
<1>i. Idle \in Jobs /\ Idle.kind = "idle" /\ target(Idle) = 0
  BY DEF Jobs, Idle, target
<1>a. /\ Fresh' /\ TablesOK'
      /\ job'[o] = Idle /\ \A p \in Ops : p # o => job'[p] = job[p]
      /\ job' \in [Ops -> Jobs]
  <2>1. UNCHANGED db /\ byGroup' \in [Groups -> GroupRow \cup {None}]
    BY <1>t, <1>u DEF IndexMember, TypeOK
  <2>2. \A x \in Groups : x >= nextGroup => byGroup'[x] = None
    BY <1>t, <1>u DEF Fresh
  <2>3. m < nextMember /\ g < nextGroup
    BY <1>t, <1>0, <1>g DEF Fresh, MemberKinds, target
  <2>4. nextMember \in Nat
    BY <1>t, CountAssumption DEF TypeOK
  <2>5. /\ \A x \in Members : x >= nextMember => byMember'[x] = None
        /\ \A x \in Members : byMember'[x] # None => byMember'[x].group < nextGroup
    BY <2>3, <2>4, <1>t, <1>d DEF Fresh, Members
  <2> QED BY <2>1, <2>2, <2>5, <1>u, <1>i, <1>k, JobsAfter
<1>1. TypeOK'
  <2>1. byMember' \in [Members -> MemberRow \cup {None}]
    BY <1>t, <1>u, <1>g DEF TypeOK
  <2>2. memberOrder[g] \in Seq(Members) /\ Append(memberOrder[g], m) \in Seq(Members)
    BY <1>t, <1>g DEF TypeOK
  <2>3. memberOrder' \in [Groups -> Seq(Members)] /\ listed' \subseteq Groups
    BY <2>2, <1>t, <1>v, <1>g DEF TypeOK
  <2> QED BY <2>1, <2>3, <1>t, <1>u, <1>a DEF TypeOK
<1>2. OneHome'
  <2>1. PICK home \in [Members -> 0 .. MaxGroups] : Homes(home)
    BY <1>t DEF OneHome
  <2>2. home[m] = g
    BY <2>1, <1>0, <1>g DEF Homes, MemberKinds
  <2>3. Homes(home)'
    BY <2>1, <2>2, <1>a, <1>u, <1>d, <1>i DEF Homes, MemberKinds
  <2> QED BY <2>3 DEF OneHome
<1>3. OrderMatchesMembers'
  <2>1. ASSUME NEW h \in Groups
        PROVE  Lists(memberOrder'[h], membersOf(byMember', h)) /\ (memberOrder'[h] # <<>> => h \in listed')
    <3>1. Lists(memberOrder[h], membersOf(byMember, h)) /\ memberOrder[h] \in Seq(Members)
          /\ (memberOrder[h] # <<>> => h \in listed)
      BY <1>t DEF OrderMatchesMembers, Lists, TypeOK
    <3>n. row # None
      BY <1>g, NoneAssumption
    <3>2. CASE byMember[m] # None
      <4>1. membersOf(byMember', h) = membersOf(byMember, h)
        BY <3>2, <3>n, <1>d, <1>h, <1>g DEF membersOf
      <4> QED BY <3>1, <3>2, <4>1, <1>v
    <3>3. CASE byMember[m] = None /\ h = g
      <4>1. membersOf(byMember', h) = membersOf(byMember, h) \cup {m} /\ m \notin membersOf(byMember, h)
        BY <3>3, <3>n, <1>d, <1>g DEF membersOf
      <4>2. memberOrder'[h] = Append(memberOrder[h], m) /\ h \in listed'
        BY <3>3, <1>v, <1>t DEF TypeOK
      <4>3. Lists(Append(memberOrder[h], m), membersOf(byMember, h) \cup {m})
        BY <3>1, <4>1, <1>g, ListAppend
      <4> QED BY <4>1, <4>2, <4>3
    <3>4. CASE byMember[m] = None /\ h # g
      <4>1. membersOf(byMember', h) = membersOf(byMember, h)
        BY <3>4, <3>n, <1>d, <1>g DEF membersOf
      <4>2. memberOrder'[h] = memberOrder[h] /\ listed \subseteq listed'
        BY <3>4, <1>v, <1>t DEF TypeOK
      <4> QED BY <3>1, <4>1, <4>2
    <3> QED BY <3>2, <3>3, <3>4
  <2> QED BY <2>1 DEF OrderMatchesMembers, Lists, membersOf
<1>6. Base'
  BY <1>1, <1>2, <1>3, <1>a DEF Base
<1>7. InStep'
  <2> SUFFICES ASSUME ~clash PROVE Apart' /\ (\A p \in Ops : Steady(p)') /\ Synced'
    BY <1>u DEF InStep
  <2>1. Apart /\ (\A p \in Ops : Steady(p)) /\ Synced
    BY <1>k DEF InStep
  <2>2. Apart'
    BY <2>1, <1>a, <1>i, ApartKept
  <2>0. dbMember[m] = row /\ byMember[m] \in {None, row}
    BY <2>1, <1>0 DEF Steady
  <2>3. ASSUME NEW p \in Ops PROVE Steady(p)'
    <3>1. CASE p = o
      BY <3>1, <1>a, <1>i DEF Steady, GroupKinds
    <3>2. CASE p # o
      <4>0. g # 0 /\ job[o].kind \in {"addGroup", "setGroup", "delGroup"} \cup MemberKinds
        BY <1>0, <1>g DEF Groups, MemberKinds
      <4>1. Steady(p) /\ job'[p] = job[p]
        BY <2>1, <3>2, <1>a
      <4>2. job[p].kind \in {"delGroup", "setMember", "delMember"} => job[p].group # g
        BY <2>1, <3>2, <4>0, <1>g, Elsewhere DEF MemberKinds
      <4>3. job[p].kind \in {"setMember", "delMember"} => job[p].member # m
        BY <4>2, <1>0, <1>g, <1>t, SameHome DEF MemberKinds
      <4>4. job[p].kind \in {"setMember", "delMember"} => job[p].member \in Members
        BY <1>t, JobShape DEF TypeOK
      <4>5. job[p].kind = "addMember" /\ job[p].stage = "index" =>
              job[p].member \in Members /\ (job[p].member = m => job[p].row = row)
        <5>1. job[p].kind = "addMember" /\ job[p].stage = "index" => job[p].member \in Members
          BY <1>t, JobShape, CountAssumption DEF TypeOK, MemberKinds, Members
        <5>2. job[p].kind = "addMember" /\ job[p].stage = "index" => dbMember[job[p].member] = job[p].row
          BY <4>1 DEF Steady
        <5> QED BY <5>1, <5>2, <2>0
      <4>6. job[p].kind = "delGroup" =>
              membersOf(byMember', job[p].group) = membersOf(byMember, job[p].group)
        BY <2>0, <4>2, <1>d, <1>g DEF membersOf
      <4>7. \A x \in membersOf(byMember', job[p].group) : x # m => byMember'[x] = byMember[x]
        BY <1>d DEF membersOf
      <4>8. job[p].kind = "delGroup" => m \notin membersOf(byMember', job[p].group)
        BY <4>2, <1>d, <1>g DEF membersOf
      <4> QED BY <4>1, <4>3, <4>4, <4>5, <4>6, <4>7, <4>8, <1>d, <1>u DEF Steady, GroupKinds
    <3> QED BY <3>1, <3>2
  <2>4. \A h \in Groups : (\A p \in Ops : ~groupDue(p, h)') => byGroup'[h] = dbGroup'[h]
    <3> SUFFICES ASSUME NEW h \in Groups, \A p \in Ops : ~groupDue(p, h)'
                 PROVE  byGroup'[h] = dbGroup'[h]
      OBVIOUS
    <3>1. \A p \in Ops : ~groupDue(p, h)
      BY <1>0, <1>a DEF groupDue
    <3> QED BY <2>1, <3>1, <1>u DEF Synced
  <2>5. \A x \in Members : (\A p \in Ops : ~memberDue(p, x)') => byMember'[x] = dbMember'[x]
    <3> SUFFICES ASSUME NEW x \in Members, \A p \in Ops : ~memberDue(p, x)'
                 PROVE  byMember'[x] = dbMember'[x]
      OBVIOUS
    <3>1. CASE x = m
      BY <3>1, <2>0, <1>d, <1>u
    <3>2. CASE x # m
      <4>1. \A p \in Ops : ~memberDue(p, x)
        BY <3>2, <1>0, <1>a, <1>d DEF memberDue, membersOf
      <4> QED BY <2>1, <3>2, <4>1, <1>d, <1>u DEF Synced
    <3> QED BY <3>1, <3>2
  <2> QED BY <2>2, <2>3, <2>4, <2>5 DEF Synced
<1>8. Rounds'
  <2>1. job[o] # Idle /\ job[o].kind \notin {"pick", "clean"}
    BY <1>0 DEF Idle
  <2>2. job'[o].kind # "pick"
    BY <1>a, <1>i
  <2>3. PickAlone'
    BY <2>1, <2>2, <1>k, <1>a, <1>u, PicksKept DEF Rounds
  <2>4. Counted'
    <3> SUFFICES ASSUME ~clash, ~raced, NEW n \in rrRound
                 PROVE  named(n)' \/ \E p \in Ops : job'[p].kind = "clean" /\ n \in job'[p].left
      BY <1>u DEF Counted, named
    <3>1. byMember[m] # None => byMember'[m] = byMember[m]
      <4>1. Steady(o)
        BY <1>k DEF InStep
      <4> QED BY <4>1, <1>0, <1>d, <1>g DEF Steady
    <3>2. \A x \in Members : byMember[x] # None => byMember'[x] = byMember[x]
      BY <3>1, <1>d
    <3>3. named(n) => named(n)'
      BY <3>2 DEF named
    <3>4. CASE \E p \in Ops : job[p].kind = "clean" /\ n \in job[p].left
      BY <3>4, <2>1, <1>a
    <3> QED BY <3>3, <3>4, <1>k DEF Rounds, Counted
  <2> QED BY <2>3, <2>4 DEF Rounds
<1> QED BY <1>6, <1>7, <1>8 DEF IndInv

\* A deletion takes the members it removes out of the list, and its job becomes a
\* cleaning.
LEMMA UnindexGroupKeeps ==
  ASSUME IndInv, NEW o \in Ops, UnindexGroup(o)
  PROVE  IndInv'
<1> DEFINE g == job[o].group
           j == IF job[o].names = {} THEN Idle
                ELSE [kind |-> "clean", stage |-> "count", group |-> 0, left |-> job[o].names]
<1>k. Base /\ InStep /\ Rounds
  BY DEF IndInv
<1>t. TypeOK /\ Fresh /\ OneHome /\ TablesOK /\ OrderMatchesMembers
  BY <1>k DEF Base
<1>0. job[o] \in Jobs /\ job[o].kind = "delGroup" /\ job[o].stage = "index"
  BY <1>t DEF TypeOK, UnindexGroup, atIndex
<1>g. g \in Groups /\ job[o].names \in SUBSET Names
  BY <1>0, JobShape
<1>i. j \in Jobs /\ j.kind \in {"idle", "clean"} /\ target(j) = 0
  BY <1>g, CleanJob
<1>u. /\ byGroup' = [byGroup EXCEPT ![g] = None]
      /\ byMember' = [m \in Members |-> IF m \in ToSet(memberOrder[g]) THEN None ELSE byMember[m]]
      /\ memberOrder' = [memberOrder EXCEPT ![g] = <<>>] /\ listed' = listed \ {g}
      /\ job' = [job EXCEPT ![o] = j]
      /\ dbGroup' = dbGroup /\ dbMember' = dbMember
      /\ nextGroup' = nextGroup /\ nextMember' = nextMember /\ rrRound' = rrRound
      /\ byStray' = byStray /\ stuck' = stuck /\ clash' = clash /\ raced' = raced
  BY DEF UnindexGroup, cleanUp, db, history
<1> HIDE DEF j
<1>s. ToSet(memberOrder[g]) = membersOf(byMember, g)
  BY <1>t, <1>g DEF OrderMatchesMembers
<1>d. \A x \in Members : byMember'[x] = IF x \in membersOf(byMember, g) THEN None ELSE byMember[x]
  BY <1>u, <1>s
<1>b. byGroup' \in [Groups -> GroupRow \cup {None}]
  BY <1>t, <1>u DEF TypeOK
<1>a. /\ Fresh' /\ TablesOK'
      /\ job'[o] = j /\ \A p \in Ops : p # o => job'[p] = job[p]
      /\ job' \in [Ops -> Jobs]
  <2>1. UNCHANGED db
    BY DEF UnindexGroup
  <2>2. \A x \in Groups : x >= nextGroup => byGroup'[x] = None
    BY <1>t, <1>u DEF Fresh, TypeOK
  <2>3. /\ \A x \in Members : x >= nextMember => byMember'[x] = None
        /\ \A x \in Members : byMember'[x] # None => byMember'[x].group < nextGroup
    BY <1>t, <1>d DEF Fresh
  <2> QED BY <2>1, <2>2, <2>3, <1>b, <1>u, <1>i, <1>k, JobsAfter
<1>1. TypeOK'
  <2>1. byMember' \in [Members -> MemberRow \cup {None}]
    BY <1>t, <1>u DEF TypeOK
  <2>2. memberOrder' \in [Groups -> Seq(Members)] /\ listed' \subseteq Groups
    <3>1. <<>> \in Seq(Members) /\ memberOrder \in [Groups -> Seq(Members)]
      BY <1>t DEF TypeOK
    <3> QED BY <3>1, <1>t, <1>u DEF TypeOK
  <2> QED BY <2>1, <2>2, <1>b, <1>t, <1>u, <1>a DEF TypeOK
<1>2. OneHome'
  <2>1. PICK home \in [Members -> 0 .. MaxGroups] : Homes(home)
    BY <1>t DEF OneHome
  <2>2. Homes(home)'
    BY <2>1, <1>a, <1>u, <1>d, <1>i DEF Homes, MemberKinds
  <2> QED BY <2>2 DEF OneHome
<1>3. OrderMatchesMembers'
  <2>1. ASSUME NEW h \in Groups
        PROVE  Lists(memberOrder'[h], membersOf(byMember', h)) /\ (memberOrder'[h] # <<>> => h \in listed')
    <3>1. CASE h = g
      <4>1. membersOf(byMember', h) = {}
        BY <3>1, <1>d DEF membersOf
      <4>2. memberOrder'[h] = <<>>
        BY <3>1, <1>t, <1>u DEF TypeOK
      <4> QED BY <4>1, <4>2, ListEmpty
    <3>2. CASE h # g
      <4>1. membersOf(byMember', h) = membersOf(byMember, h)
        BY <3>2, <1>d DEF membersOf
      <4>2. memberOrder'[h] = memberOrder[h]
        BY <3>2, <1>t, <1>u DEF TypeOK
      <4> QED BY <3>2, <4>1, <4>2, <1>t, <1>u DEF OrderMatchesMembers, Lists
    <3> QED BY <3>1, <3>2
  <2> QED BY <2>1 DEF OrderMatchesMembers, Lists, membersOf
<1>6. Base'
  BY <1>1, <1>2, <1>3, <1>a DEF Base
<1>7. InStep'
  <2> SUFFICES ASSUME ~clash PROVE Apart' /\ (\A p \in Ops : Steady(p)') /\ Synced'
    BY <1>u DEF InStep
  <2>1. Apart /\ (\A p \in Ops : Steady(p)) /\ Synced
    BY <1>k DEF InStep
  <2>2. Apart'
    BY <2>1, <1>a, <1>i, ApartKept
  <2>3. ASSUME NEW p \in Ops PROVE Steady(p)'
    <3>1. CASE p = o
      BY <3>1, <1>a, <1>i DEF Steady, GroupKinds
    <3>2. CASE p # o
      <4>0. g # 0 /\ job[o].kind \in {"addGroup", "setGroup", "delGroup"} \cup MemberKinds
        BY <1>0, <1>g DEF Groups, MemberKinds
      <4>1. Steady(p) /\ job'[p] = job[p]
        BY <2>1, <3>2, <1>a
      <4>2. job[p].kind = "setMember" => job[p].group # g
        BY <2>1, <3>2, <4>0, <1>0, Elsewhere DEF MemberKinds
      <4>3. job[p].kind = "setMember" =>
              job[p].member \in Members /\ byMember'[job[p].member] = byMember[job[p].member]
        <5>1. job[p].kind = "setMember" => job[p].member \in Members
          BY <1>t, JobShape DEF TypeOK
        <5>2. job[p].kind = "setMember" => byMember[job[p].member].group # g
          <6>1. job[p].kind = "setMember" => byMember[job[p].member] = job[p].row
            BY <4>1 DEF Steady
          <6> QED BY <6>1, <4>2, <1>t DEF TablesOK
        <5> QED BY <5>1, <5>2, <1>d DEF membersOf
      <4>4. \A x \in Members : byMember'[x] # None => byMember'[x] = byMember[x]
        BY <1>d
      <4>5. (job[p].kind = "addMember" /\ job[p].stage = "index") \/ job[p].kind = "delMember" =>
              job[p].member \in Members
        BY <1>t, JobShape, CountAssumption DEF TypeOK, MemberKinds, Members
      <4>6. \A x \in membersOf(byMember', job[p].group) :
              x \in membersOf(byMember, job[p].group) /\ byMember'[x] = byMember[x]
        BY <4>4 DEF membersOf
      <4> QED BY <4>1, <4>3, <4>4, <4>5, <4>6, <1>u DEF Steady, GroupKinds
    <3> QED BY <3>1, <3>2
  <2>4. \A h \in Groups : (\A p \in Ops : ~groupDue(p, h)') => byGroup'[h] = dbGroup'[h]
    <3> SUFFICES ASSUME NEW h \in Groups, \A p \in Ops : ~groupDue(p, h)'
                 PROVE  byGroup'[h] = dbGroup'[h]
      OBVIOUS
    <3>1. CASE h = g
      <4>1. dbGroup[g] = None
        BY <1>0, <1>t DEF TablesOK
      <4> QED BY <3>1, <4>1, <1>u, <1>t, <1>g DEF TypeOK
    <3>2. CASE h # g
      <4>1. \A p \in Ops : ~groupDue(p, h)
        BY <3>2, <1>0, <1>a DEF groupDue
      <4> QED BY <2>1, <3>2, <4>1, <1>u, <1>t DEF Synced, TypeOK
    <3> QED BY <3>1, <3>2
  <2>5. \A x \in Members : (\A p \in Ops : ~memberDue(p, x)') => byMember'[x] = dbMember'[x]
    <3> SUFFICES ASSUME NEW x \in Members, \A p \in Ops : ~memberDue(p, x)'
                 PROVE  byMember'[x] = dbMember'[x]
      OBVIOUS
    <3>1. CASE x \in membersOf(byMember, g)
      <4>1. dbMember[x] # None => dbMember[x].group = g
        BY <3>1, <1>t, SameHome DEF membersOf
      <4>2. dbGroup[g] = None
        BY <1>0, <1>t DEF TablesOK
      <4>3. dbMember[x] = None
        BY <4>1, <4>2, <1>t DEF TablesOK
      <4> QED BY <3>1, <4>3, <1>d, <1>u
    <3>2. CASE x \notin membersOf(byMember, g)
      <4>1. \A p \in Ops : ~memberDue(p, x)
        BY <3>2, <1>0, <1>a, <1>d DEF memberDue, membersOf
      <4> QED BY <2>1, <3>2, <4>1, <1>d, <1>u DEF Synced
    <3> QED BY <3>1, <3>2
  <2> QED BY <2>2, <2>3, <2>4, <2>5 DEF Synced
<1>8. Rounds'
  <2>1. job[o] # Idle /\ job[o].kind \notin {"pick", "clean"}
    BY <1>0 DEF Idle
  <2>2. job'[o].kind # "pick"
    BY <1>a, <1>i
  <2>3. PickAlone'
    BY <2>1, <2>2, <1>k, <1>a, <1>u, PicksKept DEF Rounds
  <2>4. Counted'
    <3> SUFFICES ASSUME ~clash, ~raced, NEW n \in rrRound
                 PROVE  named(n)' \/ \E p \in Ops : job'[p].kind = "clean" /\ n \in job'[p].left
      BY <1>u DEF Counted, named
    <3>1. ASSUME NEW x \in Members, byMember[x] # None, byMember[x].name = n, byMember'[x] = None
          PROVE  job'[o].kind = "clean" /\ n \in job'[o].left
      <4>1. Steady(o)
        BY <1>k DEF InStep
      <4>2. n \in job[o].names
        BY <3>1, <4>1, <1>0, <1>d, <1>g DEF Steady, membersOf
      <4>3. j.kind = "clean" /\ j.left = job[o].names
        BY <4>2, <1>g, CleanJob DEF j
      <4> QED BY <4>2, <4>3, <1>a
    <3>2. CASE named(n)
      <4>1. PICK x \in Members : byMember[x] # None /\ byMember[x].name = n
        BY <3>2 DEF named
      <4>2. byMember'[x] = None \/ byMember'[x] = byMember[x]
        BY <1>d
      <4> QED BY <3>1, <4>1, <4>2 DEF named
    <3>3. CASE \E p \in Ops : job[p].kind = "clean" /\ n \in job[p].left
      BY <3>3, <2>1, <1>a
    <3> QED BY <3>2, <3>3, <1>k DEF Rounds, Counted
  <2> QED BY <2>3, <2>4 DEF Rounds
<1> QED BY <1>6, <1>7, <1>8 DEF IndInv

LEMMA UnindexMemberKeeps ==
  ASSUME IndInv, NEW o \in Ops, UnindexMember(o)
  PROVE  IndInv'
<1> DEFINE m == job[o].member
           g == job[o].group
           j == IF job[o].names = {} THEN Idle
                ELSE [kind |-> "clean", stage |-> "count", group |-> 0, left |-> job[o].names]
<1>k. Base /\ InStep /\ Rounds
  BY DEF IndInv
<1>t. TypeOK /\ Fresh /\ OneHome /\ TablesOK /\ OrderMatchesMembers
  BY <1>k DEF Base
<1>0. job[o] \in Jobs /\ job[o].kind = "delMember" /\ job[o].stage = "index"
  BY <1>t DEF TypeOK, UnindexMember, atIndex
<1>g. m \in Members /\ m # 0 /\ g \in Groups /\ job[o].names \in SUBSET Names
  BY <1>0, JobShape DEF Members, MemberKinds
<1>i. j \in Jobs /\ j.kind \in {"idle", "clean"} /\ target(j) = 0
  BY <1>g, CleanJob
<1>u. /\ byMember' = [byMember EXCEPT ![m] = None]
      /\ memberOrder' = [memberOrder EXCEPT ![g] = RemoveFirst(@, m)] /\ listed' = listed
      /\ job' = [job EXCEPT ![o] = j]
      /\ dbGroup' = dbGroup /\ dbMember' = dbMember /\ byGroup' = byGroup
      /\ nextGroup' = nextGroup /\ nextMember' = nextMember /\ rrRound' = rrRound
      /\ byStray' = byStray /\ stuck' = stuck /\ clash' = clash /\ raced' = raced
  BY DEF UnindexMember, cleanUp, db, history
<1> HIDE DEF j
<1>d. \A x \in Members : byMember'[x] = IF x = m THEN None ELSE byMember[x]
  BY <1>t, <1>u DEF TypeOK
<1>h. byMember[m] # None => byMember[m].group = g
  <2>1. PICK home \in [Members -> 0 .. MaxGroups] : Homes(home)
    BY <1>t DEF OneHome
  <2> QED BY <2>1, <1>0, <1>g DEF Homes, MemberKinds
<1>s. ASSUME NEW h \in Groups
      PROVE  Lists(memberOrder[h], membersOf(byMember, h)) /\ memberOrder[h] \in Seq(Members)
  BY <1>t DEF OrderMatchesMembers, Lists, TypeOK
<1>r. /\ RemoveFirst(memberOrder[g], m) \in Seq(Members)
      /\ Lists(RemoveFirst(memberOrder[g], m), membersOf(byMember, g) \ {m})
  BY <1>s, <1>g, ListRemove
<1>a. /\ Fresh' /\ TablesOK'
      /\ job'[o] = j /\ \A p \in Ops : p # o => job'[p] = job[p]
      /\ job' \in [Ops -> Jobs]
  <2>1. UNCHANGED db /\ byGroup' \in [Groups -> GroupRow \cup {None}]
    BY <1>t, <1>u DEF UnindexMember, TypeOK
  <2>2. \A x \in Groups : x >= nextGroup => byGroup'[x] = None
    BY <1>t, <1>u DEF Fresh
  <2>3. /\ \A x \in Members : x >= nextMember => byMember'[x] = None
        /\ \A x \in Members : byMember'[x] # None => byMember'[x].group < nextGroup
    BY <1>t, <1>d DEF Fresh
  <2> QED BY <2>1, <2>2, <2>3, <1>u, <1>i, <1>k, JobsAfter
<1>1. TypeOK'
  <2>1. byMember' \in [Members -> MemberRow \cup {None}]
    BY <1>t, <1>u DEF TypeOK
  <2>2. memberOrder' \in [Groups -> Seq(Members)]
    <3>1. memberOrder' = [memberOrder EXCEPT ![g] = RemoveFirst(memberOrder[g], m)]
      BY <1>u
    <3>2. memberOrder \in [Groups -> Seq(Members)]
      BY <1>t DEF TypeOK
    <3> QED BY <3>1, <3>2, <1>r
  <2> QED BY <2>1, <2>2, <1>t, <1>u, <1>a DEF TypeOK
<1>2. OneHome'
  <2>1. PICK home \in [Members -> 0 .. MaxGroups] : Homes(home)
    BY <1>t DEF OneHome
  <2>2. Homes(home)'
    BY <2>1, <1>a, <1>u, <1>d, <1>i DEF Homes, MemberKinds
  <2> QED BY <2>2 DEF OneHome
<1>3. OrderMatchesMembers'
  <2>1. ASSUME NEW h \in Groups
        PROVE  Lists(memberOrder'[h], membersOf(byMember', h)) /\ (memberOrder'[h] # <<>> => h \in listed')
    <3>1. membersOf(byMember', h) = membersOf(byMember, h) \ {m}
      BY <1>d DEF membersOf
    <3>2. CASE h = g
      <4>1. memberOrder'[h] = RemoveFirst(memberOrder[h], m)
        BY <3>2, <1>t, <1>u DEF TypeOK
      <4>2. memberOrder'[h] # <<>> => memberOrder[h] # <<>>
        <5>1. RemoveFirst(<<>>, m) = <<>>
          BY DEF RemoveFirst
        <5> QED BY <4>1, <5>1
      <4> QED BY <3>1, <3>2, <4>1, <4>2, <1>r, <1>t, <1>u DEF OrderMatchesMembers
    <3>3. CASE h # g
      <4>1. membersOf(byMember, h) \ {m} = membersOf(byMember, h)
        BY <3>3, <1>h DEF membersOf
      <4>2. memberOrder'[h] = memberOrder[h]
        BY <3>3, <1>t, <1>u DEF TypeOK
      <4> QED BY <3>1, <4>1, <4>2, <1>s, <1>t, <1>u DEF OrderMatchesMembers
    <3> QED BY <3>2, <3>3
  <2> QED BY <2>1 DEF OrderMatchesMembers, Lists, membersOf
<1>6. Base'
  BY <1>1, <1>2, <1>3, <1>a DEF Base
<1>7. InStep'
  <2> SUFFICES ASSUME ~clash PROVE Apart' /\ (\A p \in Ops : Steady(p)') /\ Synced'
    BY <1>u DEF InStep
  <2>1. Apart /\ (\A p \in Ops : Steady(p)) /\ Synced
    BY <1>k DEF InStep
  <2>2. Apart'
    BY <2>1, <1>a, <1>i, ApartKept
  <2>3. ASSUME NEW p \in Ops PROVE Steady(p)'
    <3>1. CASE p = o
      BY <3>1, <1>a, <1>i DEF Steady, GroupKinds
    <3>2. CASE p # o
      <4>0. g # 0 /\ job[o].kind \in {"addGroup", "setGroup", "delGroup"} \cup MemberKinds
        BY <1>0, <1>g DEF Groups, MemberKinds
      <4>1. Steady(p) /\ job'[p] = job[p]
        BY <2>1, <3>2, <1>a
      <4>2. job[p].kind = "setMember" => job[p].group # g
        BY <2>1, <3>2, <4>0, <1>0, Elsewhere DEF MemberKinds
      <4>3. job[p].kind = "setMember" =>
              job[p].member \in Members /\ byMember'[job[p].member] = byMember[job[p].member]
        <5>1. job[p].kind = "setMember" => job[p].member \in Members
          BY <1>t, JobShape DEF TypeOK
        <5>2. job[p].kind = "setMember" => job[p].member # m
          BY <4>2, <1>0, <1>g, <1>t, SameHome DEF MemberKinds
        <5> QED BY <5>1, <5>2, <1>d
      <4>4. \A x \in Members : byMember'[x] # None => byMember'[x] = byMember[x]
        BY <1>d
      <4>5. (job[p].kind = "addMember" /\ job[p].stage = "index") \/ job[p].kind = "delMember" =>
              job[p].member \in Members
        BY <1>t, JobShape, CountAssumption DEF TypeOK, MemberKinds, Members
      <4>6. \A x \in membersOf(byMember', job[p].group) :
              x \in membersOf(byMember, job[p].group) /\ byMember'[x] = byMember[x]
        BY <4>4 DEF membersOf
      <4> QED BY <4>1, <4>3, <4>4, <4>5, <4>6, <1>u DEF Steady, GroupKinds
    <3> QED BY <3>1, <3>2
  <2>4. \A h \in Groups : (\A p \in Ops : ~groupDue(p, h)') => byGroup'[h] = dbGroup'[h]
    <3> SUFFICES ASSUME NEW h \in Groups, \A p \in Ops : ~groupDue(p, h)'
                 PROVE  byGroup'[h] = dbGroup'[h]
      OBVIOUS
    <3>1. \A p \in Ops : ~groupDue(p, h)
      BY <1>0, <1>a DEF groupDue
    <3> QED BY <2>1, <3>1, <1>u DEF Synced
  <2>5. \A x \in Members : (\A p \in Ops : ~memberDue(p, x)') => byMember'[x] = dbMember'[x]
    <3> SUFFICES ASSUME NEW x \in Members, \A p \in Ops : ~memberDue(p, x)'
                 PROVE  byMember'[x] = dbMember'[x]
      OBVIOUS
    <3>1. CASE x = m
      <4>1. dbMember[m] = None
        BY <1>0, <1>t DEF TablesOK
      <4> QED BY <3>1, <4>1, <1>d, <1>u
    <3>2. CASE x # m
      <4>1. \A p \in Ops : ~memberDue(p, x)
        BY <3>2, <1>0, <1>a, <1>d DEF memberDue, membersOf
      <4> QED BY <2>1, <3>2, <4>1, <1>d, <1>u DEF Synced
    <3> QED BY <3>1, <3>2
  <2> QED BY <2>2, <2>3, <2>4, <2>5 DEF Synced
<1>8. Rounds'
  <2>1. job[o] # Idle /\ job[o].kind \notin {"pick", "clean"}
    BY <1>0 DEF Idle
  <2>2. job'[o].kind # "pick"
    BY <1>a, <1>i
  <2>3. PickAlone'
    BY <2>1, <2>2, <1>k, <1>a, <1>u, PicksKept DEF Rounds
  <2>4. Counted'
    <3> SUFFICES ASSUME ~clash, ~raced, NEW n \in rrRound
                 PROVE  named(n)' \/ \E p \in Ops : job'[p].kind = "clean" /\ n \in job'[p].left
      BY <1>u DEF Counted, named
    <3>1. ASSUME NEW x \in Members, byMember[x] # None, byMember[x].name = n, byMember'[x] = None
          PROVE  job'[o].kind = "clean" /\ n \in job'[o].left
      <4>1. Steady(o)
        BY <1>k DEF InStep
      <4>2. n \in job[o].names
        BY <3>1, <4>1, <1>0, <1>d, <1>g DEF Steady
      <4>3. j.kind = "clean" /\ j.left = job[o].names
        BY <4>2, <1>g, CleanJob DEF j
      <4> QED BY <4>2, <4>3, <1>a
    <3>2. CASE named(n)
      <4>1. PICK x \in Members : byMember[x] # None /\ byMember[x].name = n
        BY <3>2 DEF named
      <4>2. byMember'[x] = None \/ byMember'[x] = byMember[x]
        BY <1>d
      <4> QED BY <3>1, <4>1, <4>2 DEF named
    <3>3. CASE \E p \in Ops : job[p].kind = "clean" /\ n \in job[p].left
      BY <3>3, <2>1, <1>a
    <3> QED BY <3>2, <3>3, <1>k DEF Rounds, Counted
  <2> QED BY <2>3, <2>4 DEF Rounds
<1> QED BY <1>6, <1>7, <1>8 DEF IndInv

\* A restart reads the tables.
LEMMA RestartBase ==
  ASSUME Base, Restart
  PROVE  Base'
<1>t. TypeOK /\ Fresh /\ OneHome /\ TablesOK /\ OrderMatchesMembers
  BY DEF Base
<1>u. /\ byGroup' = dbGroup /\ byMember' = dbMember
      /\ memberOrder' = [g \in Groups |-> inIdOrder(membersOf(dbMember, g))]
      /\ listed' = {g \in Groups : membersOf(dbMember, g) # {}}
      /\ byStray' = [i \in Strays |-> None]
      /\ rrRound' = {} /\ job' = [o \in Ops |-> Idle] /\ stuck' = FALSE
      /\ clash' = FALSE /\ raced' = FALSE
      /\ dbGroup' = dbGroup /\ dbMember' = dbMember
      /\ nextGroup' = nextGroup /\ nextMember' = nextMember
  BY DEF Restart, db
<1>j. \A o \in Ops : job'[o] = Idle /\ job'[o].kind = "idle"
  BY <1>u DEF Idle
<1>s. ASSUME NEW g \in Groups
      PROVE  /\ inIdOrder(membersOf(dbMember, g)) \in Seq(Members)
             /\ Lists(inIdOrder(membersOf(dbMember, g)), membersOf(dbMember, g))
  <2>1. membersOf(dbMember, g) \in SUBSET Members
    BY DEF membersOf
  <2> QED BY <2>1, IdOrder
<1>1. TypeOK'
  <2>1. memberOrder' \in [Groups -> Seq(Members)]
    BY <1>s, <1>u
  <2>2. job' \in [Ops -> Jobs]
    BY <1>u DEF Jobs
  <2> QED BY <2>1, <2>2, <1>t, <1>u DEF TypeOK
<1>2. Fresh'
  <2>1. \A o \in Ops : target(job'[o]) < nextGroup
    <3>1. 0 < nextGroup
      BY <1>t, CountAssumption DEF TypeOK
    <3> QED BY <3>1, <1>j DEF target
  <2> QED BY <2>1, <1>t, <1>u, <1>j DEF Fresh, target, MemberKinds
<1>3. OneHome'
  <2>1. PICK home \in [Members -> 0 .. MaxGroups] : Homes(home)
    BY <1>t DEF OneHome
  <2>2. Homes(home)'
    BY <2>1, <1>u, <1>j DEF Homes, MemberKinds
  <2> QED BY <2>2 DEF OneHome
<1>4. TablesOK'
  BY <1>t, <1>u, <1>j DEF TablesOK
<1>5. OrderMatchesMembers'
  <2>1. ASSUME NEW g \in Groups
        PROVE  Lists(memberOrder'[g], membersOf(byMember', g)) /\ (memberOrder'[g] # <<>> => g \in listed')
    <3>1. memberOrder'[g] = inIdOrder(membersOf(dbMember, g))
      BY <1>u
    <3>2. Lists(memberOrder'[g], membersOf(dbMember, g)) /\ memberOrder'[g] \in Seq(Members)
      BY <3>1, <1>s
    <3>3. membersOf(dbMember, g) = {} => memberOrder'[g] = <<>>
      <4>1. ASSUME memberOrder'[g] # <<>> PROVE memberOrder'[g][1] \in ToSet(memberOrder'[g])
        <5>1. 1 \in DOMAIN memberOrder'[g]
          BY <3>2, <4>1
        <5> QED BY <5>1 DEF ToSet
      <4> QED BY <4>1, <3>2 DEF Lists
    <3> QED BY <3>2, <3>3, <1>u
  <2> QED BY <2>1 DEF OrderMatchesMembers, Lists, membersOf
<1> QED BY <1>1, <1>2, <1>3, <1>4, <1>5 DEF Base

\* The steps of a lookup and of a cleaning change no table and no index.
Counting(o) ==
  DropRound(o) \/ NextRound(o) \/ \E n \in Names : CountName(o, n) \/ Resolve(o, n)

LEMMA CountingBase ==
  ASSUME Base, NEW o \in Ops, Counting(o)
  PROVE  Base'
<1>t. TypeOK
  BY DEF Base
<1>o. job[o] \in Jobs
  BY <1>t DEF TypeOK
<1>i. Idle \in Jobs /\ Idle.kind = "idle"
  BY DEF Jobs, Idle
<1>1. CASE DropRound(o)
  <2>1. job[o].left \in SUBSET Names
    BY <1>1, <1>o, JobShape DEF DropRound
  <2> DEFINE left == job[o].left \ {job[o].stage}
             j == IF left = {} THEN Idle
                  ELSE [kind |-> "clean", stage |-> "count", group |-> 0, left |-> left]
  <2>2. j \in Jobs /\ j.kind \in {"idle", "clean"}
    BY <2>1, CleanJob
  <2>3. job' = [job EXCEPT ![o] = j]
    BY <1>1 DEF DropRound, cleanUp
  <2> HIDE DEF j
  <2>4. /\ UNCHANGED <<db, index>> /\ rrRound' \subseteq Names /\ stuck' \in BOOLEAN
        /\ byStray' \in [Strays -> GroupRow \cup {None}]
        /\ clash' \in BOOLEAN /\ raced' \in BOOLEAN
    BY <1>1, <1>t DEF DropRound, history, TypeOK
  <2> QED BY <2>2, <2>3, <2>4, JobMovesBase
<1>2. CASE NextRound(o)
  <2>1. job[o].name \in Names
    BY <1>2, <1>o, JobShape DEF NextRound
  <2>2. job' = [job EXCEPT ![o] = Idle]
    BY <1>2 DEF NextRound, finish
  <2>3. /\ UNCHANGED <<db, index>> /\ rrRound' \subseteq Names /\ stuck' \in BOOLEAN
        /\ byStray' \in [Strays -> GroupRow \cup {None}]
        /\ clash' \in BOOLEAN /\ raced' \in BOOLEAN
    BY <1>2, <2>1, <1>t DEF NextRound, history, TypeOK
  <2> QED BY <1>i, <2>2, <2>3, JobMovesBase
<1>3. ASSUME NEW n \in Names, CountName(o, n)
      PROVE  Base'
  <2>1. job[o].kind = "clean" /\ job[o].stage = "count" /\ job[o].left \in SUBSET Names
    BY <1>3, <1>o, JobShape DEF CountName
  <2>2. /\ UNCHANGED <<db, index>> /\ rrRound' \subseteq Names /\ stuck' \in BOOLEAN
        /\ byStray' \in [Strays -> GroupRow \cup {None}]
        /\ clash' \in BOOLEAN /\ raced' \in BOOLEAN
    BY <1>3, <1>t DEF CountName, history, TypeOK
  <2>3. CASE \E g \in listed : n \in namesOf(g)
    <3> DEFINE left == job[o].left \ {n}
               j == IF left = {} THEN Idle
                    ELSE [kind |-> "clean", stage |-> "count", group |-> 0, left |-> left]
    <3>1. j \in Jobs /\ j.kind \in {"idle", "clean"}
      BY <2>1, CleanJob
    <3>2. job' = [job EXCEPT ![o] = j]
      BY <1>3, <2>3 DEF CountName, cleanUp
    <3> HIDE DEF j
    <3> QED BY <3>1, <3>2, <2>2, JobMovesBase
  <2>4. CASE ~\E g \in listed : n \in namesOf(g)
    <3> DEFINE j == [job[o] EXCEPT !.stage = n]
    <3>1. j \in Jobs /\ j.kind = "clean"
      <4>1. job[o] \in [kind : {"clean"}, stage : {"count"} \cup Names, group : {0},
                        left : SUBSET Names]
        BY <2>1, <1>o DEF Jobs, Idle
      <4> QED BY <4>1 DEF Jobs
    <3>2. job' = [job EXCEPT ![o] = j]
      BY <1>3, <2>4 DEF CountName
    <3> HIDE DEF j
    <3> QED BY <3>1, <3>2, <2>2, JobMovesBase
  <2> QED BY <2>3, <2>4
<1>4. ASSUME NEW n \in Names, Resolve(o, n)
      PROVE  Base'
  <2>1. /\ UNCHANGED <<db, index>> /\ rrRound' \subseteq Names /\ stuck' \in BOOLEAN
        /\ byStray' \in [Strays -> GroupRow \cup {None}]
        /\ clash' \in BOOLEAN /\ raced' \in BOOLEAN
    BY <1>4, <1>t DEF Resolve, TypeOK
  <2>2. CASE lookupPanics
    <3>1. UNCHANGED job
      BY <1>4, <2>2 DEF Resolve
    <3> QED BY <2>1, <3>1, NothingMovesBase
  <2>3. CASE ~lookupPanics
    <3> DEFINE j == [kind |-> "pick", stage |-> "rotate", name |-> n]
    <3>1. j \in Jobs /\ j.kind = "pick"
      BY DEF Jobs
    <3>2. job' = [job EXCEPT ![o] = j]
      BY <1>4, <2>3 DEF Resolve
    <3> QED BY <2>1, <3>1, <3>2, JobMovesBase
  <2> QED BY <2>2, <2>3
<1> QED BY <1>1, <1>2, <1>3, <1>4 DEF Counting

\* A step that changes nothing but one job, which has begun no operation and is due
\* to write nothing, keeps the operations in step.
LEMMA JobMovesInStep ==
  ASSUME InStep, Base, NEW o \in Ops, NEW j \in Jobs, clash' = clash,
         UNCHANGED <<db, index>>, job' = [job EXCEPT ![o] = j],
         j.kind \in {"idle", "stray", "clean", "pick"},
         job[o].kind \in {"idle", "stray", "clean", "pick"} \/ job[o].stage = "db"
  PROVE  InStep'
<1>u. /\ dbGroup' = dbGroup /\ dbMember' = dbMember /\ byGroup' = byGroup /\ byMember' = byMember
  BY DEF db, index
<1>j. job'[o] = j /\ \A p \in Ops : p # o => job'[p] = job[p]
  BY DEF Base, TypeOK
<1> SUFFICES ASSUME ~clash PROVE Apart' /\ (\A p \in Ops : Steady(p)') /\ Synced'
  BY DEF InStep
<1>1. Apart /\ (\A p \in Ops : Steady(p)) /\ Synced
  BY DEF InStep
<1>2. Apart'
  <2>1. target(j) = 0
    BY JobShape DEF target
  <2> QED BY <2>1, <1>1, <1>j, ApartKept
<1>3. ASSUME NEW p \in Ops PROVE Steady(p)'
  <2>1. CASE p = o
    BY <2>1, <1>j DEF Steady, GroupKinds
  <2>2. CASE p # o
    <3>1. Steady(p) /\ job'[p] = job[p]
      BY <2>2, <1>1, <1>j
    <3> QED BY <3>1, <1>u DEF Steady, membersOf
  <2> QED BY <2>1, <2>2
<1>4. \A h \in Groups : (\A p \in Ops : ~groupDue(p, h)') => byGroup'[h] = dbGroup'[h]
  <2> SUFFICES ASSUME NEW h \in Groups, \A p \in Ops : ~groupDue(p, h)'
               PROVE  byGroup'[h] = dbGroup'[h]
    OBVIOUS
  <2>1. \A p \in Ops : ~groupDue(p, h)
    BY <1>j DEF groupDue
  <2> QED BY <2>1, <1>1, <1>u DEF Synced
<1>5. \A x \in Members : (\A p \in Ops : ~memberDue(p, x)') => byMember'[x] = dbMember'[x]
  <2> SUFFICES ASSUME NEW x \in Members, \A p \in Ops : ~memberDue(p, x)'
               PROVE  byMember'[x] = dbMember'[x]
    OBVIOUS
  <2>1. \A p \in Ops : ~memberDue(p, x)
    BY <1>j, <1>u DEF memberDue, membersOf
  <2> QED BY <2>1, <1>1, <1>u DEF Synced
<1> QED BY <1>2, <1>3, <1>4, <1>5 DEF Synced

\* An operation that begins alone on its group finds index and tables in step.
LEMMA BeginKeeps ==
  ASSUME IndInv, NEW o \in Ops, NEW j \in Jobs, begin(o, j), Claims(j)
  PROVE  IndInv'
<1>k. Base /\ InStep /\ Rounds
  BY DEF IndInv
<1>t. TypeOK /\ OneHome
  BY <1>k DEF Base
<1>u. /\ dbGroup' = dbGroup /\ dbMember' = dbMember /\ byGroup' = byGroup /\ byMember' = byMember
      /\ rrRound' = rrRound /\ clash' = (clash \/ clashes(j))
      /\ raced' = (raced \/ \E q \in Ops : job[q].kind = "pick")
      /\ UNCHANGED <<db, index>> /\ byStray' = byStray /\ stuck' = stuck
  BY DEF begin, db, index
<1>j. /\ job' = [job EXCEPT ![o] = j] /\ job'[o] = j /\ \A p \in Ops : p # o => job'[p] = job[p]
      /\ job[o] = Idle /\ job[o].kind = "idle"
  BY <1>t DEF begin, TypeOK, Idle
<1>c. /\ j.stage = "db"
      /\ j.kind \in {"addGroup", "setGroup", "delGroup", "stray"} \cup MemberKinds
  BY DEF Claims
<1>6. Base'
  <2>1. /\ byStray' \in [Strays -> GroupRow \cup {None}]
        /\ rrRound' \subseteq Names /\ stuck' \in BOOLEAN /\ clash' \in BOOLEAN /\ raced' \in BOOLEAN
    BY <1>t, <1>u DEF TypeOK
  <2> QED BY <2>1, <1>k, <1>u, <1>j, JobMovesBase
<1>7. InStep'
  <2> SUFFICES ASSUME ~clash, ~clashes(j) PROVE Apart' /\ (\A p \in Ops : Steady(p)') /\ Synced'
    BY <1>u DEF InStep
  <2>1. Apart /\ (\A p \in Ops : Steady(p)) /\ Synced
    BY <1>k DEF InStep
  <2>a. \A p \in Ops : job[p].kind # "idle" /\ target(job[p]) = target(j) /\ target(j) # 0 =>
          j.kind = "addMember" /\ job[p].kind = "addMember"
    BY DEF clashes
  <2>2. Apart'
    <3>1. \A p \in Ops : p # o => target(job'[p]) = target(job[p])
      BY <1>j
    <3>2. \A p \in Ops : target(job[p]) # 0 => job[p].kind # "idle"
      BY DEF target
    <3>3. target(job'[o]) = target(j)
      BY <1>j
    <3> QED BY <2>1, <2>a, <3>1, <3>2, <3>3, <1>j DEF Apart
  <2>b. \A p \in Ops : job[p].kind \in {"addGroup", "setGroup", "delGroup"} \cup MemberKinds
          /\ j.group # 0 /\ j.kind # "addMember" => job[p].group # j.group
    <3>1. \A p \in Ops : job[p].kind \in {"addGroup", "setGroup", "delGroup"} \cup MemberKinds =>
            target(job[p]) = job[p].group /\ job[p].kind # "idle"
      BY DEF target, MemberKinds
    <3>2. target(j) = j.group
      BY <1>c DEF target, MemberKinds
    <3> QED BY <2>a, <3>1, <3>2
  <2>3. ASSUME NEW p \in Ops PROVE Steady(p)'
    <3>1. CASE p # o
      <4>1. Steady(p) /\ job'[p] = job[p]
        BY <3>1, <2>1, <1>j
      <4> QED BY <4>1, <1>u DEF Steady, membersOf
    <3>2. CASE p = o
      <4>1. j.kind = "setGroup" => dbGroup[j.group] # None
        <5> SUFFICES ASSUME j.kind = "setGroup" PROVE dbGroup[j.group] # None
          OBVIOUS
        <5>1. j.group \in Groups /\ j.group # 0 /\ byGroup[j.group] # None
          BY JobShape DEF Claims, Groups
        <5>2. \A q \in Ops : ~groupDue(q, j.group)
          BY <5>1, <2>b DEF groupDue
        <5> QED BY <5>1, <5>2, <2>1 DEF Synced
      <4>2. j.kind = "setMember" => dbMember[j.member] = j.row /\ byMember[j.member] = j.row
        <5> SUFFICES ASSUME j.kind = "setMember"
                     PROVE  dbMember[j.member] = j.row /\ byMember[j.member] = j.row
          OBVIOUS
        <5>1. /\ j.member \in Members /\ j.group \in Groups /\ j.group # 0
              /\ byMember[j.member] # None /\ byMember[j.member].group = j.group
              /\ j.row = byMember[j.member]
          BY JobShape DEF Claims, Groups, MemberKinds
        <5>2. ASSUME NEW q \in Ops, memberDue(q, j.member) PROVE FALSE
          <6>1. job[q].kind \in {"addMember", "delMember", "delGroup"} /\ job[q].group # j.group
            BY <5>1, <5>2, <2>b DEF memberDue, MemberKinds
          <6>2. CASE job[q].kind = "delGroup"
            BY <5>1, <5>2, <6>1, <6>2 DEF memberDue, membersOf
          <6>3. CASE job[q].kind # "delGroup"
            <7>1. job[q].member = j.member /\ job[q].kind \in MemberKinds
              BY <5>2, <6>1, <6>3 DEF memberDue, MemberKinds
            <7> QED BY <5>1, <6>1, <7>1, <1>t, SameHome
          <6> QED BY <6>2, <6>3
        <5> QED BY <5>1, <5>2, <2>1 DEF Synced
      <4>3. j.kind = "delGroup" => \A m \in membersOf(byMember, j.group) : byMember[m].name \in j.names
        BY DEF Claims
      <4>4. j.kind = "delMember" => byMember[j.member].name \in j.names
        BY DEF Claims
      <4> QED BY <3>2, <4>1, <4>2, <4>3, <4>4, <1>c, <1>j, <1>u DEF Steady, membersOf
    <3> QED BY <3>1, <3>2
  <2>4. \A h \in Groups : (\A p \in Ops : ~groupDue(p, h)') => byGroup'[h] = dbGroup'[h]
    <3> SUFFICES ASSUME NEW h \in Groups, \A p \in Ops : ~groupDue(p, h)'
                 PROVE  byGroup'[h] = dbGroup'[h]
      OBVIOUS
    <3>1. \A p \in Ops : ~groupDue(p, h)
      BY <1>j DEF groupDue
    <3> QED BY <3>1, <2>1, <1>u DEF Synced
  <2>5. \A x \in Members : (\A p \in Ops : ~memberDue(p, x)') => byMember'[x] = dbMember'[x]
    <3> SUFFICES ASSUME NEW x \in Members, \A p \in Ops : ~memberDue(p, x)'
                 PROVE  byMember'[x] = dbMember'[x]
      OBVIOUS
    <3>1. \A p \in Ops : ~memberDue(p, x)
      BY <1>j, <1>u DEF memberDue, membersOf
    <3> QED BY <3>1, <2>1, <1>u DEF Synced
  <2> QED BY <2>2, <2>3, <2>4, <2>5 DEF Synced
<1>8. Rounds'
  <2>0. j.kind \notin {"pick", "clean", "idle"}
    BY <1>c DEF MemberKinds
  <2>1. PickAlone'
    <3> SUFFICES ASSUME ~raced', NEW p \in Ops, job'[p].kind = "pick" PROVE FALSE
      BY DEF PickAlone
    <3> QED BY <2>0, <1>u, <1>j
  <2>2. Counted'
    <3> SUFFICES ASSUME ~clash, ~raced, NEW n \in rrRound
                 PROVE  named(n)' \/ \E p \in Ops : job'[p].kind = "clean" /\ n \in job'[p].left
      BY <1>u DEF Counted, named
    <3>1. CASE named(n)
      BY <3>1, <1>u DEF named
    <3>2. CASE \E p \in Ops : job[p].kind = "clean" /\ n \in job[p].left
      BY <3>2, <1>j
    <3> QED BY <3>1, <3>2, <1>k DEF Rounds, Counted
  <2> QED BY <2>1, <2>2 DEF Rounds
<1> QED BY <1>6, <1>7, <1>8 DEF IndInv

LEMMA RefusedKeeps ==
  ASSUME IndInv, NEW o \in Ops, refused(o)
  PROVE  IndInv'
<1>k. Base /\ InStep /\ Rounds
  BY DEF IndInv
<1>t. TypeOK
  BY <1>k DEF Base
<1>i. Idle \in Jobs /\ Idle.kind = "idle"
  BY DEF Jobs, Idle
<1>u. /\ UNCHANGED <<db, index>> /\ job' = [job EXCEPT ![o] = Idle] /\ rrRound' = rrRound
      /\ byStray' = byStray /\ stuck' = stuck /\ clash' = clash /\ raced' = raced
      /\ job[o] # Idle /\ job[o].stage = "db"
  BY DEF refused, history
<1>6. Base'
  <2>1. /\ byStray' \in [Strays -> GroupRow \cup {None}]
        /\ rrRound' \subseteq Names /\ stuck' \in BOOLEAN /\ clash' \in BOOLEAN /\ raced' \in BOOLEAN
    BY <1>t, <1>u DEF TypeOK
  <2> QED BY <2>1, <1>k, <1>i, <1>u, JobMovesBase
<1>7. InStep'
  BY <1>k, <1>i, <1>u, JobMovesInStep
<1>8. Rounds'
  <2>1. job[o].kind \notin {"pick", "clean"}
    <3>1. job[o] \in Jobs
      BY <1>t DEF TypeOK
    <3> QED BY <3>1, <1>u, JobShape, NameAssumption
  <2>2. job'[o] = Idle /\ \A p \in Ops : p # o => job'[p] = job[p]
    BY <1>t, <1>u DEF TypeOK
  <2>3. byMember' = byMember
    BY <1>u DEF index
  <2> QED BY <2>1, <2>2, <2>3, <1>k, <1>i, <1>u, RoundsKept
<1> QED BY <1>6, <1>7, <1>8 DEF IndInv

\* What is saved or deleted under an id below zero touches no row and no other entry.
LEMMA StrayKeeps ==
  ASSUME IndInv, NEW o \in Ops, StrayStatement(o) \/ IndexStray(o)
  PROVE  IndInv'
<1>k. Base /\ InStep /\ Rounds
  BY DEF IndInv
<1>t. TypeOK
  BY <1>k DEF Base
<1>0. job[o] \in Jobs /\ job[o].kind = "stray" /\ job[o] # Idle
  BY <1>t DEF TypeOK, StrayStatement, IndexStray, atDB, atIndex, Idle
<1>r. job[o].id \in Strays /\ job[o].row \in GroupRow \cup {None}
  BY <1>0, JobShape
<1>1. /\ UNCHANGED <<db, index>> /\ rrRound' = rrRound
      /\ stuck' = stuck /\ clash' = clash /\ raced' = raced
  BY DEF StrayStatement, IndexStray, history
<1>2. byStray' \in [Strays -> GroupRow \cup {None}]
  <2>1. CASE StrayStatement(o)
    BY <2>1, <1>t DEF StrayStatement, TypeOK
  <2>2. CASE IndexStray(o)
    BY <2>2, <1>t, <1>r DEF IndexStray, TypeOK
  <2> QED BY <2>1, <2>2
<1>3. PICK j \in Jobs : job' = [job EXCEPT ![o] = j] /\ j.kind \in {"idle", "stray"}
  <2>1. CASE StrayStatement(o)
    <3> DEFINE j == [job[o] EXCEPT !.stage = "index"]
    <3>1. j \in Jobs /\ j.kind = "stray"
      <4>1. job[o] \in [kind : {"stray"}, stage : Stages, group : {0}, id : Strays,
                        row : GroupRow \cup {None}]
        BY <1>0 DEF Jobs, Idle
      <4> QED BY <4>1 DEF Jobs, Stages
    <3>2. job' = [job EXCEPT ![o] = j]
      BY <2>1 DEF StrayStatement, persisted
    <3> HIDE DEF j
    <3> QED BY <3>1, <3>2
  <2>2. CASE IndexStray(o)
    <3>1. Idle \in Jobs /\ Idle.kind = "idle"
      BY DEF Jobs, Idle
    <3>2. job' = [job EXCEPT ![o] = Idle]
      BY <2>2 DEF IndexStray, finish
    <3> QED BY <3>1, <3>2
  <2> QED BY <2>1, <2>2
<1>6. Base'
  <2>1. rrRound' \subseteq Names /\ stuck' \in BOOLEAN /\ clash' \in BOOLEAN /\ raced' \in BOOLEAN
    BY <1>t, <1>1 DEF TypeOK
  <2> QED BY <2>1, <1>k, <1>1, <1>2, <1>3, JobMovesBase
<1>7. InStep'
  BY <1>k, <1>0, <1>1, <1>3, JobMovesInStep
<1>8. Rounds'
  <2>1. job'[o].kind # "pick" /\ \A p \in Ops : p # o => job'[p] = job[p]
    BY <1>t, <1>3 DEF TypeOK
  <2>2. byMember' = byMember
    BY <1>1 DEF index
  <2> QED BY <2>1, <2>2, <1>k, <1>0, <1>1, RoundsKept
<1> QED BY <1>6, <1>7, <1>8 DEF IndInv

\* A counter is dropped only when the cleaning has looked, and a lookup that makes
\* one has seen a member of the name.
LEMMA CountingKeeps ==
  ASSUME IndInv, NEW o \in Ops, Counting(o)
  PROVE  IndInv'
<1>k. Base /\ InStep /\ Rounds
  BY DEF IndInv
<1>t. TypeOK /\ OrderMatchesMembers
  BY <1>k DEF Base
<1>o. job[o] \in Jobs
  BY <1>t DEF TypeOK
<1>i. Idle \in Jobs /\ Idle.kind = "idle"
  BY DEF Jobs, Idle
<1>6. Base'
  BY <1>k, CountingBase
<1>1. CASE DropRound(o)
  <2>1. /\ job[o].kind = "clean" /\ job[o] # Idle /\ job[o].left \in SUBSET Names
    BY <1>1, <1>o, JobShape DEF DropRound, Idle
  <2> DEFINE n == job[o].stage
             left == job[o].left \ {n}
             j == IF left = {} THEN Idle
                  ELSE [kind |-> "clean", stage |-> "count", group |-> 0, left |-> left]
  <2>2. j \in Jobs /\ j.kind \in {"idle", "clean"} /\ (left # {} => j.kind = "clean" /\ j.left = left)
    BY <2>1, CleanJob
  <2>3. job' = [job EXCEPT ![o] = j]
    BY <1>1 DEF DropRound, cleanUp
  <2> HIDE DEF j
  <2>4. /\ UNCHANGED <<db, index>> /\ rrRound' = rrRound \ {n} /\ byMember' = byMember
        /\ clash' = clash /\ raced' = raced
    BY <1>1 DEF DropRound, history, index
  <2>5. job'[o] = j /\ \A p \in Ops : p # o => job'[p] = job[p]
    BY <2>3, <1>t DEF TypeOK
  <2>6. InStep'
    BY <1>k, <2>1, <2>2, <2>3, <2>4, JobMovesInStep
  <2>7. PickAlone'
    BY <1>k, <2>1, <2>2, <2>4, <2>5, PicksKept DEF Rounds
  <2>8. Counted'
    <3> SUFFICES ASSUME ~clash, ~raced, NEW x \in rrRound, x # n
                 PROVE  named(x)' \/ \E p \in Ops : job'[p].kind = "clean" /\ x \in job'[p].left
      BY <2>4 DEF Counted, named
    <3>1. CASE named(x)
      BY <3>1, <2>4 DEF named
    <3>2. ASSUME NEW p \in Ops, job[p].kind = "clean", x \in job[p].left
          PROVE  job'[p].kind = "clean" /\ x \in job'[p].left
      BY <3>2, <2>2, <2>5
    <3> QED BY <3>1, <3>2, <1>k DEF Rounds, Counted
  <2> QED BY <1>6, <2>6, <2>7, <2>8 DEF IndInv, Rounds
<1>2. CASE NextRound(o)
  <2>1. job[o].kind = "pick"
    BY <1>2 DEF NextRound
  <2>2. job' = [job EXCEPT ![o] = Idle] /\ job'[o] = Idle /\ \A p \in Ops : p # o => job'[p] = job[p]
    BY <1>2, <1>t DEF NextRound, finish, TypeOK
  <2>3. /\ UNCHANGED <<db, index>> /\ rrRound' = rrRound \cup {job[o].name} /\ byMember' = byMember
        /\ clash' = clash /\ raced' = raced
    BY <1>2 DEF NextRound, history, index
  <2>4. InStep'
    BY <1>i, <1>k, <2>1, <2>2, <2>3, JobMovesInStep
  <2>5. PickAlone'
    <3> SUFFICES ASSUME ~raced, NEW p \in Ops, job'[p].kind = "pick" PROVE FALSE
      BY <2>3 DEF PickAlone
    <3>1. p # o /\ job[p].kind = "pick"
      BY <2>2, <1>i
    <3> QED BY <3>1, <2>1, <1>i, <1>k DEF Rounds, PickAlone
  <2>6. Counted'
    <3> SUFFICES ASSUME ~clash, ~raced, NEW x \in rrRound \cup {job[o].name}
                 PROVE  named(x)' \/ \E p \in Ops : job'[p].kind = "clean" /\ x \in job'[p].left
      BY <2>3 DEF Counted, named
    <3>1. CASE x = job[o].name \/ named(x)
      <4>1. named(job[o].name)
        BY <2>1, <1>k DEF Rounds, PickAlone
      <4> QED BY <3>1, <4>1, <2>3 DEF named
    <3>2. CASE \E p \in Ops : job[p].kind = "clean" /\ x \in job[p].left
      BY <3>2, <2>1, <2>2
    <3> QED BY <3>1, <3>2, <1>k DEF Rounds, Counted
  <2> QED BY <1>6, <2>4, <2>5, <2>6 DEF IndInv, Rounds
<1>3. ASSUME NEW n \in Names, CountName(o, n)
      PROVE  IndInv'
  <2>1. job[o].kind = "clean" /\ job[o] # Idle /\ job[o].stage = "count" /\ job[o].left \in SUBSET Names
    BY <1>3, <1>o, JobShape DEF CountName, Idle
  <2>2. /\ UNCHANGED <<db, index>> /\ rrRound' = rrRound /\ byMember' = byMember
        /\ clash' = clash /\ raced' = raced
    BY <1>3 DEF CountName, history, index
  <2>3. CASE \E g \in listed : n \in namesOf(g)
    <3> DEFINE left == job[o].left \ {n}
               j == IF left = {} THEN Idle
                    ELSE [kind |-> "clean", stage |-> "count", group |-> 0, left |-> left]
    <3>1. j \in Jobs /\ j.kind \in {"idle", "clean"} /\ (left # {} => j.kind = "clean" /\ j.left = left)
      BY <2>1, CleanJob
    <3>2. job' = [job EXCEPT ![o] = j]
      BY <1>3, <2>3 DEF CountName, cleanUp
    <3> HIDE DEF j
    <3>3. job'[o] = j /\ \A p \in Ops : p # o => job'[p] = job[p]
      BY <3>2, <1>t DEF TypeOK
    <3>4. InStep'
      BY <1>k, <2>1, <2>2, <3>1, <3>2, JobMovesInStep
    <3>5. PickAlone'
      BY <1>k, <2>1, <2>2, <3>1, <3>3, PicksKept DEF Rounds
    <3>6. named(n)
      <4>1. PICK g \in listed : n \in namesOf(g)
        BY <2>3
      <4>2. g \in Groups
        BY <4>1, <1>t DEF TypeOK
      <4> QED BY <4>1, <4>2, <1>t, NamesOfMembers DEF named, membersOf
    <3>7. Counted'
      <4> SUFFICES ASSUME ~clash, ~raced, NEW x \in rrRound
                   PROVE  named(x)' \/ \E p \in Ops : job'[p].kind = "clean" /\ x \in job'[p].left
        BY <2>2 DEF Counted, named
      <4>1. CASE named(x) \/ x = n
        BY <4>1, <3>6, <2>2 DEF named
      <4>2. ASSUME NEW p \in Ops, job[p].kind = "clean", x \in job[p].left, x # n
            PROVE  job'[p].kind = "clean" /\ x \in job'[p].left
        BY <4>2, <3>1, <3>3
      <4> QED BY <4>1, <4>2, <1>k DEF Rounds, Counted
    <3> QED BY <1>6, <3>4, <3>5, <3>7 DEF IndInv, Rounds
  <2>4. CASE ~\E g \in listed : n \in namesOf(g)
    <3> DEFINE j == [job[o] EXCEPT !.stage = n]
    <3>1. j \in Jobs /\ j.kind = "clean" /\ j.left = job[o].left
      <4>1. job[o] \in [kind : {"clean"}, stage : {"count"} \cup Names, group : {0},
                        left : SUBSET Names]
        BY <2>1, <1>o DEF Jobs, Idle
      <4> QED BY <4>1 DEF Jobs
    <3>2. job' = [job EXCEPT ![o] = j]
      BY <1>3, <2>4 DEF CountName
    <3> HIDE DEF j
    <3>3. job'[o] = j /\ \A p \in Ops : p # o => job'[p] = job[p]
      BY <3>2, <1>t DEF TypeOK
    <3>4. InStep'
      BY <1>k, <2>1, <2>2, <3>1, <3>2, JobMovesInStep
    <3>5. PickAlone'
      BY <1>k, <2>1, <2>2, <3>1, <3>3, PicksKept DEF Rounds
    <3>6. Counted'
      <4> SUFFICES ASSUME ~clash, ~raced, NEW x \in rrRound
                   PROVE  named(x)' \/ \E p \in Ops : job'[p].kind = "clean" /\ x \in job'[p].left
        BY <2>2 DEF Counted, named
      <4>1. CASE named(x)
        BY <4>1, <2>2 DEF named
      <4>2. ASSUME NEW p \in Ops, job[p].kind = "clean", x \in job[p].left
            PROVE  job'[p].kind = "clean" /\ x \in job'[p].left
        BY <4>2, <3>1, <3>3
      <4> QED BY <4>1, <4>2, <1>k DEF Rounds, Counted
    <3> QED BY <1>6, <3>4, <3>5, <3>6 DEF IndInv, Rounds
  <2> QED BY <2>3, <2>4
<1>4. ASSUME NEW n \in Names, Resolve(o, n)
      PROVE  IndInv'
  <2>1. /\ UNCHANGED <<db, index>> /\ rrRound' = rrRound /\ byMember' = byMember /\ clash' = clash
        /\ raced' = (raced \/ \E q \in Ops \ {o} : job[q] # Idle)
        /\ job[o] = Idle
    BY <1>4 DEF Resolve, index
  <2>2. CASE lookupPanics
    <3>1. job' = job
      BY <1>4, <2>2 DEF Resolve
    <3>2. InStep'
      BY <1>k, <2>1, <3>1 DEF InStep, Apart, Steady, Synced, groupDue, memberDue, membersOf, db, index, target
    <3>3. Rounds'
      BY <1>k, <2>1, <3>1 DEF Rounds, PickAlone, Counted, named
    <3> QED BY <1>6, <3>2, <3>3 DEF IndInv
  <2>3. CASE ~lookupPanics
    <3> DEFINE j == [kind |-> "pick", stage |-> "rotate", name |-> n]
    <3>1. j \in Jobs /\ j.kind = "pick" /\ j.name = n
      BY DEF Jobs
    <3>2. job' = [job EXCEPT ![o] = j] /\ Cardinality(hits(n)) > 1
      BY <1>4, <2>3 DEF Resolve
    <3> HIDE DEF j
    <3>3. job'[o] = j /\ \A p \in Ops : p # o => job'[p] = job[p]
      BY <3>2, <1>t DEF TypeOK
    <3>4. InStep'
      BY <1>i, <1>k, <2>1, <3>1, <3>2, JobMovesInStep
    <3>5. named(n)
      <4>1. hits(n) # {}
        BY <3>2, FS_EmptySet
      <4>2. PICK g \in listed : n \in namesOf(g)
        BY <4>1 DEF hits
      <4>3. g \in Groups
        BY <4>2, <1>t DEF TypeOK
      <4> QED BY <4>2, <4>3, <1>t, NamesOfMembers DEF named, membersOf
    <3>6. PickAlone'
      <4> SUFFICES ASSUME ~raced', NEW p \in Ops, job'[p].kind = "pick"
                   PROVE  /\ \E m \in Members : byMember'[m] # None /\ byMember'[m].name = job'[p].name
                          /\ \A q \in Ops \ {p} : job'[q] = Idle
        BY DEF PickAlone, named
      <4>1. \A q \in Ops \ {o} : job'[q] = Idle
        BY <2>1, <3>3
      <4>2. p = o
        BY <4>1, <1>i
      <4>3. job'[p].name = n
        BY <4>2, <3>1, <3>3
      <4>4. \E m \in Members : byMember'[m] # None /\ byMember'[m].name = n
        BY <3>5, <2>1 DEF named
      <4> QED BY <4>1, <4>2, <4>3, <4>4
    <3>7. Counted'
      <4> SUFFICES ASSUME ~clash, ~raced, NEW x \in rrRound
                   PROVE  named(x)' \/ \E p \in Ops : job'[p].kind = "clean" /\ x \in job'[p].left
        BY <2>1 DEF Counted, named
      <4>1. CASE named(x)
        BY <4>1, <2>1 DEF named
      <4>2. CASE \E p \in Ops : job[p].kind = "clean" /\ x \in job[p].left
        BY <4>2, <2>1, <3>3, <1>i
      <4> QED BY <4>1, <4>2, <1>k DEF Rounds, Counted
    <3> QED BY <1>6, <3>4, <3>6, <3>7 DEF IndInv, Rounds
  <2> QED BY <2>2, <2>3
<1> QED BY <1>1, <1>2, <1>3, <1>4 DEF Counting

LEMMA RestartKeeps ==
  ASSUME IndInv, Restart
  PROVE  IndInv'
<1>1. Base'
  BY RestartBase DEF IndInv
<1>2. /\ byGroup' = dbGroup' /\ byMember' = dbMember' /\ rrRound' = {}
      /\ \A o \in Ops : job'[o] = Idle
  BY DEF Restart, db
<1>3. Idle.kind = "idle" /\ target(Idle) = 0
  BY DEF Idle, target
<1>4. InStep'
  <2>1. Apart'
    <3>1. \A o \in Ops : target(job'[o]) = 0
      BY <1>2, <1>3
    <3> QED BY <3>1 DEF Apart, target
  <2>2. \A o \in Ops : Steady(o)'
    BY <1>2, <1>3 DEF Steady, GroupKinds
  <2>3. Synced'
    BY <1>2 DEF Synced
  <2> QED BY <2>1, <2>2, <2>3 DEF InStep
<1>5. Rounds'
  BY <1>2, <1>3 DEF Rounds, PickAlone, Counted
<1> QED BY <1>1, <1>4, <1>5 DEF IndInv

-----------------------------------------------------------------------------
\* The steps of the operations, in the groups the proofs look at.
LEMMA StepsOfOperations ==
  ASSUME NEW o \in Ops, Operation(o)
  PROVE  \/ Begins(o) \/ refused(o) \/ Counting(o)
         \/ InsertGroup(o) \/ UpdateGroup(o) \/ IndexGroup(o)
         \/ InsertMember(o) \/ UpdateMember(o) \/ IndexMember(o)
         \/ DropGroup(o) \/ DropMember(o) \/ UnindexGroup(o) \/ UnindexMember(o)
         \/ StrayStatement(o) \/ IndexStray(o)
  BY DEF Operation, Begins, Counting

\* Every step keeps the inductive invariant.
LEMMA Preserved == IndInv /\ [Next]_vars => IndInv'
<1> SUFFICES ASSUME IndInv, [Next]_vars PROVE IndInv'
  OBVIOUS
<1>1. ASSUME NEW o \in Ops, Begins(o) PROVE IndInv'
  <2>1. PICK j \in Jobs : begin(o, j) /\ Claims(j)
    BY <1>1, Beginnings DEF IndInv
  <2> QED BY <2>1, BeginKeeps
<1>2. CASE UNCHANGED vars
  <2>1. /\ UNCHANGED <<db, index, job>> /\ rrRound' = rrRound /\ byStray' = byStray /\ stuck' = stuck
        /\ clash' = clash /\ raced' = raced
    BY <1>2 DEF vars, history
  <2>2. Base'
    <3>1. /\ byStray' \in [Strays -> GroupRow \cup {None}]
          /\ rrRound' \subseteq Names /\ stuck' \in BOOLEAN /\ clash' \in BOOLEAN /\ raced' \in BOOLEAN
      BY <2>1 DEF IndInv, Base, TypeOK
    <3> QED BY <2>1, <3>1, NothingMovesBase DEF IndInv
  <2>3. InStep'
    BY <2>1 DEF IndInv, InStep, Apart, Steady, Synced, groupDue, memberDue, membersOf, db, index, target
  <2>4. Rounds'
    BY <2>1 DEF IndInv, Rounds, PickAlone, Counted, named, index
  <2> QED BY <2>2, <2>3, <2>4 DEF IndInv
<1>3. CASE Restart
  BY <1>3, RestartKeeps
<1>4. ASSUME NEW o \in Ops, Operation(o) PROVE IndInv'
  BY <1>1, <1>4, StepsOfOperations, RefusedKeeps, CountingKeeps, StrayKeeps, InsertGroupKeeps,
     UpdateGroupKeeps, IndexGroupKeeps, InsertMemberKeeps, UpdateMemberKeeps, IndexMemberKeeps,
     DropGroupKeeps, DropMemberKeeps, UnindexGroupKeeps, UnindexMemberKeeps
<1> QED BY <1>2, <1>3, <1>4 DEF Next

LEMMA Invariance == Spec => []IndInv
  BY Initially, Preserved, PTL DEF Spec

\* Whatever overlaps, the list of a group has its members, each once
\* (Registry.indexMember, DeleteMember and DeleteGroup).
THEOREM IndexesAgree == Spec => []OrderMatchesMembers
<1>1. IndInv => OrderMatchesMembers
  BY DEF IndInv, Base
<1> QED BY <1>1, Invariance, PTL

\* When nothing is under way and no operations have met on a group, the indexes
\* are the tables at every id the database gives out (SaveGroup, SaveMember, DeleteGroup, DeleteMember, LoadFromDB).
THEOREM TablesAreIndexed == Spec => []IndexMatchesDB
<1>1. IndInv => IndexMatchesDB
  <2> SUFFICES ASSUME IndInv, quiet, ~clash
               PROVE  /\ byGroup = dbGroup /\ byMember = dbMember
                      /\ \A g \in Groups : ToSet(memberOrder[g]) = membersOf(dbMember, g)
    BY DEF IndexMatchesDB
  <2>t. TypeOK /\ OrderMatchesMembers
    BY DEF IndInv, Base
  <2>1. \A o \in Ops : job[o].kind = "idle"
    BY DEF quiet, Idle
  <2>2. \A g \in Groups : byGroup[g] = dbGroup[g]
    BY <2>1 DEF IndInv, InStep, Synced, groupDue
  <2>3. \A m \in Members : byMember[m] = dbMember[m]
    BY <2>1 DEF IndInv, InStep, Synced, memberDue
  <2>4. byGroup = dbGroup
    BY <2>2, <2>t DEF TypeOK
  <2>5. byMember = dbMember
    BY <2>3, <2>t DEF TypeOK
  <2> QED BY <2>4, <2>5, <2>t DEF OrderMatchesMembers
<1> QED BY <1>1, Invariance, PTL

\* No two groups of ids above zero in the index that nobody is changing answer to
\* one prefix (the check and the UNIQUE constraint behind Registry.SaveGroup).
THEOREM PathsAreUnambiguous == Spec => []NoAmbiguousPrefix
<1>1. IndInv => NoAmbiguousPrefix
  <2> SUFFICES ASSUME IndInv, ~clash, NEW g \in Groups, NEW h \in Groups, g # h,
                      byGroup[g] # None, \A o \in Ops : target(job[o]) # g,
                      byGroup[h] # None, \A o \in Ops : target(job[o]) # h
               PROVE  byGroup[g].prefix # byGroup[h].prefix
    BY DEF NoAmbiguousPrefix
  <2>1. ASSUME NEW x \in Groups, \A o \in Ops : target(job[o]) # x PROVE byGroup[x] = dbGroup[x]
    <3>1. \A o \in Ops : ~groupDue(o, x)
      BY <2>1 DEF groupDue, target
    <3> QED BY <3>1 DEF IndInv, InStep, Synced
  <2>2. byGroup[g] = dbGroup[g] /\ byGroup[h] = dbGroup[h]
    BY <2>1
  <2> QED BY <2>2 DEF IndInv, Base, TablesOK
<1> QED BY <1>1, Invariance, PTL

\* A round-robin counter goes with the last member of its name (cleanupRound).
THEOREM CountersAreCleaned == Spec => []RoundsAreCleaned
<1>1. IndInv => RoundsAreCleaned
  <2> SUFFICES ASSUME IndInv, quiet, ~clash, ~raced, NEW n \in rrRound
               PROVE  \E g \in listed : n \in namesOf(g)
    BY DEF RoundsAreCleaned
  <2>t. TypeOK /\ OrderMatchesMembers
    BY DEF IndInv, Base
  <2>1. \A o \in Ops : job[o].kind = "idle"
    BY DEF quiet, Idle
  <2>2. named(n)
    BY <2>1 DEF IndInv, Rounds, Counted
  <2>3. PICK m \in Members : byMember[m] # None /\ byMember[m].name = n
    BY <2>2 DEF named
  <2> DEFINE g == byMember[m].group
  <2>4. g \in Groups /\ m \in membersOf(byMember, g)
    BY <2>3, <2>t, Rows DEF membersOf
  <2>5. n \in namesOf(g)
    BY <2>3, <2>4, <2>t, NamesOfMembers
  <2>6. memberOrder[g] # <<>>
    <3>1. ToSet(memberOrder[g]) # {}
      BY <2>4, <2>t DEF OrderMatchesMembers
    <3>2. ToSet(<<>>) = {}
      BY DEF ToSet
    <3> QED BY <3>1, <3>2
  <2> QED BY <2>4, <2>5, <2>6, <2>t DEF OrderMatchesMembers
<1> QED BY <1>1, Invariance, PTL
=============================================================================
