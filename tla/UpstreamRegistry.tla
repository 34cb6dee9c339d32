-------------------------- MODULE UpstreamRegistry --------------------------
(***************************************************************************)
(* Model groups and their members: the tables, the in-memory indexes that   *)
(* route requests, and the operations that change both.  Sources:           *)
(* internal/upstream/registry.go, discover.go, internal/admin/handlers.go,  *)
(* internal/store/migrations.                                               *)
(*                                                                          *)
(* An operation checks under the read lock, changes the database, and then  *)
(* changes the indexes under the write lock; the lock is free in between    *)
(* and the handlers take none of their own, so operations interleave at     *)
(* these points.  A statement of the database is atomic (one connection).   *)
(* The parts cache of a group is the subject of PartsCache, and the enabled *)
(* flags are left out: a lookup may pass any group over.  Once a panic has  *)
(* left the read lock held, writers wait for good and readers behind them:  *)
(* no further step is modelled then.                                        *)
(***************************************************************************)
EXTENDS Integers, Sequences, SequencesExt, FiniteSets

CONSTANTS Ops,               \* admin requests and routing requests
          Prefix, Names, None,
          MaxGroups, MaxMembers,  \* bounds on the ids the database gives out
          MaxStrays               \* bound on the ids below zero a request names

ASSUME CountAssumption == MaxGroups \in Nat /\ MaxMembers \in Nat /\ MaxStrays \in Nat
\* The stage of a cleaning is the name it found unused: no name is a stage.
ASSUME NameAssumption == {"db", "count"} \cap Names = {}

VARIABLES
  dbGroup, dbMember,     \* id -> row
  nextGroup, nextMember, \* AUTOINCREMENT: an id is never given out again
  byGroup, byMember,     \* id -> entry
  memberOrder,           \* group -> its member ids
  byStray,               \* byGroup at ids below zero: no row has such an id
  listed,                \* groups memberOrder has a key for
  rrRound,               \* short names with a round-robin counter
  job,                   \* operation -> what it does
  stuck,                 \* a lookup panicked with the read lock held
  clash,                 \* two operations on one group have overlapped, one
                         \* of which was not an addition (history)
  raced                  \* a lookup has overlapped another operation (history)

db == <<dbGroup, dbMember, nextGroup, nextMember>>
index == <<byGroup, byMember, memberOrder, listed>>
history == <<clash, raced>>
vars == <<db, index, byStray, rrRound, job, stuck, history>>

Groups == 1..MaxGroups
Members == 1..MaxMembers
Strays == -MaxStrays .. -1
GroupRow == [prefix : Prefix]
MemberRow == [group : Groups, name : Names]
ASSUME NoneAssumption == None \notin GroupRow /\ None \notin MemberRow

Idle == [kind |-> "idle"]
Stages == {"db", "index"}
Jobs ==
  {Idle} \cup
  [kind : {"addGroup"}, stage : {"db"}, group : {0}, row : GroupRow] \cup
  [kind : {"addGroup"}, stage : {"index"}, group : Groups, row : GroupRow] \cup
  [kind : {"setGroup"}, stage : Stages, group : Groups, row : GroupRow] \cup
  [kind : {"delGroup"}, stage : Stages, group : Groups, names : SUBSET Names] \cup
  [kind : {"stray"}, stage : Stages, group : {0}, id : Strays, row : GroupRow \cup {None}] \cup
  [kind : {"addMember"}, stage : {"db"}, group : Groups, member : {0}, row : MemberRow] \cup
  [kind : {"addMember"}, stage : {"index"}, group : Groups, member : Members, row : MemberRow] \cup
  [kind : {"setMember"}, stage : Stages, group : Groups, member : Members, row : MemberRow] \cup
  [kind : {"delMember"}, stage : Stages, group : Groups, member : Members, names : SUBSET Names] \cup
  [kind : {"clean"}, stage : {"count"} \cup Names, group : {0}, left : SUBSET Names] \cup
  [kind : {"pick"}, stage : {"rotate"}, name : Names]

TypeOK ==
  /\ dbGroup \in [Groups -> GroupRow \cup {None}]
  /\ dbMember \in [Members -> MemberRow \cup {None}]
  /\ byGroup \in [Groups -> GroupRow \cup {None}]
  /\ byMember \in [Members -> MemberRow \cup {None}]
  /\ byStray \in [Strays -> GroupRow \cup {None}]
  /\ nextGroup \in 1 .. MaxGroups + 1 /\ nextMember \in 1 .. MaxMembers + 1
  /\ memberOrder \in [Groups -> Seq(Members)]
  /\ listed \subseteq Groups
  /\ rrRound \subseteq Names
  /\ job \in [Ops -> Jobs]
  /\ stuck \in BOOLEAN /\ clash \in BOOLEAN /\ raced \in BOOLEAN

Init ==
  /\ dbGroup = [g \in Groups |-> None] /\ dbMember = [m \in Members |-> None]
  /\ nextGroup = 1 /\ nextMember = 1
  /\ byGroup = dbGroup /\ byMember = dbMember /\ byStray = [i \in Strays |-> None]
  /\ memberOrder = [g \in Groups |-> <<>>] /\ listed = {}
  /\ rrRound = {}
  /\ job = [o \in Ops |-> Idle]
  /\ stuck = FALSE /\ clash = FALSE /\ raced = FALSE

membersOf(table, g) == {m \in Members : table[m] # None /\ table[m].group = g}
namesOf(g) == {byMember[memberOrder[g][i]].name : i \in DOMAIN memberOrder[g]}

\* The group an operation is about; 0 for an addition that has no id yet.
target(j) == IF j.kind \in {"idle", "pick"} THEN 0 ELSE j.group
clashes(j) ==
  \E o \in Ops : /\ job[o].kind # "idle" /\ target(job[o]) = target(j) /\ target(j) # 0
                 /\ ~(j.kind = "addMember" /\ job[o].kind = "addMember")

\* The check under the read lock has passed.
begin(o, j) ==
  /\ ~stuck /\ job[o] = Idle
  /\ job' = [job EXCEPT ![o] = j]
  /\ clash' = (clash \/ clashes(j))
  /\ raced' = (raced \/ \E q \in Ops : job[q].kind = "pick")
  /\ UNCHANGED <<db, index, byStray, rrRound, stuck>>

\* The statement has been executed; the memory part is next.
persisted(o, j) == job' = [job EXCEPT ![o] = [j EXCEPT !.stage = "index"]]

\* The statement failed, or a constraint refused it: an error is returned.
refused(o) ==
  /\ job[o] # Idle /\ job[o].stage = "db"
  /\ job' = [job EXCEPT ![o] = Idle]
  /\ UNCHANGED <<db, index, byStray, rrRound, stuck, history>>

atDB(o, kind) == job[o].kind = kind /\ job[o].stage = "db"
atIndex(o, kind) == ~stuck /\ job[o].kind = kind /\ job[o].stage = "index"

\* After a deletion the counters of the names that went are looked at.
finish(o) == job' = [job EXCEPT ![o] = Idle]
cleanUp(o, names) ==
  job' = [job EXCEPT ![o] = IF names = {} THEN Idle
            ELSE [kind |-> "clean", stage |-> "count", group |-> 0, left |-> names]]

-----------------------------------------------------------------------------
(* SaveGroup *)

prefixFree(p, g) ==
  /\ \A h \in Groups \ {g} : byGroup[h] # None => byGroup[h].prefix # p
  /\ \A i \in Strays \ {g} : byStray[i] # None => byStray[i].prefix # p

AddGroup(o, p) ==
  /\ prefixFree(p, 0)
  /\ begin(o, [kind |-> "addGroup", stage |-> "db", group |-> 0,
               row |-> [prefix |-> p]])

\* The id of the body counts, on PUT and on POST alike.
SetGroup(o, g, row) ==
  /\ byGroup[g] # None /\ prefixFree(row.prefix, g)
  /\ begin(o, [kind |-> "setGroup", stage |-> "db", group |-> g, row |-> row])

\* Only ids above zero are looked up: one below zero is let through.
SaveStray(o, i, row) ==
  /\ prefixFree(row.prefix, i)
  /\ begin(o, [kind |-> "stray", stage |-> "db", group |-> 0, id |-> i, row |-> row])

prefixUnique(p, g) == \A h \in Groups \ {g} : dbGroup[h] # None => dbGroup[h].prefix # p

\* A plausible slip: the prefix has no UNIQUE constraint behind the check.
InsertGroupUnchecked(o) ==
  /\ atDB(o, "addGroup") /\ nextGroup <= MaxGroups
  /\ dbGroup' = [dbGroup EXCEPT ![nextGroup] = job[o].row]
  /\ nextGroup' = nextGroup + 1
  /\ persisted(o, [job[o] EXCEPT !.group = nextGroup])
  /\ UNCHANGED <<dbMember, nextMember, index, byStray, rrRound, stuck, history>>

InsertGroup(o) ==
  /\ atDB(o, "addGroup") /\ nextGroup <= MaxGroups
  /\ prefixUnique(job[o].row.prefix, 0)
  /\ dbGroup' = [dbGroup EXCEPT ![nextGroup] = job[o].row]
  /\ nextGroup' = nextGroup + 1
  /\ persisted(o, [job[o] EXCEPT !.group = nextGroup])
  /\ UNCHANGED <<dbMember, nextMember, index, byStray, rrRound, stuck, history>>

\* An UPDATE of a row that is gone changes nothing and is no error.
UpdateGroup(o) ==
  LET g == job[o].group IN
  /\ atDB(o, "setGroup") /\ prefixUnique(job[o].row.prefix, g)
  /\ dbGroup' = [dbGroup EXCEPT ![g] = IF @ = None THEN None ELSE job[o].row]
  /\ persisted(o, job[o])
  /\ UNCHANGED <<dbMember, nextGroup, nextMember, index, byStray, rrRound, stuck, history>>

\* A statement about an id below zero meets no row, and no constraint.
StrayStatement(o) ==
  /\ atDB(o, "stray")
  /\ persisted(o, job[o])
  /\ UNCHANGED <<db, index, byStray, rrRound, stuck, history>>

\* The entry is written, or taken out, all the same.
IndexStray(o) ==
  /\ atIndex(o, "stray")
  /\ byStray' = [byStray EXCEPT ![job[o].id] = job[o].row]
  /\ finish(o)
  /\ UNCHANGED <<db, index, rrRound, stuck, history>>

IndexGroup(o) ==
  /\ atIndex(o, "addGroup") \/ atIndex(o, "setGroup")
  /\ byGroup' = [byGroup EXCEPT ![job[o].group] = job[o].row]
  /\ finish(o)
  /\ UNCHANGED <<db, byMember, memberOrder, listed, byStray, rrRound, stuck, history>>

-----------------------------------------------------------------------------
(* SaveMember; Discover adds members one by one the same way *)

AddMember(o, g, n) ==
  /\ byGroup[g] # None
  /\ \A m \in membersOf(byMember, g) : byMember[m].name # n
  /\ begin(o, [kind |-> "addMember", stage |-> "db", group |-> g, member |-> 0,
               row |-> [group |-> g, name |-> n]])

SetMember(o, m) ==
  /\ byMember[m] # None /\ byGroup[byMember[m].group] # None
  /\ begin(o, [kind |-> "setMember", stage |-> "db", group |-> byMember[m].group,
               member |-> m, row |-> byMember[m]])

\* The foreign key wants the group, the UNIQUE constraint a new name.
InsertMember(o) ==
  LET row == job[o].row IN
  /\ atDB(o, "addMember") /\ nextMember <= MaxMembers
  /\ dbGroup[row.group] # None
  /\ \A m \in membersOf(dbMember, row.group) : dbMember[m].name # row.name
  /\ dbMember' = [dbMember EXCEPT ![nextMember] = row]
  /\ nextMember' = nextMember + 1
  /\ persisted(o, [job[o] EXCEPT !.member = nextMember])
  /\ UNCHANGED <<dbGroup, nextGroup, index, byStray, rrRound, stuck, history>>

UpdateMember(o) ==
  LET m == job[o].member IN
  /\ atDB(o, "setMember")
  /\ dbMember' = [dbMember EXCEPT ![m] = IF @ = None THEN None ELSE job[o].row]
  /\ persisted(o, job[o])
  /\ UNCHANGED <<dbGroup, nextGroup, nextMember, index, byStray, rrRound, stuck, history>>

\* A plausible slip: the order gets the id again when a member is updated.
IndexMemberTwice(o) ==
  LET m == job[o].member  g == job[o].row.group IN
  /\ atIndex(o, "addMember") \/ atIndex(o, "setMember")
  /\ byMember' = [byMember EXCEPT ![m] = job[o].row]
  /\ memberOrder' = [memberOrder EXCEPT ![g] = Append(@, m)]
  /\ listed' = listed \cup {g}
  /\ finish(o)
  /\ UNCHANGED <<db, byGroup, byStray, rrRound, stuck, history>>

\* indexMember: a member already tracked keeps its place.
IndexMember(o) ==
  LET m == job[o].member  g == job[o].row.group IN
  /\ atIndex(o, "addMember") \/ atIndex(o, "setMember")
  /\ byMember' = [byMember EXCEPT ![m] = job[o].row]
  /\ IF byMember[m] = None
     THEN /\ memberOrder' = [memberOrder EXCEPT ![g] = Append(@, m)]
          /\ listed' = listed \cup {g}
     ELSE UNCHANGED <<memberOrder, listed>>
  /\ finish(o)
  /\ UNCHANGED <<db, byGroup, byStray, rrRound, stuck, history>>

-----------------------------------------------------------------------------
(* DeleteGroup and DeleteMember *)

DelGroup(o, g) ==
  /\ byGroup[g] # None
  /\ begin(o, [kind |-> "delGroup", stage |-> "db", group |-> g, names |-> namesOf(g)])

\* The entry of an id below zero: no members, since the foreign key keeps them out.
DelStray(o, i) ==
  /\ byStray[i] # None
  /\ begin(o, [kind |-> "stray", stage |-> "db", group |-> 0, id |-> i, row |-> None])

DelMember(o, m) ==
  /\ byMember[m] # None
  /\ begin(o, [kind |-> "delMember", stage |-> "db", group |-> byMember[m].group,
               member |-> m, names |-> {byMember[m].name}])

\* Members and group go in one transaction.
DropGroup(o) ==
  LET g == job[o].group IN
  /\ atDB(o, "delGroup")
  /\ dbGroup' = [dbGroup EXCEPT ![g] = None]
  /\ dbMember' = [m \in Members |-> IF m \in membersOf(dbMember, g) THEN None ELSE dbMember[m]]
  /\ persisted(o, job[o])
  /\ UNCHANGED <<nextGroup, nextMember, index, byStray, rrRound, stuck, history>>

DropMember(o) ==
  /\ atDB(o, "delMember")
  /\ dbMember' = [dbMember EXCEPT ![job[o].member] = None]
  /\ persisted(o, job[o])
  /\ UNCHANGED <<dbGroup, nextGroup, nextMember, index, byStray, rrRound, stuck, history>>

\* A plausible slip: the members of the group stay in the index.
UnindexGroupOnly(o) ==
  LET g == job[o].group IN
  /\ atIndex(o, "delGroup")
  /\ byGroup' = [byGroup EXCEPT ![g] = None]
  /\ memberOrder' = [memberOrder EXCEPT ![g] = <<>>]
  /\ listed' = listed \ {g}
  /\ cleanUp(o, job[o].names)
  /\ UNCHANGED <<db, byMember, byStray, rrRound, stuck, history>>

UnindexGroup(o) ==
  LET g == job[o].group IN
  /\ atIndex(o, "delGroup")
  /\ byGroup' = [byGroup EXCEPT ![g] = None]
  /\ byMember' = [m \in Members |-> IF m \in ToSet(memberOrder[g]) THEN None ELSE byMember[m]]
  /\ memberOrder' = [memberOrder EXCEPT ![g] = <<>>]
  /\ listed' = listed \ {g}
  /\ cleanUp(o, job[o].names)
  /\ UNCHANGED <<db, byStray, rrRound, stuck, history>>

\* A plausible slip: the counter of the name is not looked at.
UnindexMemberQuietly(o) ==
  LET m == job[o].member  g == job[o].group IN
  /\ atIndex(o, "delMember")
  /\ byMember' = [byMember EXCEPT ![m] = None]
  /\ memberOrder' = [memberOrder EXCEPT ![g] = RemoveFirst(@, m)]
  /\ finish(o)
  /\ UNCHANGED <<db, byGroup, listed, byStray, rrRound, stuck, history>>

\* The order loses the id and keeps its key.
UnindexMember(o) ==
  LET m == job[o].member  g == job[o].group IN
  /\ atIndex(o, "delMember")
  /\ byMember' = [byMember EXCEPT ![m] = None]
  /\ memberOrder' = [memberOrder EXCEPT ![g] = RemoveFirst(@, m)]
  /\ cleanUp(o, job[o].names)
  /\ UNCHANGED <<db, byGroup, listed, byStray, rrRound, stuck, history>>

\* cleanupRound: the members are counted under the read lock ...
CountName(o, n) ==
  /\ ~stuck /\ job[o].kind = "clean" /\ job[o].stage = "count" /\ n \in job[o].left
  /\ IF \E g \in listed : n \in namesOf(g)
     THEN cleanUp(o, job[o].left \ {n})
     ELSE job' = [job EXCEPT ![o].stage = n]
  /\ UNCHANGED <<db, index, byStray, rrRound, stuck, history>>

\* ... and the counter is dropped under the write lock.
DropRound(o) ==
  /\ ~stuck /\ job[o].kind = "clean" /\ job[o].stage \in Names
  /\ rrRound' = rrRound \ {job[o].stage}
  /\ cleanUp(o, job[o].left \ {job[o].stage})
  /\ UNCHANGED <<db, index, byStray, stuck, history>>

-----------------------------------------------------------------------------
(* Routing by short name: Pick *)

hits(n) == {g \in listed : n \in namesOf(g)}
lookupPanics == \E g \in listed : byGroup[g] = None

\* resolve dereferences the group of every key of memberOrder; the panic passes
\* the unlock of Pick, which is not deferred.
Resolve(o, n) ==
  /\ ~stuck /\ job[o] = Idle
  /\ IF lookupPanics THEN stuck' = TRUE /\ UNCHANGED job
     ELSE /\ Cardinality(hits(n)) > 1
          /\ job' = [job EXCEPT ![o] = [kind |-> "pick", stage |-> "rotate", name |-> n]]
          /\ UNCHANGED stuck
  /\ raced' = (raced \/ \E q \in Ops \ {o} : job[q] # Idle)
  /\ UNCHANGED <<db, index, byStray, rrRound, clash>>

\* rotate: nextRound makes the counter, outside the lock of the lookup.
NextRound(o) ==
  /\ ~stuck /\ job[o].kind = "pick"
  /\ rrRound' = rrRound \cup {job[o].name}
  /\ finish(o)
  /\ UNCHANGED <<db, index, byStray, stuck, history>>

-----------------------------------------------------------------------------
\* The rows come ORDER BY id: at place i is the one with i ids up to its own.
inIdOrder(S) ==
  [i \in 1..Cardinality(S) |-> CHOOSE m \in S : Cardinality({x \in S : x <= m}) = i]

\* The process stops at any point and starts again: LoadFromDB.
Restart ==
  /\ byGroup' = dbGroup /\ byMember' = dbMember
  /\ memberOrder' = [g \in Groups |-> inIdOrder(membersOf(dbMember, g))]
  /\ listed' = {g \in Groups : membersOf(dbMember, g) # {}}
  /\ byStray' = [i \in Strays |-> None]
  /\ rrRound' = {} /\ job' = [o \in Ops |-> Idle] /\ stuck' = FALSE
  /\ clash' = FALSE /\ raced' = FALSE
  /\ UNCHANGED db

Operation(o) ==
  \/ \E p \in Prefix : AddGroup(o, p)
  \/ \E g \in Groups : \/ DelGroup(o, g)
                       \/ \E row \in GroupRow : SetGroup(o, g, row)
                       \/ \E n \in Names : AddMember(o, g, n)
  \/ \E m \in Members : DelMember(o, m) \/ SetMember(o, m)
  \/ \E i \in Strays : DelStray(o, i) \/ \E row \in GroupRow : SaveStray(o, i, row)
  \/ StrayStatement(o) \/ IndexStray(o)
  \/ refused(o)
  \/ InsertGroup(o) \/ UpdateGroup(o) \/ IndexGroup(o)
  \/ InsertMember(o) \/ UpdateMember(o) \/ IndexMember(o)
  \/ DropGroup(o) \/ DropMember(o) \/ UnindexGroup(o) \/ UnindexMember(o)
  \/ DropRound(o) \/ NextRound(o)
  \/ \E n \in Names : CountName(o, n) \/ Resolve(o, n)

Next == Restart \/ \E o \in Ops : Operation(o)

Spec == Init /\ [][Next]_vars

-----------------------------------------------------------------------------
(* Properties that hold *)

quiet == \A o \in Ops : job[o] = Idle

\* When nothing is under way the indexes say what the database says, restarts
\* and failed statements included, at every id the database may have given out,
\* unless operations on one group have overlapped.  The index also has what was
\* saved under an id below zero, for which there is never a row: those entries
\* (byStray) disagree with it until a restart and are outside this property.
IndexMatchesDB ==
  quiet /\ ~clash =>
    /\ byGroup = dbGroup /\ byMember = dbMember
    /\ \A g \in Groups : ToSet(memberOrder[g]) = membersOf(dbMember, g)

\* Whatever overlaps, the two indexes of the members agree: every listed id is
\* a member of its group, once, and every member is listed, so a lookup that
\* has the group never meets a missing member.
OrderMatchesMembers ==
  /\ \A g \in Groups : IsInjective(memberOrder[g])
  /\ \A g \in Groups : ToSet(memberOrder[g]) = membersOf(byMember, g)
  /\ \A g \in Groups : memberOrder[g] # <<>> => g \in listed

\* Routing by full path is unambiguous among the groups the database has given an
\* id: two of them in the index that no operation is changing never have the same
\* prefix, however additions, updates and deletions of other groups overlap, saves
\* under ids below zero included.  An entry under such an id, which no UNIQUE
\* constraint guards, is outside.
NoAmbiguousPrefix ==
  LET settled == {g \in Groups : byGroup[g] # None /\ \A o \in Ops : target(job[o]) # g} IN
  ~clash => \A g, h \in settled : g # h => byGroup[g].prefix # byGroup[h].prefix

\* The round-robin counters do not grow without bound: when nothing is under
\* way, a counter belongs to a name some group has, unless operations on one
\* group, or a lookup and another operation, have overlapped.
RoundsAreCleaned ==
  quiet /\ ~clash /\ ~raced => \A n \in rrRound : \E g \in listed : n \in namesOf(g)

-----------------------------------------------------------------------------
(* What comments say and the code does not do *)

\* "DeleteGroup cascades to the index": no lookup meets a member list whose
\* group is gone, which would leave the lock held for good.
LookupsNeverStick == ~stuck
=============================================================================
