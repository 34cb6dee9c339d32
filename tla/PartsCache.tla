----------------------------- MODULE PartsCache -----------------------------
(***************************************************************************)
(* The cache of compiled package parts of one model group: what a request   *)
(* finds or builds (cachedParts, instantiateParts), the reference count     *)
(* that keeps parts open while requests use them (resolvedParts), and the   *)
(* operations that make an entry stale: installing the package, saving its  *)
(* settings, saving or deleting the group.  Sources:                        *)
(* internal/upstream/registry.go, internal/plugin/registry.go, settings.go, *)
(* internal/admin/handlers.go.                                              *)
(*                                                                          *)
(* Entries of different groups do not touch each other, so there is one     *)
(* group.  A request builds at most one entry, which bears its name.  The   *)
(* revision of the package stands for its code, the version of the settings *)
(* for their values, the fingerprint of a group for its parameters.         *)
(***************************************************************************)
EXTENDS Naturals, FiniteSets

CONSTANTS Reqs, None,
          MaxChanges   \* bound on the changes other than the deletion

ASSUME ReqAssumption == IsFiniteSet(Reqs) /\ None \notin Reqs

VARIABLES
  rev,      \* revision of the installed package
  ver,      \* version of its settings
  saving,   \* savePackageSettings between Put and EvictPackageSettings
  gfp,      \* fingerprint of the group
  deleted,  \* the group has been deleted
  cache,    \* instCache: the entry of the group
  part,     \* entry -> its state
  pc,       \* request -> step
  using,    \* request -> the entry it looks at or holds
  mine,     \* request -> fingerprint of its copy of the group
  born,     \* request -> revision and version when it began
  late      \* requests that acquired an entry already closed

vars == <<rev, ver, saving, gfp, deleted, cache, part, pc, using, mine, born, late>>
world == <<rev, ver, saving, gfp, deleted>>
request == <<mine, born>>

PartState ==
  [built : BOOLEAN, code : Nat, vals : Nat,        \* what it was built from
   baseRev : Nat, settingsVer : Nat, fingerprint : Nat,  \* what it claims
   refs : Nat, dead : BOOLEAN, closed : BOOLEAN,
   evict : {"no", "mark", "drop", "done"}]         \* its evict goroutine

Steps == {"new", "look", "check", "inc", "match", "unhold", "read", "stamp", "store",
          "checkFresh", "incFresh", "use", "failed", "done"}

TypeOK ==
  /\ rev \in Nat /\ ver \in Nat /\ gfp \in Nat
  /\ saving \in BOOLEAN /\ deleted \in BOOLEAN
  /\ cache \in Reqs \cup {None}
  /\ part \in [Reqs -> PartState]
  /\ pc \in [Reqs -> Steps] /\ using \in [Reqs -> Reqs \cup {None}]
  /\ mine \in [Reqs -> Nat] /\ born \in [Reqs -> Nat \X Nat]
  /\ late \in SUBSET Reqs

Unbuilt == [built |-> FALSE, code |-> 0, vals |-> 0, baseRev |-> 0, settingsVer |-> 0,
            fingerprint |-> 0, refs |-> 0, dead |-> FALSE, closed |-> FALSE, evict |-> "no"]

Init ==
  /\ rev = 1 /\ ver = 0 /\ gfp = 0
  /\ saving = FALSE /\ deleted = FALSE
  /\ cache = None
  /\ part = [p \in Reqs |-> Unbuilt]
  /\ pc = [q \in Reqs |-> "new"]
  /\ using = [q \in Reqs |-> None]
  /\ mine = [q \in Reqs |-> 0] /\ born = [q \in Reqs |-> <<0, 0>>]
  /\ late = {}

goto(q, step) == pc' = [pc EXCEPT ![q] = step]

\* The request is over: what it knew is gone.
leave(q, step) ==
  /\ goto(q, step)
  /\ using' = [using EXCEPT ![q] = None]
  /\ mine' = [mine EXCEPT ![q] = 0] /\ born' = [born EXCEPT ![q] = <<0, 0>>]
  /\ late' = late \ {q}

\* Starts evict of the entry that leaves the cache, if there is one.
evictOld(P, old) == IF old = None THEN P ELSE [P EXCEPT ![old].evict = "mark"]

\* resolvedParts.release.  The count reaches zero only after evict has marked
\* the entry dead, so the decrement and the look at dead are one step.
released(x) == [x EXCEPT !.refs = @ - 1, !.closed = @ \/ (x.refs = 1 /\ x.dead)]

-----------------------------------------------------------------------------
(* A request: cachedParts *)

\* The router has picked the group; the request keeps its copy of it.
Begin(q) ==
  /\ pc[q] = "new" /\ ~deleted
  /\ mine' = [mine EXCEPT ![q] = gfp]
  /\ born' = [born EXCEPT ![q] = <<rev, ver>>]
  /\ goto(q, "look")
  /\ UNCHANGED <<world, cache, part, using, late>>

\* The read lock covers the lookup only.
Look(q) ==
  /\ pc[q] = "look"
  /\ using' = [using EXCEPT ![q] = cache]
  /\ goto(q, IF cache = None THEN "read" ELSE "check")
  /\ UNCHANGED <<world, cache, part, request, late>>

\* acquire looks at dead first ...
CheckDead(q) ==
  /\ pc[q] = "check"
  /\ goto(q, IF part[using[q]].dead THEN "read" ELSE "inc")
  /\ UNCHANGED <<world, cache, part, using, request, late>>

CheckFresh(q) ==
  /\ pc[q] = "checkFresh"
  /\ IF part[q].dead THEN leave(q, "failed")
     ELSE goto(q, "incFresh") /\ UNCHANGED <<using, request, late>>
  /\ UNCHANGED <<world, cache, part>>

\* ... and increments later.  The compare-and-swap compares the count with one
\* loaded after dead, so it may succeed on an entry closed in between.
Inc(q) ==
  /\ pc[q] \in {"inc", "incFresh"}
  /\ part' = [part EXCEPT ![using[q]].refs = @ + 1]
  /\ late' = IF part[using[q]].closed THEN late \cup {q} ELSE late
  /\ goto(q, IF pc[q] = "inc" THEN "match" ELSE "use")
  /\ UNCHANGED <<world, cache, using, request>>

\* A plausible slip: the settings are not part of the key.
MatchRevOnly(q) ==
  LET x == part[using[q]] IN
  /\ pc[q] = "match"
  /\ goto(q, IF x.baseRev = rev /\ x.fingerprint = mine[q] THEN "use" ELSE "unhold")
  /\ UNCHANGED <<world, cache, part, using, request, late>>

\* matches: revision and settings of now, fingerprint of the request's group.
Match(q) ==
  LET x == part[using[q]] IN
  /\ pc[q] = "match"
  /\ goto(q, IF x.baseRev = rev /\ x.settingsVer = ver /\ x.fingerprint = mine[q]
             THEN "use" ELSE "unhold")
  /\ UNCHANGED <<world, cache, part, using, request, late>>

\* A plausible slip: an entry that does not match is left without a release.
UnholdForgets(q) ==
  /\ pc[q] = "unhold"
  /\ goto(q, "read")
  /\ UNCHANGED <<world, cache, part, using, request, late>>

\* An entry that does not match is released and another one built.
Unhold(q) ==
  /\ pc[q] = "unhold"
  /\ part' = [part EXCEPT ![using[q]] = released(@)]
  /\ goto(q, "read")
  /\ UNCHANGED <<world, cache, using, request, late>>

\* instantiateParts reads the package and the values of its settings ...
Read(q) ==
  /\ pc[q] = "read"
  /\ part' = [part EXCEPT ![q].code = rev, ![q].vals = ver]
  /\ using' = [using EXCEPT ![q] = q]
  /\ goto(q, "stamp")
  /\ UNCHANGED <<world, cache, request, late>>

\* ... and after that the version and the revision it stamps on the entry, whose
\* first reference is the cache's.
Stamp(q) ==
  /\ pc[q] = "stamp"
  /\ part' = [part EXCEPT ![q] =
       [@ EXCEPT !.built = TRUE, !.refs = 1, !.settingsVer = ver, !.baseRev = rev,
                 !.fingerprint = mine[q]]]
  /\ goto(q, "store")
  /\ UNCHANGED <<world, cache, using, request, late>>

\* The parameters do not resolve, or a part does not compile.
BuildFails(q) ==
  /\ pc[q] = "stamp"
  /\ leave(q, "failed")
  /\ UNCHANGED <<world, cache, part>>

\* The write lock covers the exchange of the entries, wherever the group is now.
Store(q) ==
  /\ pc[q] = "store"
  /\ cache' = q
  /\ part' = evictOld(part, cache)
  /\ goto(q, "checkFresh")
  /\ UNCHANGED <<world, using, request, late>>

\* The response is written: release.
Finish(q) ==
  /\ pc[q] = "use"
  /\ part' = [part EXCEPT ![using[q]] = released(@)]
  /\ leave(q, "done")
  /\ UNCHANGED <<world, cache>>

-----------------------------------------------------------------------------
(* evict, in a goroutine of its own *)

EvictMark(p) ==
  /\ part[p].evict = "mark"
  /\ part' = [part EXCEPT ![p] = [@ EXCEPT !.dead = TRUE, !.evict = "drop"]]
  /\ UNCHANGED <<world, cache, pc, using, request, late>>

\* A plausible slip: evict closes the pools without waiting for the requests.
EvictCloses(p) ==
  /\ part[p].evict = "drop"
  /\ part' = [part EXCEPT ![p] = [released(@) EXCEPT !.evict = "done", !.closed = TRUE]]
  /\ UNCHANGED <<world, cache, pc, using, request, late>>

EvictDrop(p) ==
  /\ part[p].evict = "drop"
  /\ part' = [part EXCEPT ![p] = [released(@) EXCEPT !.evict = "done"]]
  /\ UNCHANGED <<world, cache, pc, using, request, late>>

-----------------------------------------------------------------------------
(* Changes *)

dropCache == cache' = None /\ part' = evictOld(part, cache)

\* rev, ver and gfp only grow, from 1, 0 and 0.
mayChange == rev + ver + gfp <= MaxChanges

Install ==
  /\ mayChange /\ rev' = rev + 1
  /\ UNCHANGED <<ver, saving, gfp, deleted, cache, part, pc, using, request, late>>

\* savePackageSettings: Put, then EvictPackageSettings.
PutSettings ==
  /\ ~saving /\ mayChange
  /\ ver' = ver + 1 /\ saving' = TRUE
  /\ UNCHANGED <<rev, gfp, deleted, cache, part, pc, using, request, late>>

EvictPackageSettings ==
  /\ saving /\ saving' = FALSE
  /\ IF deleted THEN UNCHANGED <<cache, part>> ELSE dropCache
  /\ UNCHANGED <<rev, ver, gfp, deleted, pc, using, request, late>>

\* SaveGroup, its memory part: the entry goes with the old parameters.
SaveGroup ==
  /\ ~deleted /\ mayChange
  /\ gfp' = gfp + 1 /\ dropCache
  /\ UNCHANGED <<rev, ver, saving, deleted, pc, using, request, late>>

DeleteGroup ==
  /\ ~deleted /\ deleted' = TRUE /\ dropCache
  /\ UNCHANGED <<rev, ver, saving, gfp, pc, using, request, late>>

-----------------------------------------------------------------------------
RequestStep(q) ==
  \/ Look(q) \/ CheckDead(q) \/ CheckFresh(q) \/ Inc(q) \/ Match(q) \/ Unhold(q)
  \/ Read(q) \/ Stamp(q) \/ BuildFails(q) \/ Store(q) \/ Finish(q)

EvictStep(p) == EvictMark(p) \/ EvictDrop(p)

Change == Install \/ PutSettings \/ EvictPackageSettings \/ SaveGroup \/ DeleteGroup

Next ==
  \/ \E q \in Reqs : Begin(q) \/ RequestStep(q) \/ EvictStep(q)
  \/ Change

Spec == Init /\ [][Next]_vars

-----------------------------------------------------------------------------
(* Properties that hold *)

holds(q, p) == pc[q] \in {"match", "unhold", "use"} /\ using[q] = p
Holders(p) == {q \in Reqs : holds(q, p)}

\* The count of an entry is the requests that hold it, and one for the cache
\* until evict has given that share back; and the cached entry is alive, and an
\* entry that has left the cache is evicted once.
RefsExact ==
  \A p \in Reqs : part[p].built =>
    /\ part[p].refs = Cardinality(Holders(p)) + IF part[p].evict = "done" THEN 0 ELSE 1
    /\ pc[p] # "store" =>
         /\ (cache = p) <=> (part[p].evict = "no")
         /\ part[p].dead <=> part[p].evict \in {"drop", "done"}

\* The pools of an entry stay open for every request that acquired it before
\* they were closed, whatever is installed, saved or deleted meanwhile; and
\* nothing leaks: once evict has run and the last request that held the entry has
\* released it, they are closed.  Left out are the requests in `late', which found
\* the entry alive and counted themselves once its pools were closed: acquire does
\* not refuse them (registry.go:119), which UsedPartsAreOpen below is about.
HeldPartsStayOpen ==
  \A p \in Reqs :
    /\ \A q \in Holders(p) : q \notin late => ~part[p].closed
    /\ part[p].evict = "done" /\ Holders(p) = {} => part[p].closed

torn(p) == part[p].code # part[p].baseRev \/ part[p].vals # part[p].settingsVer

\* A request is served with code, settings and parameters no older than when it
\* began, for whatever overlapping builds and lookups, if the entry was built from
\* one state.  Left out are entries that are `torn': what they were built from and
\* the revision and version they were stamped with differ, as the version is read
\* after the values (registry.go:838), which SavedSettingsAreServed below is about.
ServedCurrent ==
  \A q \in Reqs : pc[q] = "use" /\ ~torn(using[q]) =>
    /\ part[using[q]].code >= born[q][1] /\ part[using[q]].vals >= born[q][2]
    /\ part[using[q]].fingerprint = mine[q]

-----------------------------------------------------------------------------
(* What comments say and the code does not do *)

\* "acquire refuses the dead", so a request never holds closed parts.
UsedPartsAreOpen == \A q \in Reqs : pc[q] = "use" => ~part[using[q]].closed

\* "A changed value invalidates the cache": a request that begins after the
\* settings were saved is not served with older values.
SavedSettingsAreServed ==
  \A q \in Reqs : pc[q] = "use" => part[using[q]].vals >= born[q][2]
=============================================================================
