----------------------------- MODULE ModelsPage -----------------------------
(***************************************************************************)
(* The page of the model groups: groups, their members, discovery, and the   *)
(* tests of a group.  ModelsPage.vue; the subject is membersGroup, the group *)
(* whose members were opened last.                                           *)
(***************************************************************************)
EXTENDS AdminClient

CONSTANT Checks    \* the tests with a dialog of their own: "chat", "check"

Groups == <<"groups", "">>
Members(g) == <<"members", g>>

ASSUME ChecksAssumption == Checks \subseteq {"chat", "check"}

\* The page is about the groups and the members of each.
ASSUME GroupsAssumption ==
  "models" \in Pages => PageLists["models"] = {Groups} \cup {Members(g) : g \in Items[Groups]}

modelsRest == <<server, clock, subject, frozen, sessionVars, faults>>
queriesIdle == UNCHANGED <<modelsRest, cache>>

Listed(l) == {x \in Items[l] : cache[l].data # None /\ cache[l].data[1].rows[x] # 0}

OpenDialog(kind, g) ==
  /\ page = "models" /\ dialog = NoDialog
  /\ dialog' = [kind |-> kind, item |-> g, seen |-> <<>>, result |-> ""]
  /\ UNCHANGED handlers

\* openCreate: the drawer of a group without id.
openCreate == OpenDialog("group", "") /\ queriesIdle

\* openEdit, openChatTest, openKeysCheck, openDiscover and the question before a removal.
openGroup(kind, g) == g \in Listed(Groups) /\ OpenDialog(kind, g) /\ queriesIdle

\* openMembers: the members' key follows, and they are fetched in any case.
openMembers(g) ==
  /\ g \in Listed(Groups) /\ OpenDialog("members", g)
  /\ subject' = g
  /\ cache' = [cache EXCEPT ![Members(g)] = Refetch(@, Members(g))]
  /\ UNCHANGED <<server, clock, frozen, sessionVars, faults>>

AskGroup(op, g) == Send(Call(op, "ask", Groups, g, 0, <<>>))

\* saveEdit: a group is made, its id given by the server, or overwritten.
saveGroup ==
  /\ dialog.kind = "group"
  /\ IF dialog.item = ""
     THEN \E g \in Items[Groups] : server[Groups][g] = 0 /\ ~Given(Groups, g) /\ Send(Call("group", "create", Groups, g, 0, <<>>))
     ELSE Send(Call("group", "set", Groups, dialog.item, 0, <<>>))
  /\ queriesIdle /\ UNCHANGED dialog

runTest(g) ==
  /\ page = "models" /\ dialog = NoDialog /\ g \in Listed(Groups)
  /\ AskGroup("test", g)
  /\ queriesIdle /\ UNCHANGED dialog

\* runChatTest and runKeysCheck, one at a time whichever group they are about.
runCheck(op) ==
  /\ dialog.kind = op /\ op \in Checks /\ ~Busy(op)
  /\ Send(Call(op, "ask", Groups, dialog.item, 0, <<>>))
  /\ queriesIdle /\ UNCHANGED dialog

confirmDelete ==
  /\ dialog.kind = "removeGroup"
  /\ Send(Call("removeGroup", "remove", Groups, dialog.item, 0, <<>>))
  /\ queriesIdle /\ UNCHANGED dialog

addMember(m) ==
  /\ dialog.kind = "members" /\ m \notin Listed(Members(subject))
  /\ Send(Call("addMember", "create", Members(subject), m, 0, <<>>))
  /\ queriesIdle /\ UNCHANGED dialog

toggleMember(m) ==
  /\ dialog.kind = "members" /\ m \in Listed(Members(subject)) /\ ~Busy("toggle")
  /\ Send(Call("toggle", "set", cache[Members(subject)].data[1].of, m, 0, <<>>))
  /\ queriesIdle /\ UNCHANGED dialog

\* The question before a member's removal lies over the dialog of the members.
askRemoveMember(m) ==
  /\ dialog.kind = "members" /\ m \in Listed(Members(subject))
  /\ dialog' = [dialog EXCEPT !.kind = "removeMember", !.result = m, !.seen = cache[Members(subject)].data[1].of]
  /\ queriesIdle /\ UNCHANGED handlers

confirmDeleteMember ==
  /\ dialog.kind = "removeMember"
  /\ Send(Call("removeMember", "remove", dialog.seen, dialog.result, 0, <<>>))
  /\ queriesIdle /\ UNCHANGED dialog

\* runDiscover: a preview is kept until the admin asks for another, which drops it first.
runDiscover(apply) ==
  /\ dialog.kind = "discover"
  /\ dialog' = IF apply THEN dialog ELSE [dialog EXCEPT !.result = ""]
  /\ IF Busy("discover") \/ Busy("preview") THEN ~apply /\ dialog.result # "" /\ UNCHANGED handlers
     ELSE Send(IF apply THEN Call("discover", "import", Members(dialog.item), "", 0, <<>>)
               ELSE Call("preview", "ask", Groups, dialog.item, 0, <<>>))
  /\ queriesIdle

-----------------------------------------------------------------------------
(* The answers *)

\* A result is shown in the dialog of its kind, whichever group that is open for by now.
CheckReturns(i) ==
  /\ \E op \in Checks \cup {"preview", "test"} : Answered(i, op)
  /\ dialog' = IF dialog.kind = calls[i].op \/ (dialog.kind = "discover" /\ calls[i].op = "preview")
               THEN [dialog EXCEPT !.result = calls[i].item] ELSE dialog
  /\ Over(i) /\ queriesIdle

\* saveEdit and confirmDelete close their dialog and fetch the groups again.
GroupReturns(i) ==
  /\ Answered(i, "group") \/ Answered(i, "removeGroup")
  /\ dialog' = IF dialog.kind = calls[i].op THEN NoDialog ELSE dialog
  /\ Await(i, Groups) /\ UNCHANGED modelsRest

\* An import fetches the groups, then the members if they are the ones opened last, then closes.
DiscoverReturns(i) ==
  /\ Answered(i, "discover")
  /\ dialog' = IF dialog.kind = "discover" THEN [dialog EXCEPT !.result = calls[i].list[2]] ELSE dialog
  /\ Await(i, Groups) /\ UNCHANGED modelsRest

DiscoverGoesOn(i) ==
  /\ i \in DOMAIN calls /\ calls[i].op = "discover" /\ calls[i].at = "settled"
  /\ LET own == Members(IF dialog.kind = "discover" THEN dialog.item ELSE calls[i].list[2])
     IN IF calls[i].waits = Groups /\ Members(subject) = own
        THEN Await(i, own) /\ UNCHANGED <<modelsRest, dialog>>
        ELSE /\ dialog' = IF dialog.kind = "discover" THEN NoDialog ELSE dialog
             /\ Over(i) /\ queriesIdle

MemberReturns(i) ==
  /\ \E op \in {"addMember", "toggle", "removeMember"} : Answered(i, op)
  /\ dialog' = IF dialog.kind = "removeMember" /\ calls[i].op = "removeMember"
               THEN [dialog EXCEPT !.kind = "members", !.result = "", !.seen = <<>>] ELSE dialog
  /\ Await(i, Members(subject)) /\ UNCHANGED modelsRest

\* After a member's removal the groups are fetched again too.
RemovalGoesOn(i) ==
  /\ i \in DOMAIN calls /\ calls[i].op = "removeMember" /\ calls[i].at = "settled"
  /\ IF calls[i].waits # Groups THEN Await(i, Groups) ELSE Over(i) /\ UNCHANGED cache
  /\ UNCHANGED <<modelsRest, dialog>>

ModelsStep ==
  \/ openCreate \/ saveGroup \/ confirmDelete \/ confirmDeleteMember
  \/ \E g \in Items[Groups] :
       \/ openMembers(g) \/ (page = "models" /\ runTest(g))
       \/ \E kind \in Checks \cup {"group", "discover", "removeGroup"} : openGroup(kind, g)
  \/ \E op \in Checks : runCheck(op)
  \/ dialog.kind = "members" /\ \E m \in Items[Members(subject)] : addMember(m) \/ toggleMember(m) \/ askRemoveMember(m)
  \/ \E apply \in BOOLEAN : runDiscover(apply)
  \/ \E i \in DOMAIN calls :
       CheckReturns(i) \/ GroupReturns(i) \/ DiscoverReturns(i) \/ DiscoverGoesOn(i) \/ MemberReturns(i) \/ RemovalGoesOn(i)

=============================================================================
