---------------------------- MODULE SettingsPage ----------------------------
(***************************************************************************)
(* A package's page of the console: its settings and tasks, edited in a      *)
(* local copy, and the panel of its keys.  PackageSettingsPage.vue and       *)
(* KeysPanel.vue; page "settings" is the first two tabs, page "keys" the     *)
(* third.  The component and the panel stay mounted when another package is  *)
(* selected.                                                                 *)
(***************************************************************************)
EXTENDS AdminClient

CONSTANT Packages

Settings(p) == <<"settings", p>>
KeysOf(p) == <<"keys", p>>

\* The first package is selected when the page opens; keys of any two may have the same names.
ASSUME PackagesAssumption ==
  /\ "a" \in Packages
  /\ "settings" \in Pages => PageLists["settings"] = {Settings(p) : p \in Packages}
  /\ "keys" \in Pages => PageLists["keys"] = {KeysOf(p) : p \in Packages}
  /\ \A p \in Packages : "doc" \in Items[Settings(p)]
  /\ \A p, q \in Packages : Items[KeysOf(p)] = Items[KeysOf(q)]

VARIABLE draft    \* the local copy: whose settings, which revision, the version it claims,
                  \* and whether it is the one the save under way has sent

draftless == <<server, clock, subject, frozen, dialog, sessionVars, faults>>

NoDraft == [loaded |-> FALSE, made |-> [list |-> <<>>, rev |-> 0], version |-> 0, content |-> "loaded",
            submitted |-> FALSE]

\* The copy made of an answer of the server.
Loaded(d) ==
  LET rev == d[1].rows["doc"] IN
  [loaded |-> TRUE, made |-> [list |-> d[1].of, rev |-> rev], version |-> rev, content |-> "loaded",
   submitted |-> FALSE]

\* A plausible slip: the copy is made once.
WatchOnce(old, d) == IF old.loaded \/ d = None THEN old ELSE Loaded(d)

\* The watcher's callback; structural sharing keeps it from running on equal data.
Watch(old, d) == IF d = None THEN old ELSE Loaded(d)

Shown == cache[Settings(subject)].data
Watched(d) == IF cache'[Settings(subject')].data = Shown THEN d ELSE Watch(d, cache'[Settings(subject')].data)

FormVisible == LET q == cache[Settings(subject)] IN
  page = "settings" /\ ~q.error /\ ~(q.data = None /\ q.fetch # "idle")

\* Another package is selected.  The settings' key follows, the keys' does not.
selectPackage(p) ==
  /\ page \in {"settings", "keys"} /\ p # subject /\ dialog = NoDialog
  /\ subject' = p
  /\ cache' = IF page = "keys" THEN cache ELSE [cache EXCEPT ![Settings(p)] = Join(@, Settings(p))]
  /\ draft' = IF page = "keys" THEN draft ELSE Watched(draft)
  /\ UNCHANGED <<server, clock, frozen, dialog, handlers, sessionVars, faults>>

\* The admin types: a setting of the form, or a task, which is shown whatever loads.
edit(content) ==
  /\ page = "settings" /\ draft.loaded
  /\ content = "invalid" => FormVisible
  /\ draft' = [draft EXCEPT !.content = content]
  /\ UNCHANGED <<draftless, cache, handlers>>

\* coerceSlots: text in a numeric slot that is no number stops the save.
coerceSlots(d) == IF d.content = "invalid" THEN None ELSE <<d.content>>

\* What the admin looks at when he sends something: the copy, and if the form shows it.
Seeing(made, shown) == [list |-> made.list, rev |-> made.rev, shown |-> shown]

\* Values equal to the defaults are left out, and with nothing left the row goes.  A copy
\* that was not edited may be what is stored.
SaveKinds(d) ==
  {"cas", "clear"} \cup
  IF d.content = "loaded" /\ d.made.list = Settings(subject) /\ d.made.rev > 0 THEN {"touch"} ELSE {}

Saving(d) ==
  /\ ~Busy("save") /\ coerceSlots(d) # None
  /\ draft' = [d EXCEPT !.submitted = TRUE]
  /\ \E kind \in SaveKinds(d) :
       Send(Call("save", kind, Settings(subject), "doc", d.version, Seeing(d.made, FormVisible)))

save ==
  /\ page = "settings" /\ (FormVisible \/ draft.loaded)
  /\ Saving(draft)
  /\ UNCHANGED <<draftless, cache>>

\* resetDefaults fills in the defaults, then saves, unless a save is under way.
resetDefaults ==
  LET d == [draft EXCEPT !.content = "changed"] IN
  /\ FormVisible
  /\ IF Busy("save") THEN draft' = d /\ UNCHANGED handlers ELSE Saving(d)
  /\ UNCHANGED <<draftless, cache>>

\* A plausible slip: after a conflict the server's version is taken over, the edits stay.
SaveConflictAdopting(i) ==
  /\ i \in DOMAIN calls /\ calls[i].op = "save" /\ calls[i].at = "refused"
  /\ draft' = [draft EXCEPT !.version = server[calls[i].list]["doc"]]
  /\ Over(i)
  /\ UNCHANGED <<draftless, cache>>

\* 'version mismatch': the settings are fetched again.
SaveConflict(i) ==
  /\ i \in DOMAIN calls /\ calls[i].op = "save" /\ calls[i].at = "refused"
  /\ Await(i, Settings(subject))
  /\ UNCHANGED <<draftless, draft>>

\* The copy now claims the version of the save, be it still the copy that was saved or not.
SaveReturns(i) ==
  /\ Answered(i, "save")
  /\ draft' = [draft EXCEPT !.version = calls[i].rev,
                 !.made = IF draft.submitted THEN [list |-> calls[i].list, rev |-> calls[i].rev] ELSE @]
  /\ Await(i, Settings(subject))
  /\ UNCHANGED draftless

runTask ==
  /\ page = "settings" /\ draft.loaded /\ ~Busy("task")
  /\ Send(Call("task", "ask", Settings(subject), "doc", 0, Seeing(draft.made, FormVisible)))
  /\ UNCHANGED <<draftless, cache, draft>>

TaskReturns(i) ==
  /\ Answered(i, "task") /\ Over(i)
  /\ UNCHANGED <<draftless, cache, draft>>

-----------------------------------------------------------------------------
(* KeysPanel.vue *)

draftRest == <<server, clock, cache, subject, frozen, draft, sessionVars, faults>>

\* One name more than the items there are; no key gets it.
KeyNames == <<"k1", "k2", "k3">>
PanelRows == cache[KeysOf(frozen)].data
Rows == {k \in Items[KeysOf(frozen)] : PanelRows # None /\ PanelRows[1].rows[k] # 0}
Seen(k) == Seeing([list |-> PanelRows[1].of, rev |-> PanelRows[1].rows[k]], TRUE)

Open(kind, item, seen) ==
  /\ dialog = NoDialog
  /\ dialog' = [kind |-> kind, item |-> item, seen |-> seen, result |-> ""]
  /\ UNCHANGED <<server, clock, cache, subject, frozen, handlers, sessionVars, faults>>

openEditKey(k) == page = "keys" /\ k \in Rows /\ Open("editKey", k, Seen(k)) /\ UNCHANGED draft
askRemoveKey(k) == page = "keys" /\ k \in Rows /\ Open("removeKey", k, Seen(k)) /\ UNCHANGED draft

\* nextKeyName: the number after the count of keys, or the first free one from there.
nextKeyName ==
  LET free == {i \in DOMAIN KeyNames : i > Cardinality(Rows) /\ KeyNames[i] \notin Rows}
  IN KeyNames[CHOOSE i \in free : \A j \in free : i <= j]

openAdd ==
  /\ page = "keys"
  /\ Open("addKey", nextKeyName, Seeing([list |-> KeysOf(subject), rev |-> 0], TRUE))
  /\ UNCHANGED draft

\* The name of a new key may be typed over.
renameKey(k) ==
  /\ dialog.kind = "addKey" /\ k # dialog.item
  /\ dialog' = [dialog EXCEPT !.item = k]
  /\ UNCHANGED <<draftRest, handlers>>

\* saveEdit sends the moment the row was written; submitAdd sends 0; confirmRemove sends none.
saveEditKey ==
  /\ dialog.kind = "editKey"
  /\ Send(Call("editKey", "cas", KeysOf(subject), dialog.item, dialog.seen.rev, dialog.seen))
  /\ UNCHANGED <<draftRest, dialog>>

submitAdd ==
  /\ dialog.kind = "addKey" /\ dialog.item \in Items[KeysOf(subject)]
  /\ Send(Call("addKey", "cas", KeysOf(subject), dialog.item, 0, dialog.seen))
  /\ UNCHANGED <<draftRest, dialog>>

confirmRemoveKey ==
  /\ dialog.kind = "removeKey"
  /\ Send(Call("removeKey", "drop", KeysOf(subject), dialog.item, 0, dialog.seen))
  /\ UNCHANGED <<draftRest, dialog>>

\* The dialog of that kind closes, whichever key it is about by now.
KeyReturns(i) ==
  /\ \E op \in {"editKey", "addKey", "removeKey"} : Answered(i, op)
  /\ dialog' = IF dialog.kind = calls[i].op THEN NoDialog ELSE dialog
  /\ Await(i, KeysOf(frozen))
  /\ UNCHANGED <<server, clock, subject, frozen, draft, sessionVars, faults>>

\* Another package is selected on either page.
SettingsStep ==
  \/ \E p \in Packages : selectPackage(p)
  \/ \E c \in {"changed", "invalid"} : edit(c)
  \/ save \/ resetDefaults \/ runTask
  \/ \E i \in DOMAIN calls : SaveConflict(i) \/ SaveReturns(i) \/ TaskReturns(i)

KeysStep ==
  \/ \E p \in Packages : selectPackage(p)
  \/ \E k \in Items[KeysOf(frozen)] : openEditKey(k) \/ askRemoveKey(k) \/ renameKey(k)
  \/ openAdd \/ saveEditKey \/ submitAdd \/ confirmRemoveKey
  \/ \E i \in DOMAIN calls : KeyReturns(i)

=============================================================================
