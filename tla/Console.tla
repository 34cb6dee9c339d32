------------------------------- MODULE Console -------------------------------
(***************************************************************************)
(* The admin console: one browser with the session, the page that is mounted *)
(* and the query cache, the admin API, and others who write there too.       *)
(* The user waits for nothing: he clicks, types, and changes what is         *)
(* selected while requests are under way.                                    *)
(***************************************************************************)
EXTENDS SettingsPage, ModelsPage, PackagesPage, ListPages

vars == <<sessionVars, faults, clientVars, draft, importUrl, pending, table>>

Init ==
  /\ SessionInit /\ ClientInit
  /\ draft = NoDraft /\ importUrl = "" /\ pending = NoPending /\ table = NoTable

pageVars == <<draft, importUrl, pending, table>>

\* The settings' watcher runs after any step that changes what it watches.
Watching == draft' = IF page = "settings" THEN Watched(draft) ELSE draft

\* Entering a page mounts it: a component of its own, over the cache that was kept.
EnterPage ==
  /\ Enter
  /\ frozen' = subject /\ UNCHANGED subject
  /\ LET ls == CASE Route \in {"settings", "keys"} -> {<<Route, subject>>}
                 [] Route = "models" -> {Groups}
                 [] Route = "monitor" -> {<<"live", "">>, <<"series", "">>, <<"transports", "">>}
                 [] OTHER -> {l \in Lists : l = <<Route, "">>}
     IN IF Route = "history"
        THEN /\ page' = Route /\ sent' = sent + 1
             /\ calls' = With(Orphans, Query(1, "all"))
             /\ UNCHANGED <<server, clock, cache, dialog>>
        ELSE Mount(Route, ls)
  /\ UNCHANGED <<home, cookie, principal, probe, hash, signing, faults, pageVars>>

\* The login page takes the place of the page, whose state is gone.
LeavePage ==
  /\ ShowLogin
  /\ calls' = Orphans /\ dialog' = NoDialog
  /\ draft' = NoDraft /\ importUrl' = "" /\ pending' = NoPending /\ table' = NoTable
  /\ UNCHANGED <<server, clock, cache, subject, frozen, sent, home, cookie, principal, probe, hash, signing, faults>>

Next ==
  \/ SessionStep /\ UNCHANGED <<clientVars, pageVars>>
  \/ EnterPage \/ LeavePage
  \/ (ClientStep \/ CloseDialog) /\ Watching /\ UNCHANGED <<importUrl, pending, table>>
  \/ page = "settings" /\ SettingsStep /\ UNCHANGED <<importUrl, pending, table>>
  \/ page = "keys" /\ KeysStep /\ UNCHANGED <<importUrl, pending, table>>
  \/ page = "models" /\ ModelsStep /\ UNCHANGED pageVars
  \/ page = "packages" /\ PackagesStep /\ UNCHANGED <<draft, table>>
  \/ page \in {"history", "subscriptions", "transports", "monitor"} /\ ListStep /\ UNCHANGED <<draft, importUrl, pending>>

Spec == Init /\ [][Next]_vars

-----------------------------------------------------------------------------
(* Properties *)

TypeOK ==
  /\ page \in Pages \cup {"none", "login"} /\ DOMAIN calls \subseteq 1..sent
  /\ \A l \in Lists : cache[l].fetch \in {"idle", "asked", "answered"} /\ Len(cache[l].data) <= 1

\* The guard turns an admin back to the login only if the server does not know the
\* session, or if the question about it was lost: that counts as signed out and is kept
\* until the next login (README, section 5).  An answer it remembers is never older than a
\* login (auth.ts:17-39).
SentBackOnlySignedOut ==
  [][probe # "none" /\ probe' = probe /\ Route \in Pages /\ hash' = <<"login">> \o hash
     => ~cookie \/ probe = "lost"]_vars

\* The client's half of the optimistic lock: a write the server accepts as made from a
\* revision was made from that very revision, of that very package, however saves,
\* selections, reloads and other writers interleave, if the admin saw what he sent; one
\* that takes the row away included
\* (PackageSettingsPage.vue:91-116, KeysPanel.vue:42-59).  From the tab of the tasks he
\* saves the settings as well, unseen: StaleSavesAreRefused.
NoBlindOverwrite ==
  \A i \in DOMAIN calls :
    LET c == calls[i] IN
    c.kind \in {"cas", "clear"} /\ c.base > 0 /\ c.at = "ok" /\ c.seen.shown
    => c.seen.list = c.list /\ c.seen.rev = c.base

\* The members of a group are on the screen in their dialog; the group may be gone by now.
OnScreen(l) ==
  l \in Observed /\ (l[1] = "members" => dialog.kind \in {"members", "removeMember"} /\ server[Groups][subject] # 0)

\* Once the handlers are through and nothing is being fetched, a list on the screen shows
\* what the server has (the refetch at the end of every handler), unless a fetch failed,
\* someone else wrote in between, be it a handler of a page that was left, or the fetch had
\* read already when it was joined.  Mounting, selecting and the focus join any fetch under
\* way; the refetch of a handler joins only the first one of a list, so a key added while
\* the panel first loads may stay off the screen (README, section 5).
ListsCatchUp ==
  \A l \in Lists :
    LET q == cache[l] IN
    OnScreen(l) /\ q.fetch = "idle" /\ q.data # None /\ ~q.error /\ ~q.excused /\ ~q.joined /\ DOMAIN calls = {}
    => q.data[1].rows = server[q.data[1].of]

\* A copy that was loaded is of the package that is selected whenever the settings of that
\* package are in the cache.  It is the revision in the cache, or what its own save
\* returned: a later one, or 0 if the save left nothing to store
\* (PackageSettingsPage.vue:47-63, :91-105).  Nothing is said of a copy not yet loaded,
\* which on a page entered again may last while the settings are cached (README, section 5).
CopyFollowsSelection ==
  page = "settings" /\ draft.loaded /\ Shown # None =>
    /\ draft.made.list = Settings(subject)
    /\ \/ draft.made.rev = Shown[1].rows["doc"]
       \/ draft.submitted /\ (draft.made.rev = 0 \/ draft.made.rev > Shown[1].rows["doc"])

\* What the button installs while a summary is on the screen is of the summary's kind: the
\* very file it was made of, or else a URL and no file left from before
\* (PackagesPage.vue:39-94).  The URL is the one in the input when the inspection returned
\* (:66-68), not necessarily the one inspected (README, section 5).
SummaryIsOfPending ==
  dialog.kind = "confirm" =>
    IF dialog.seen = "file" THEN pending = [bytes |-> dialog.item, url |-> ""] ELSE pending.bytes = "" /\ pending.url # ""

\* The page number, the rows and the total of the history are of one answer (HistoryPage.vue:50-72).
PageMatchesRows ==
  table.rows # <<>> =>
    /\ table.rows[1][2] = (table.page - 1) * PageSize + 1
    /\ table.total = Entries[table.rows[1][1]]

\* "选择包后管理配置、账号与任务": a request about a package is about the one whose settings or
\* keys the admin was looking at (PackageSettingsPage.vue:161).
ActsOnWhatIsShown ==
  \A i \in DOMAIN calls :
    calls[i].op \in {"save", "task", "editKey", "removeKey"} => calls[i].seen.list = calls[i].list

\* What the docs say of the settings (sdk/docs/03-settings-keys.md:41): a save carries the
\* version its copy was made from, and one made from a version that has expired is refused.
StaleSavesAreRefused ==
  \A i \in DOMAIN calls :
    LET c == calls[i] IN
    c.kind \in {"cas", "clear"} /\ c.base > 0 /\ c.at = "ok" /\ c.seen.list = c.list => c.seen.rev = c.base

\* The server's half, which it does not keep: "过期即 409", a write from a revision that
\* is not the stored one any more is refused (handlers.go:585).
NoLostUpdate ==
  [][\A i \in DOMAIN calls \cap DOMAIN calls' :
       calls[i].at = "checked" /\ calls'[i].at = "ok" => server[calls[i].list][calls[i].item] = calls[i].base]_vars

=============================================================================
