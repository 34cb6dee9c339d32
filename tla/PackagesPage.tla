---------------------------- MODULE PackagesPage ----------------------------
(***************************************************************************)
(* The page of the packages: import from a file or a URL, inspected first    *)
(* and installed when the admin confirms, enabling and removal.              *)
(* PackagesPage.vue.  A file or a URL is known by the package it holds.      *)
(***************************************************************************)
EXTENDS AdminClient

PackageList == <<"packages", "">>

\* A package has a name.
ASSUME NamesAssumption == "" \notin Items[PackageList]

VARIABLES
  importUrl,    \* the URL in the input
  pending       \* what is to be installed: bytes of a file, or else a URL

pkgRest == <<server, clock, subject, frozen, sessionVars, faults>>
NoPending == [bytes |-> "", url |-> ""]

Installed == {p \in Items[PackageList] : cache[PackageList].data # None /\ cache[PackageList].data[1].rows[p] # 0}
Inspect(op, p) == Call(op, "ask", PackageList, p, 0, <<>>)

\* onFileChosen: the file is read and inspected.
onFileChosen(p) ==
  /\ page = "packages" /\ dialog.kind = "none" /\ ~Busy("file")
  /\ Send(Inspect("file", p))
  /\ UNCHANGED <<pkgRest, cache, dialog, importUrl, pending>>

Confirm(p, what) == dialog' = [kind |-> "confirm", item |-> p, seen |-> what, result |-> ""]

\* What was inspected is kept with its summary, which opens the confirmation.
FileReturns(i) ==
  /\ Answered(i, "file")
  /\ pending' = [bytes |-> calls[i].item, url |-> ""]
  /\ Confirm(calls[i].item, "file")
  /\ Over(i) /\ UNCHANGED <<pkgRest, cache, importUrl>>

openUrl ==
  /\ page = "packages" /\ dialog = NoDialog
  /\ dialog' = [NoDialog EXCEPT !.kind = "url"]
  /\ UNCHANGED <<pkgRest, cache, handlers, importUrl, pending>>

\* The input takes another URL at any time, an inspection under way or not.
typeUrl(p) ==
  /\ dialog.kind = "url" /\ importUrl # p
  /\ importUrl' = p
  /\ UNCHANGED <<pkgRest, cache, handlers, dialog, pending>>

inspectUrl ==
  /\ dialog.kind = "url" /\ importUrl # "" /\ ~Busy("url")
  /\ Send(Inspect("url", importUrl))
  /\ UNCHANGED <<pkgRest, cache, dialog, importUrl, pending>>

\* A plausible slip: the bytes of a file inspected before are kept.
UrlReturnsKeepingFile(i) ==
  /\ Answered(i, "url")
  /\ pending' = [pending EXCEPT !.url = importUrl]
  /\ Confirm(calls[i].item, "url")
  /\ Over(i) /\ UNCHANGED <<pkgRest, cache, importUrl>>

\* The URL that will be installed is the one in the input by now.
UrlReturns(i) ==
  /\ Answered(i, "url")
  /\ pending' = [bytes |-> "", url |-> importUrl]
  /\ Confirm(calls[i].item, "url")
  /\ Over(i) /\ UNCHANGED <<pkgRest, cache, importUrl>>

confirmInstall ==
  /\ dialog.kind = "confirm" /\ ~Busy("install")
  /\ Send(Call("install", "put", PackageList, IF pending.bytes # "" THEN pending.bytes ELSE pending.url, 0, <<>>))
  /\ UNCHANGED <<pkgRest, cache, dialog, importUrl, pending>>

InstallReturns(i) ==
  /\ Answered(i, "install")
  /\ dialog' = IF dialog.kind = "confirm" THEN NoDialog ELSE dialog
  /\ Await(i, PackageList) /\ UNCHANGED <<pkgRest, importUrl, pending>>

toggleEnabled(p) ==
  /\ page = "packages" /\ dialog = NoDialog /\ p \in Installed
  /\ Send(Call("enable", "set", PackageList, p, 0, <<>>))
  /\ UNCHANGED <<pkgRest, cache, dialog, importUrl, pending>>

\* Enabled or refused, the list is fetched again.
ToggleReturns(i) ==
  /\ i \in DOMAIN calls /\ calls[i].op = "enable" /\ calls[i].at \in {"ok", "refused", "failed"}
  /\ Await(i, PackageList) /\ UNCHANGED <<pkgRest, dialog, importUrl, pending>>

askRemove(p) ==
  /\ page = "packages" /\ dialog = NoDialog /\ p \in Installed
  /\ dialog' = [NoDialog EXCEPT !.kind = "removePackage", !.item = p]
  /\ UNCHANGED <<pkgRest, cache, handlers, importUrl, pending>>

confirmRemove ==
  /\ dialog.kind = "removePackage"
  /\ Send(Call("removePackage", "remove", PackageList, dialog.item, 0, <<>>))
  /\ UNCHANGED <<pkgRest, cache, dialog, importUrl, pending>>

RemoveReturns(i) ==
  /\ Answered(i, "removePackage")
  /\ dialog' = IF dialog.kind = "removePackage" THEN NoDialog ELSE dialog
  /\ Await(i, PackageList) /\ UNCHANGED <<pkgRest, importUrl, pending>>

PackagesStep ==
  \/ page = "packages" /\ \E p \in Items[PackageList] : onFileChosen(p) \/ typeUrl(p) \/ toggleEnabled(p) \/ askRemove(p)
  \/ openUrl \/ inspectUrl \/ confirmInstall \/ confirmRemove
  \/ \E i \in DOMAIN calls :
       FileReturns(i) \/ UrlReturns(i) \/ InstallReturns(i) \/ ToggleReturns(i) \/ RemoveReturns(i)

=============================================================================
