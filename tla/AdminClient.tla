---------------------------- MODULE AdminClient ----------------------------
(***************************************************************************)
(* What every page of the console is made of: queries whose answers are      *)
(* cached (vue-query), handlers that send a request, wait for its answer and *)
(* refetch, and the admin API at the other end (web/src/services/api.ts).    *)
(*                                                                          *)
(* A list of the API is a pair <<"keys", "a">>: its kind and whose it is.    *)
(* The server keeps a revision for every item of a list, 0 for an item that  *)
(* is not there; a revision is the moment of the write (version, updatedAt), *)
(* never the same for two writes that leave a row.  A write may also take the *)
(* row away; what it returns then is revision 0.                             *)
(***************************************************************************)
EXTENDS Session, FiniteSets, Functions

CONSTANTS PageLists,  \* the lists of the API each page is about
          Items,      \* the items each of them may have
          Revisions,  \* the revisions they start with
          MaxCalls,   \* requests of handlers in one behaviour, for each page
          Mixing      \* the pages where requests that only ask overlap others

\* The revisions at first are moments before any of the clock's, and of two lists never the same.
ASSUME RevisionsAssumption ==
  \A p \in Pages : \A l, m \in PageLists[p] : \A x \in Items[l], y \in Items[m] :
    Revisions[l][x] \in 0..20 /\ (l # m /\ Revisions[l][x] = Revisions[m][y] => Revisions[l][x] = 0)

VARIABLES
  server,    \* revision of every item of every list
  clock,     \* the last revision
  cache,     \* the query cache
  subject,   \* what the queries of the page point at: a package or a group
  frozen,    \* the subject the keys panel was mounted with
  dialog,    \* the dialog that is open
  calls,     \* the handlers under way, by the number of their request
  sent       \* how many requests handlers made so far

handlers == <<calls, sent>>
clientVars == <<server, clock, cache, subject, frozen, dialog, handlers>>

Lists == PageLists[home]
None == <<>>
NoDialog == [kind |-> "none", item |-> "", seen |-> <<>>, result |-> ""]
NoQuery == [data |-> None, fetch |-> "idle", of |-> <<>>, answer |-> None, error |-> FALSE,
            excused |-> FALSE, joined |-> FALSE]

ClientInit ==
  /\ server = [l \in Lists |-> [x \in Items[l] |-> Revisions[l][x]]] /\ clock = 20
  /\ cache = [l \in Lists |-> NoQuery]
  /\ subject = "a" /\ frozen = "a"
  /\ dialog = NoDialog /\ calls = <<>> /\ sent = 0

-----------------------------------------------------------------------------
(* vue-query.  A query function reads what it asks for when it is called, not *)
(* when its key was made.                                                     *)

Asks(l, subj) == IF l[2] = "" THEN l ELSE <<l[1], subj>>

Start(q, of) ==
  [q EXCEPT !.fetch = "asked", !.of = of, !.answer = None, !.excused = FALSE, !.joined = FALSE,
            !.error = @ /\ q.data # None]

\* A fetch under way is enough: if it has read already, that is not read again.
Joined(q) == [q EXCEPT !.joined = @ \/ q.fetch = "answered"]

\* Mounting, a new key or the focus.
Join(q, of) == IF q.fetch = "idle" THEN Start(q, of) ELSE Joined(q)

\* A plausible slip: refetch with cancelRefetch off.
RefetchJoining(q, of) == IF q.fetch = "idle" THEN Start(q, of) ELSE q

\* refetch: an earlier fetch is cancelled, unless nothing was ever fetched.
Refetch(q, of) ==
  IF q.fetch = "idle" \/ q.data # None THEN Start(q, of) ELSE Joined(q)

\* The lists whose queries the mounted page holds.
Observed ==
  CASE page = "settings" -> {<<"settings", subject>>}
    [] page = "keys" -> {<<"keys", frozen>>}
    [] page = "models" -> {<<"groups", "">>} \cup {l \in Lists : l = <<"members", subject>>}
    [] page = "monitor" -> {<<"live", "">>, <<"series", "">>, <<"transports", "">>}
    [] page \in {"packages", "subscriptions", "transports"} -> {l \in Lists : l = <<page, "">>}
    [] OTHER -> {}

\* The query the page refetches for a write to l.
Counterpart(l) == IF \E m \in Observed : m[1] = l[1] THEN CHOOSE m \in Observed : m[1] = l[1] ELSE l

\* Nothing is kept of a handler that is through.
Live(cs) == Restrict(cs, {i \in DOMAIN cs : cs[i].at # "done"})

\* A handler whose refetch is over goes on: to its end, or to the rest of it.
Chained == {"discover", "removeMember"}
Settled(cs, ls) ==
  [i \in DOMAIN cs |->
    IF cs[i].at = "refetching" /\ cs[i].waits \in ls
    THEN [cs[i] EXCEPT !.at = IF cs[i].op \in Chained THEN "settled" ELSE "done"]
    ELSE cs[i]]

\* The server answers a query; without the cookie it refuses.
Read(l) ==
  /\ cache[l].fetch = "asked" /\ cookie
  /\ cache' = [cache EXCEPT ![l].fetch = "answered", ![l].answer = <<[of |-> cache[l].of, rows |-> server[cache[l].of]]>>]
  /\ UNCHANGED <<server, clock, subject, frozen, dialog, handlers, sessionVars, faults>>

\* A query's answer comes in.
Deliver(l) ==
  /\ cache[l].fetch = "answered"
  /\ cache' = [cache EXCEPT ![l].fetch = "idle", ![l].data = cache[l].answer, ![l].answer = None, ![l].error = FALSE]
  /\ calls' = Live(Settled(calls, {l})) /\ UNCHANGED sent
  /\ UNCHANGED <<server, clock, subject, frozen, dialog, sessionVars, faults>>

GiveUp(l) ==
  /\ cache' = [cache EXCEPT ![l].fetch = "idle", ![l].error = TRUE]
  /\ calls' = Live(Settled(calls, {l})) /\ UNCHANGED sent
  /\ UNCHANGED <<server, clock, subject, frozen, dialog>>

FetchDenied(l) ==
  /\ cache[l].fetch = "asked" /\ ~cookie
  /\ GiveUp(l) /\ Unauthorized
  /\ UNCHANGED <<home, cookie, page, signing, faults>>

FetchFails(l) ==
  /\ cache[l].fetch = "asked" /\ Fault
  /\ GiveUp(l) /\ UNCHANGED sessionVars

\* An attempt that failed is made again, by the query function of now.
FetchAgain(l) ==
  /\ cache[l].fetch = "asked" /\ l \in Observed /\ cache[l].of # Asks(l, subject)
  /\ cache' = [cache EXCEPT ![l].of = Asks(l, subject)]
  /\ UNCHANGED <<server, clock, subject, frozen, dialog, handlers, sessionVars, faults>>

\* The window gets the focus: what is on the page is fetched again.
Focus ==
  /\ Fault /\ \E l \in Observed : cache[l].fetch = "idle"
  /\ cache' = [l \in Lists |-> IF l \in Observed THEN Join(cache[l], Asks(l, subject)) ELSE cache[l]]
  /\ UNCHANGED <<server, clock, subject, frozen, dialog, handlers, sessionVars>>

-----------------------------------------------------------------------------
(* Handlers: a request, its answer, a refetch *)

Call(op, kind, list, item, base, seen) ==
  [op |-> op, kind |-> kind, list |-> list, item |-> item, base |-> base, seen |-> seen,
   at |-> "sent", rev |-> 0, waits |-> <<>>]

Busy(op) == \E i \in DOMAIN calls : calls[i].op = op

\* A request under way makes item x of list l: the server gives an id once.
Given(l, x) == \E i \in DOMAIN calls : calls[i].kind = "create" /\ calls[i].list = l /\ calls[i].item = x

\* The next request is c.
With(cs, c) == [i \in DOMAIN cs \cup {sent + 1} |-> IF i \in DOMAIN cs THEN cs[i] ELSE c]

\* Handlers overlap; the bound keeps those that only ask from others, but on some pages.
Overlaps(c) == \A i \in DOMAIN calls : page \in Mixing \/ (c.kind # "ask" /\ calls[i].kind # "ask")

Send(c) ==
  /\ sent < MaxCalls[home] /\ Overlaps(c)
  /\ sent' = sent + 1 /\ calls' = With(calls, c)
Over(i) == calls' = Live([calls EXCEPT ![i].at = "done"]) /\ UNCHANGED sent

\* Handler i waits for a refetch of l; a fetch this cancels is over for those who waited.
Await(i, l) ==
  /\ calls' = Live([IF cache[l].data # None THEN Settled(calls, {l}) ELSE calls
                     EXCEPT ![i].at = "refetching", ![i].waits = l])
  /\ UNCHANGED sent
  /\ cache' = [cache EXCEPT ![l] = Refetch(@, Asks(l, subject))]

Answered(i, op) == i \in DOMAIN calls /\ calls[i].op = op /\ calls[i].at = "ok"

(* The server.  "cas" writes what has revision base, "touch" is a cas with    *)
(* the content that is stored, "clear" one that leaves no row, "put" writes   *)
(* whatever is there, "drop" removes it, "import" adds what is missing, "ask" *)
(* changes nothing.                                                           *)
Locked == {"cas", "touch", "clear"}

Accepts(c) ==
  CASE c.kind \in Locked -> server[c.list][c.item] = c.base
    [] c.kind \in {"create", "import"} ->
         /\ c.kind = "create" => server[c.list][c.item] = 0
         /\ c.list[1] = "members" => server[<<"groups", "">>][c.list[2]] # 0
    [] c.kind \in {"set", "remove"} -> server[c.list][c.item] # 0
    [] OTHER -> TRUE

\* saveIfChanged: what is stored already is not written.
Writes(c) ==
  /\ c.kind # "ask"
  /\ c.kind = "touch" => server[c.list][c.item] # c.base
  /\ c.kind = "clear" => server[c.list][c.item] # 0

\* What is stored after a write.  Settings that are all defaults leave no row: the
\* revision is 0 again, and it is 0 that is returned (plugin/settings.go:211-216).
After(c) ==
  LET new == IF c.kind \in {"remove", "drop", "clear"} THEN 0 ELSE clock + 1
      row(l, x) == IF l = c.list /\ (x = c.item \/ (c.kind = "import" /\ server[l][x] = 0)) THEN new
                   ELSE IF c.kind = "remove" /\ c.list[1] = "groups" /\ l = <<"members", c.item>> THEN 0
                   ELSE server[l][x]
  IN [l \in Lists |-> [x \in Items[l] |-> row(l, x)]]

\* The revision the answer to a save carries.
Returned(c) == IF c.kind = "clear" THEN 0 ELSE IF Writes(c) THEN clock + 1 ELSE c.base

\* Rows of these lists changed behind the page's back.
Excused(ls) == [l \in Lists |-> IF cache[l].of \in ls THEN [cache[l] EXCEPT !.excused = TRUE] ELSE cache[l]]

\* The revision a write is made from is compared first and the write comes later:
\* nothing holds the row in between.
Check(i) ==
  /\ i \in DOMAIN calls /\ calls[i].at = "sent" /\ cookie /\ calls[i].kind \in Locked
  /\ calls' = [calls EXCEPT ![i].at = IF Accepts(calls[i]) THEN "checked" ELSE "refused"]
  /\ UNCHANGED <<server, clock, cache, subject, frozen, dialog, sent, sessionVars, faults>>

Serve(i) ==
  LET c == calls[i] IN
  /\ i \in DOMAIN calls
  /\ c.at = "checked" \/ (c.at = "sent" /\ cookie /\ c.kind \notin Locked)
  /\ IF c.at = "checked" \/ Accepts(c)
     THEN /\ server' = IF Writes(c) THEN After(c) ELSE server
          /\ clock' = IF Writes(c) THEN clock + 1 ELSE clock
          /\ calls' = [calls EXCEPT ![i].at = "ok", ![i].rev = Returned(c)]
          /\ cache' = IF c.op = "orphan" /\ Writes(c) THEN [Excused({c.list}) EXCEPT ![c.waits] = cache[c.waits]] ELSE cache
     ELSE calls' = [calls EXCEPT ![i].at = "refused"] /\ UNCHANGED <<server, clock, cache>>
  /\ UNCHANGED <<subject, frozen, dialog, sent, sessionVars, faults>>

\* The request or its answer is lost; what the server did stays.
Lose(i) ==
  LET c == calls[i]
      done == (c.at = "checked" \/ (cookie /\ Accepts(c))) /\ Writes(c)
  IN /\ i \in DOMAIN calls /\ c.at \in {"sent", "checked"} /\ Fault
     /\ calls' = [calls EXCEPT ![i].at = "failed"]
     /\ \/ UNCHANGED <<server, clock, cache>>
        \/ /\ done /\ server' = After(c) /\ clock' = clock + 1
           /\ cache' = Excused({l \in Lists : server'[l] # server[l]})
     /\ UNCHANGED <<subject, frozen, dialog, sent, sessionVars>>

\* Another admin or a task of the package writes.
OtherWrites(l, x) ==
  /\ l \in Observed /\ server[l][x] # 0 /\ Fault
  /\ clock' = clock + 1 /\ server' = [server EXCEPT ![l][x] = clock + 1]
  /\ cache' = Excused({l})
  /\ UNCHANGED <<subject, frozen, dialog, handlers, sessionVars>>

Denied(i) ==
  /\ i \in DOMAIN calls /\ calls[i].at = "sent" /\ ~cookie
  /\ calls' = [calls EXCEPT ![i].at = "failed"] /\ Unauthorized
  /\ UNCHANGED <<server, clock, cache, subject, frozen, dialog, sent, home, cookie, page, signing, faults>>

\* The page is left: its handlers run on, over state nobody shows and the queries it had.
Orphans ==
  LET abandon(c) == IF c.at \in {"refetching", "settled"} THEN [c EXCEPT !.at = "done"]
                    ELSE IF c.op = "orphan" THEN c ELSE [c EXCEPT !.op = "orphan", !.waits = Counterpart(c.list)]
  IN Live([i \in DOMAIN calls |-> abandon(calls[i])])

OrphanReturns(i) ==
  /\ i \in DOMAIN calls /\ calls[i].op = "orphan" /\ calls[i].at \in {"ok", "refused", "failed"}
  /\ Over(i)
  /\ cache' = IF calls[i].at = "ok" /\ calls[i].kind # "ask"
              THEN [cache EXCEPT ![calls[i].waits] = Refetch(@, calls[i].waits)] ELSE cache
  /\ UNCHANGED <<server, clock, subject, frozen, dialog, sessionVars, faults>>

\* Most handlers only tell the admin that a request failed.
HandlerFails(i) ==
  /\ i \in DOMAIN calls /\ calls[i].at \in {"refused", "failed"}
  /\ calls[i].op \notin {"orphan", "enable", "sync", "removeSub"}
  /\ calls[i].op = "save" => calls[i].at = "failed"
  /\ Over(i)
  /\ UNCHANGED <<server, clock, cache, subject, frozen, dialog, sessionVars, faults>>

\* Page pg is mounted and its queries start; the page before is gone.
Mount(pg, ls) ==
  /\ page' = pg
  /\ cache' = [l \in Lists |-> IF l \in ls THEN Join(cache[l], Asks(l, subject')) ELSE cache[l]]
  /\ dialog' = NoDialog /\ calls' = Orphans
  /\ UNCHANGED <<server, clock, sent>>

ClientStep ==
  \/ \E l \in Lists : Read(l) \/ Deliver(l) \/ FetchDenied(l) \/ FetchFails(l) \/ FetchAgain(l)
                      \/ \E x \in Items[l] : OtherWrites(l, x)
  \/ Focus
  \/ \E i \in DOMAIN calls : Check(i) \/ Serve(i) \/ Lose(i) \/ Denied(i) \/ OrphanReturns(i) \/ HandlerFails(i)

\* The admin closes what is on top.
CloseDialog ==
  /\ dialog.kind # "none"
  /\ dialog' = IF dialog.kind = "removeMember" THEN [dialog EXCEPT !.kind = "members", !.result = "", !.seen = <<>>] ELSE NoDialog
  /\ UNCHANGED <<server, clock, cache, subject, frozen, handlers, sessionVars, faults>>

=============================================================================
