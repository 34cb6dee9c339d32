------------------------------ MODULE ListPages ------------------------------
(***************************************************************************)
(* The smaller pages: the history of requests, subscriptions, transports and *)
(* the monitor.  HistoryPage.vue, SubscriptionsPage.vue, TransportsPage.vue  *)
(* and MonitorPage.vue.                                                      *)
(***************************************************************************)
EXTENDS AdminClient

CONSTANTS Entries,   \* requests on record for each filter: [filter -> Nat]
          PageSize   \* PAGE_SIZE

ASSUME HistoryAssumption ==
  /\ PageSize \in Nat \ {0}
  /\ Entries \in [DOMAIN Entries -> Nat] /\ "all" \in DOMAIN Entries

VARIABLE table      \* the history on the page: page, rows, total, the filters typed, the detail

listRest == <<server, clock, subject, frozen, sessionVars, faults>>

NoTable == [page |-> 1, rows |-> <<>>, total |-> 0, filter |-> "all", detail |-> ""]

\* What the server answers: the rows of that page of what matches, and how many match.
HistoryOf(filter, target) ==
  LET from == (target - 1) * PageSize
      last == IF Entries[filter] < from + PageSize THEN Entries[filter] ELSE from + PageSize
  IN [rows |-> [n \in 1..(last - from) |-> <<filter, from + n>>], total |-> Entries[filter]]

totalPages == LET n == (table.total + PageSize - 1) \div PageSize IN IF n = 0 THEN 1 ELSE n

Query(target, filter) == Call("query", "ask", <<"history", "">>, filter, target, <<>>)

setFilter(f) ==
  /\ page = "history" /\ f # table.filter
  /\ table' = [table EXCEPT !.filter = f]
  /\ UNCHANGED <<listRest, cache, dialog, handlers>>

\* A plausible slip: the page turns before its rows are there.
QueryTurning(target) ==
  /\ page = "history"
  /\ Send(Query(target, table.filter))
  /\ table' = [table EXCEPT !.page = target]
  /\ UNCHANGED <<listRest, cache, dialog>>

\* query: the search asks for page 1, the pagination for any page there is.
query(target) ==
  /\ page = "history"
  /\ Send(Query(target, table.filter))
  /\ UNCHANGED <<listRest, cache, dialog, table>>

\* Rows, total and page change together; of two answers the last to come stays.
QueryReturns(i) ==
  /\ Answered(i, "query") /\ Over(i)
  /\ LET h == HistoryOf(calls[i].item, calls[i].base)
     IN table' = [table EXCEPT !.rows = h.rows, !.total = h.total, !.page = calls[i].base]
  /\ UNCHANGED <<listRest, cache, dialog>>

\* openDetail shows the row, then what the server has of it.
openDetail(n) ==
  /\ page = "history"
  /\ table' = [table EXCEPT !.detail = table.rows[n]]
  /\ Send(Call("detail", "ask", <<"history", "">>, "", n, table.rows[n]))
  /\ UNCHANGED <<listRest, cache, dialog>>

DetailReturns(i) ==
  /\ Answered(i, "detail") /\ Over(i)
  /\ table' = [table EXCEPT !.detail = calls[i].seen]
  /\ UNCHANGED <<listRest, cache, dialog>>

-----------------------------------------------------------------------------
(* Subscriptions, transports, monitor *)

Own == <<page, "">>
rowsOf(l) == {x \in Items[l] : cache[l].data # None /\ cache[l].data[1].rows[x] # 0}
tableless == UNCHANGED <<listRest, table>>

openForm(kind, x) ==
  /\ dialog = NoDialog
  /\ dialog' = [NoDialog EXCEPT !.kind = kind, !.item = x]
  /\ tableless /\ UNCHANGED <<cache, handlers>>

openCreateSub == page = "subscriptions" /\ openForm("createSub", "")
openEvict(x) == page = "transports" /\ x \in rowsOf(Own) /\ openForm("evict", x)

SendFor(op, kind, x) == Send(Call(op, kind, Own, x, 0, <<>>)) /\ tableless /\ UNCHANGED <<cache, dialog>>

submitCreate ==
  /\ page = "subscriptions" /\ dialog.kind = "createSub"
  /\ \E x \in Items[Own] : server[Own][x] = 0 /\ ~Given(Own, x) /\ SendFor("createSub", "create", x)
syncSub(x) == page = "subscriptions" /\ dialog = NoDialog /\ x \in rowsOf(Own) /\ SendFor("sync", "set", x)
removeSub(x) == page = "subscriptions" /\ dialog = NoDialog /\ x \in rowsOf(Own) /\ SendFor("removeSub", "remove", x)
submitEvict == dialog.kind = "evict" /\ SendFor("evict", "ask", dialog.item)
testTransport(x) ==
  /\ page \in {"transports", "monitor"} /\ x \in rowsOf(<<"transports", "">>)
  /\ Send(Call("transport", "ask", <<"transports", "">>, x, 0, <<>>))
  /\ tableless /\ UNCHANGED <<cache, dialog>>

\* A subscription that was made closes the form; synced or removed, or not, the list is fetched again.
SubReturns(i) ==
  /\ \/ Answered(i, "createSub")
     \/ i \in DOMAIN calls /\ calls[i].op \in {"sync", "removeSub"} /\ calls[i].at \in {"ok", "refused", "failed"}
  /\ dialog' = IF dialog.kind = "createSub" /\ calls[i].op = "createSub" THEN NoDialog ELSE dialog
  /\ Await(i, <<"subscriptions", "">>) /\ tableless

TransportReturns(i) ==
  /\ Answered(i, "evict") \/ Answered(i, "transport")
  /\ dialog' = IF dialog.kind = "evict" /\ calls[i].op = "evict" THEN NoDialog ELSE dialog
  /\ Over(i) /\ tableless /\ UNCHANGED cache

\* The button of the page: every list on it is fetched again.
refreshAll ==
  /\ page \in {"subscriptions", "transports", "monitor"}
  /\ cache' = [l \in Lists |-> IF l \in Observed THEN Refetch(cache[l], l) ELSE cache[l]]
  /\ calls' = Live(Settled(calls, {l \in Observed : cache[l].data # None})) /\ UNCHANGED sent
  /\ UNCHANGED <<server, clock, subject, frozen, dialog, sessionVars, faults, table>>

ListStep ==
  \/ page = "history" /\ \/ \E f \in DOMAIN Entries : setFilter(f)
                         \/ \E n \in 1..totalPages : query(n)
                         \/ \E n \in DOMAIN table.rows : openDetail(n)
  \/ \E i \in DOMAIN calls : QueryReturns(i) \/ DetailReturns(i) \/ SubReturns(i) \/ TransportReturns(i)
  \/ page \in {"subscriptions", "transports", "monitor"} /\
       \/ openCreateSub \/ submitCreate \/ submitEvict \/ refreshAll
       \/ \E x \in Items[<<"subscriptions", "">>] : syncSub(x) \/ removeSub(x)
       \/ \E x \in Items[<<"transports", "">>] : openEvict(x) \/ testTransport(x)

=============================================================================
