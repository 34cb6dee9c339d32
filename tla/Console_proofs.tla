--------------------------- MODULE Console_proofs ---------------------------
(* What holds in every state of the admin console, for any lists, packages,
   pages and sizes: the session, the requests that are out, the shared cache,
   and what the pages read from it and write with it.

   The invariant has three parts. Base says what the session, the requests, the
   rows of the history and the dialogs are; no part of it depends on what other
   admins write. Sighted says which version of a list the cache, a copy of the
   settings, a claim of a save or a removal may be of, relative to the versions
   the server has had. CatchUp, at the end, rests on the two: what is fetched of a
   list on the screen, or shown of it, is what the server has, or a handler that
   wrote to it still owes it a fetch. *)
EXTENDS Console, SequenceTheorems, TLAPS

-----------------------------------------------------------------------------
(* The session *)

\* The route is a chain of the login page and the admin's own; whoever is signing
\* in is on the login page; and the answer "out" is no longer remembered by one
\* who has signed in since.
SessionOK ==
  /\ home \in Pages /\ page \in {"none", "login", home}
  /\ hash \in Seq({"login", home}) /\ hash # <<>>
  /\ cookie \in BOOLEAN /\ principal \in BOOLEAN
  /\ signing \in {"sent", "ok"} => Route = "login"
  /\ probe = "out" /\ cookie => principal \/ signing = "ok"

\* A 401 takes the admin to the login page.
SentToLogin == Unauthorized /\ UNCHANGED <<home, cookie, page, signing>>

\* What a step may do to the session.
SessionMoves ==
  UNCHANGED sessionVars \/ SessionStep \/ SentToLogin
  \/ (Enter /\ UNCHANGED <<home, cookie, principal, probe, hash, signing>>)
  \/ (ShowLogin /\ UNCHANGED <<home, cookie, principal, probe, hash, signing>>)

\* A route that got longer by one is another one.
LEMMA LongerRoute ==
  ASSUME NEW S, NEW h \in Seq(S), NEW x \in S
  PROVE  /\ <<x>> \o h \in Seq(S) /\ <<x>> \o h # <<>> /\ Head(<<x>> \o h) = x
         /\ <<x>> \o h # h
<1>1. <<x>> \in Seq(S) /\ Len(<<x>>) = 1 /\ <<x>>[1] = x
  OBVIOUS
<1>2. <<x>> \o h \in Seq(S) /\ Len(<<x>> \o h) = 1 + Len(h)
  BY <1>1, ConcatProperties
<1>3. (<<x>> \o h)[1] = x
  BY <1>1, ConcatProperties
<1>4. Len(h) \in Nat
  OBVIOUS
<1>5. <<x>> \o h # <<>> /\ Head(<<x>> \o h) = x
  BY <1>2, <1>3, <1>4
<1>6. <<x>> \o h # h
  BY <1>2, <1>4
<1> QED BY <1>2, <1>5, <1>6

\* A step of the session, or a redirect, leaves a session that is in order.
LEMMA SessionKept == SessionOK /\ SessionMoves => SessionOK'
<1> SUFFICES ASSUME SessionOK, SessionMoves PROVE SessionOK'
  OBVIOUS
<1> USE PagesAssumption
<1>r. Route \in {"login", home}
  BY HeadTailProperties DEF SessionOK, Route
<1>1. CASE UNCHANGED sessionVars
  BY <1>1 DEF SessionOK, sessionVars, Route
<1>2. CASE SentToLogin
  <2>1. <<"login">> \o hash \in Seq({"login", home}) /\ <<"login">> \o hash # <<>>
        /\ Head(<<"login">> \o hash) = "login"
    BY LongerRoute DEF SessionOK
  <2>2. hash' = <<"login">> \o hash \/ hash' = hash
    BY <1>2 DEF SentToLogin, Unauthorized
  <2>3. hash' \in Seq({"login", home}) /\ hash' # <<>> /\ (Route = "login" => Route' = "login")
    BY <2>1, <2>2 DEF SessionOK, Route
  <2> QED BY <1>2, <2>3 DEF SentToLogin, Unauthorized, Reset, SessionOK
<1>3. CASE Enter /\ UNCHANGED <<home, cookie, principal, probe, hash, signing>>
  BY <1>3, <1>r DEF Enter, Guarding, SessionOK, Route
<1>4. CASE ShowLogin /\ UNCHANGED <<home, cookie, principal, probe, hash, signing>>
  BY <1>4 DEF ShowLogin, SessionOK, Route
<1>5. CASE SessionStep
  <2>1. CASE Load
    BY <2>1 DEF Load, SessionOK, Route
  <2>2. CASE ProbeAnswered
    BY <2>2 DEF ProbeAnswered, SessionOK, Route
  <2>3. CASE ProbeLost
    BY <2>3 DEF ProbeLost, SessionOK, Route
  <2>4. CASE TurnBack
    <3>1. <<"login">> \o hash \in Seq({"login", home}) /\ <<"login">> \o hash # <<>>
          /\ Head(<<"login">> \o hash) = "login"
      BY LongerRoute DEF SessionOK
    <3> QED BY <2>4, <3>1 DEF TurnBack, SessionOK, Route
  <2>5. CASE submit
    BY <2>5 DEF submit, SessionOK, Route
  <2>6. CASE SignIn
    <3>1. signing' \in {"ok", "no"} /\ Route = "login" /\ cookie' \in BOOLEAN
          /\ (signing' = "ok" \/ cookie' = cookie)
          /\ UNCHANGED <<home, principal, probe, hash, page>>
      BY <2>6 DEF SignIn, SessionOK
    <3> QED BY <2>6, <3>1 DEF SignIn, SessionOK, Route
  <2>7. CASE SignedIn
    <3>1. hash' \in Seq({"login", home}) /\ hash' # <<>>
      <4>1. CASE Len(hash) > 1
        <5>1. hash' = Tail(hash)
          BY <2>7, <4>1 DEF SignedIn, Onward
        <5>2. Tail(hash) \in Seq({"login", home}) /\ Len(Tail(hash)) = Len(hash) - 1
          BY HeadTailProperties DEF SessionOK
        <5>3. Len(hash) \in Nat
          BY DEF SessionOK
        <5>4. Tail(hash) # <<>>
          <6>1. Len(Tail(hash)) # 0
            BY <4>1, <5>2, <5>3
          <6>2. Tail(hash) = <<>> => Len(Tail(hash)) = Len(<<>>)
            OBVIOUS
          <6>3. Len(<<>>) = 0
            BY EmptySeq
          <6> QED BY <6>1, <6>2, <6>3
        <5> QED BY <5>1, <5>2, <5>4
      <4>2. CASE ~(Len(hash) > 1)
        <5>1. hash' = <<home>>
          BY <2>7, <4>2 DEF SignedIn, Onward
        <5> QED BY <5>1
      <4> QED BY <4>1, <4>2
    <3> QED BY <2>7, <3>1 DEF SignedIn, SessionOK, Route
  <2>8. CASE signOut
    BY <2>8 DEF signOut, SessionOK, Route
  <2>9. CASE SignOff
    <3>1. /\ signing' \in {"left", "no"} /\ (cookie' = cookie \/ cookie' = FALSE)
          /\ UNCHANGED <<home, principal, probe, hash, page>> /\ signing = "leaving"
      BY <2>9 DEF SignOff
    <3>2. cookie' \in BOOLEAN /\ (cookie' => cookie)
      <4>1. cookie \in BOOLEAN
        BY DEF SessionOK
      <4>2. CASE cookie' = cookie
        BY <4>1, <4>2
      <4>3. CASE cookie' = FALSE
        BY <4>3
      <4> QED BY <3>1, <4>2, <4>3
    <3>3. signing' \notin {"sent", "ok"} /\ signing # "ok"
      BY <3>1
    <3> QED BY <3>1, <3>2, <3>3 DEF SessionOK, Route
  <2>10. CASE SignedOut
    <3>1. <<"login">> \in Seq({"login", home}) /\ <<"login">> # <<>> /\ Head(<<"login">>) = "login"
      OBVIOUS
    <3> QED BY <2>10, <3>1 DEF SignedOut, Reset, SessionOK, Route
  <2>11. CASE Expire
    <3>1. cookie' = FALSE
      BY <2>11 DEF Expire
    <3>2. UNCHANGED <<home, principal, probe, hash, page, signing>>
      BY <2>11 DEF Expire
    <3>3. Route' = Route /\ hash' = hash /\ home' = home
      BY <3>2 DEF Route
    <3>4. hash' \in Seq({"login", home'}) /\ hash' # <<>>
      BY <3>3 DEF SessionOK
    <3> QED BY <3>1, <3>2, <3>3, <3>4 DEF SessionOK
  <2> QED BY <1>5, <2>1, <2>2, <2>3, <2>4, <2>5, <2>6, <2>7, <2>8, <2>9, <2>10, <2>11 DEF SessionStep
<1> QED BY <1>1, <1>2, <1>3, <1>4, <1>5 DEF SessionMoves


-----------------------------------------------------------------------------
(* The calls *)

\* A request of a handler, as Call makes it.
IsCall(c) ==
  c = [op |-> c.op, kind |-> c.kind, list |-> c.list, item |-> c.item, base |-> c.base, seen |-> c.seen,
       at |-> c.at, rev |-> c.rev, waits |-> c.waits]

\* Call d is call c some steps later.
Same(c, d) ==
  /\ IsCall(d) /\ d.op \in {c.op, "orphan"}
  /\ d.kind = c.kind /\ d.list = c.list /\ d.item = c.item /\ d.base = c.base /\ d.seen = c.seen

\* The server has not got any further with it.
Continues(c, d) == Same(c, d) /\ d.rev = c.rev /\ (d.at \in {"sent", "checked", "ok"} => d.at = c.at)

\* The calls ds are those of cs, some of them further, and no other.
Carries(cs, ds) == DOMAIN ds \subseteq DOMAIN cs /\ \A i \in DOMAIN ds : Continues(cs[i], ds[i])

\* Requests are numbered in their order, and each is a request of a handler.
CallsOK == sent \in Nat /\ DOMAIN calls \subseteq 1..sent /\ \A i \in DOMAIN calls : IsCall(calls[i])

\* A call continues itself.
LEMMA ContinuesRefl == ASSUME NEW c, IsCall(c) PROVE Continues(c, c)
BY DEF Continues, Same

\* A call that continues one that continues a third continues the third.
LEMMA ContinuesTrans ==
  ASSUME NEW c, NEW d, NEW e, Continues(c, d), Continues(d, e) PROVE Continues(c, e)
BY DEF Continues, Same

\* The same for all calls.
LEMMA CarriesTrans ==
  ASSUME NEW cs, NEW ds, NEW es, Carries(cs, ds), Carries(ds, es) PROVE Carries(cs, es)
BY ContinuesTrans DEF Carries

\* The same calls are carried.
LEMMA CarriesRefl ==
  ASSUME NEW cs, \A i \in DOMAIN cs : IsCall(cs[i]) PROVE Carries(cs, cs)
BY ContinuesRefl DEF Carries

\* Dropping those that are done.
LEMMA LiveCarries ==
  ASSUME NEW cs, \A i \in DOMAIN cs : IsCall(cs[i]) PROVE Carries(cs, Live(cs))
<1>1. DOMAIN Live(cs) \subseteq DOMAIN cs /\ \A i \in DOMAIN Live(cs) : Live(cs)[i] = cs[i]
  BY DEF Live, Restrict
<1> QED BY <1>1, ContinuesRefl DEF Carries

\* A step of one call.
LEMMA ExceptCarries ==
  ASSUME NEW cs, \A j \in DOMAIN cs : IsCall(cs[j]), NEW ds, DOMAIN ds = DOMAIN cs,
         NEW i, \A j \in DOMAIN cs : j # i => ds[j] = cs[j], i \in DOMAIN cs => Continues(cs[i], ds[i])
  PROVE  Carries(cs, ds)
BY ContinuesRefl DEF Carries

\* A call that gets to a later place of its handler.
LEMMA AtContinues ==
  ASSUME NEW c, IsCall(c), NEW a, a \notin {"sent", "checked", "ok"}
  PROVE  Continues(c, [c EXCEPT !.at = a]) /\ [c EXCEPT !.at = a].at = a /\ [c EXCEPT !.at = a].op = c.op
         /\ [c EXCEPT !.at = a].rev = c.rev /\ [c EXCEPT !.at = a].waits = c.waits
<1>1. [c EXCEPT !.at = a] = [op |-> c.op, kind |-> c.kind, list |-> c.list, item |-> c.item, base |-> c.base,
                             seen |-> c.seen, at |-> a, rev |-> c.rev, waits |-> c.waits]
  BY DEF IsCall
<1> QED BY <1>1 DEF Continues, Same, IsCall

\* The answer to a fetch lets the handlers go on that await it.
LEMMA SettledCarries ==
  ASSUME NEW cs, \A i \in DOMAIN cs : IsCall(cs[i]), NEW ls
  PROVE  Carries(cs, Settled(cs, ls)) /\ DOMAIN Settled(cs, ls) = DOMAIN cs
<1>1. DOMAIN Settled(cs, ls) = DOMAIN cs
  BY DEF Settled
<1>2. ASSUME NEW i \in DOMAIN cs PROVE Continues(cs[i], Settled(cs, ls)[i])
  <2>1. \/ Settled(cs, ls)[i] = cs[i]
        \/ \E a \in {"settled", "done"} : Settled(cs, ls)[i] = [cs[i] EXCEPT !.at = a]
    BY DEF Settled
  <2>2. IsCall(cs[i])
    OBVIOUS
  <2>3. ASSUME NEW a \in {"settled", "done"} PROVE Continues(cs[i], [cs[i] EXCEPT !.at = a])
    BY <2>2, AtContinues
  <2>4. Continues(cs[i], cs[i])
    BY <2>2, ContinuesRefl
  <2> QED BY <2>1, <2>3, <2>4
<1> QED BY <1>1, <1>2 DEF Carries

\* What is carried consists of calls.
LEMMA CarriedAreCalls ==
  ASSUME NEW cs, NEW ds, Carries(cs, ds) PROVE \A i \in DOMAIN ds : IsCall(ds[i])
BY DEF Carries, Continues, Same

\* What Call makes.
LEMMA NewCall ==
  ASSUME NEW op, NEW kind, NEW list, NEW item, NEW base, NEW seen
  PROVE  LET c == Call(op, kind, list, item, base, seen) IN
         /\ IsCall(c) /\ c.at = "sent" /\ c.rev = 0 /\ c.waits = <<>>
         /\ c.op = op /\ c.kind = kind /\ c.list = list /\ c.item = item /\ c.base = base /\ c.seen = seen
BY DEF Call, IsCall

\* No request is sent, and none changes but by going on or being refused.
CallsCarried == sent' = sent /\ Carries(calls, calls')

\* Nothing happened to the calls.
LEMMA CallsSame == CallsOK /\ UNCHANGED handlers => CallsCarried
BY CarriesRefl DEF CallsOK, CallsCarried, handlers

\* A handler ends.
LEMMA OverCarries == ASSUME CallsOK, NEW i, Over(i) PROVE CallsCarried
<1> DEFINE ds == [calls EXCEPT ![i].at = "done"]
<1>1. Carries(calls, ds)
  <2>1. DOMAIN ds = DOMAIN calls /\ \A j \in DOMAIN calls : j # i => ds[j] = calls[j]
    OBVIOUS
  <2>2. i \in DOMAIN calls => ds[i] = [calls[i] EXCEPT !.at = "done"]
    OBVIOUS
  <2>3. i \in DOMAIN calls => Continues(calls[i], ds[i])
    BY <2>2, AtContinues DEF CallsOK
  <2> HIDE DEF ds
  <2> QED BY <2>1, <2>3, ExceptCarries DEF CallsOK
<1>2. calls' = Live(ds) /\ sent' = sent
  BY DEF Over
<1> HIDE DEF ds
<1>3. Carries(ds, Live(ds))
  BY <1>1, CarriedAreCalls, LiveCarries
<1> QED BY <1>1, <1>2, <1>3, CarriesTrans DEF CallsCarried

\* Those that await a fetch go on and some of them end.
LEMMA SettledLiveCarries ==
  ASSUME CallsOK, NEW ls, calls' = Live(Settled(calls, ls)), sent' = sent PROVE CallsCarried
<1>1. Carries(calls, Settled(calls, ls))
  BY SettledCarries DEF CallsOK
<1>2. Carries(Settled(calls, ls), Live(Settled(calls, ls)))
  BY <1>1, CarriedAreCalls, LiveCarries
<1> QED BY <1>1, <1>2, CarriesTrans DEF CallsCarried

\* A handler awaits a refetch.
LEMMA AwaitCarries == ASSUME CallsOK, NEW i, NEW l, Await(i, l) PROVE CallsCarried
<1> DEFINE cs == IF cache[l].data # None THEN Settled(calls, {l}) ELSE calls
           ds == [cs EXCEPT ![i].at = "refetching", ![i].waits = l]
<1>1. Carries(calls, cs)
  BY SettledCarries, CarriesRefl DEF CallsOK
<1>2. \A j \in DOMAIN cs : IsCall(cs[j])
  BY <1>1, CarriedAreCalls
<1>3. calls' = Live(ds) /\ sent' = sent
  BY DEF Await
<1> HIDE DEF cs
<1>4. Carries(cs, ds)
  <2>1. DOMAIN ds = DOMAIN cs /\ \A j \in DOMAIN cs : j # i => ds[j] = cs[j]
    OBVIOUS
  <2>2. i \in DOMAIN cs => Continues(cs[i], ds[i])
    <3> HAVE i \in DOMAIN cs
    <3>1. ds[i] = [cs[i] EXCEPT !.at = "refetching", !.waits = l]
      OBVIOUS
    <3>2. IsCall(cs[i])
      BY <1>2
    <3> QED BY <3>1, <3>2 DEF IsCall, Continues, Same
  <2> HIDE DEF ds
  <2> QED BY <1>2, <2>1, <2>2, ExceptCarries
<1> HIDE DEF ds
<1>5. Carries(ds, Live(ds))
  BY <1>4, CarriedAreCalls, LiveCarries
<1> QED BY <1>1, <1>3, <1>4, <1>5, CarriesTrans DEF CallsCarried

\* The admin leaves the page: what is out returns to nobody.
LEMMA OrphansCarry ==
  ASSUME CallsOK
  PROVE  Carries(calls, Orphans) /\ \A i \in DOMAIN Orphans : Orphans[i].op = "orphan"
<1> DEFINE abandon(c) == IF c.at \in {"refetching", "settled"} THEN [c EXCEPT !.at = "done"]
                         ELSE IF c.op = "orphan" THEN c ELSE [c EXCEPT !.op = "orphan", !.waits = Counterpart(c.list)]
           ds == [i \in DOMAIN calls |-> abandon(calls[i])]
<1>1. \A i \in DOMAIN calls : IsCall(calls[i])
  BY DEF CallsOK
<1>2. \A i \in DOMAIN ds : Continues(calls[i], ds[i]) /\ (ds[i].at # "done" => ds[i].op = "orphan")
  <2> TAKE i \in DOMAIN ds
  <2>1. IsCall(calls[i]) /\ ds[i] = abandon(calls[i])
    BY <1>1
  <2> HIDE DEF ds
  <2> QED BY <2>1 DEF IsCall, Continues, Same
<1>3. Carries(calls, ds)
  <2>1. DOMAIN ds = DOMAIN calls
    OBVIOUS
  <2> HIDE DEF ds
  <2> QED BY <1>2, <2>1 DEF Carries
<1>4. Orphans = Live(ds)
  BY DEF Orphans
<1> HIDE DEF ds
<1>5. Carries(ds, Live(ds))
  BY <1>3, CarriedAreCalls, LiveCarries
<1>6. \A i \in DOMAIN Live(ds) : i \in DOMAIN ds /\ ds[i].at # "done" /\ Live(ds)[i] = ds[i]
  BY DEF Live, Restrict
<1> QED BY <1>2, <1>3, <1>4, <1>5, <1>6, CarriesTrans

\* The server gets on with call i.
Advances(i) ==
  /\ i \in DOMAIN calls /\ (Check(i) \/ Serve(i))
  /\ sent' = sent /\ DOMAIN calls' = DOMAIN calls
  /\ \A j \in DOMAIN calls : IF j = i THEN Same(calls[j], calls'[j]) ELSE calls'[j] = calls[j]

\* What the network and the server do to the calls.
LEMMA ClientCalls == CallsOK /\ ClientStep => CallsCarried \/ \E i \in DOMAIN calls : Advances(i)
<1> SUFFICES ASSUME CallsOK, ClientStep PROVE CallsCarried \/ \E i \in DOMAIN calls : Advances(i)
  OBVIOUS
<1>1. CASE \E l \in Lists : Read(l) \/ FetchAgain(l) \/ \E x \in Items[l] : OtherWrites(l, x)
  BY <1>1, CallsSame DEF Read, FetchAgain, OtherWrites
<1>2. CASE \E l \in Lists : Deliver(l) \/ FetchDenied(l) \/ FetchFails(l)
  BY <1>2, SettledLiveCarries DEF Deliver, FetchDenied, FetchFails, GiveUp
<1>3. CASE Focus
  BY <1>3, CallsSame DEF Focus
<1>4. ASSUME NEW i \in DOMAIN calls, Check(i) \/ Serve(i) \/ Lose(i) \/ Denied(i)
      PROVE  CallsCarried \/ Advances(i)
  <2>1. IsCall(calls[i]) /\ sent' = sent
    BY <1>4 DEF CallsOK, Check, Serve, Lose, Denied
  <2>2. DOMAIN calls' = DOMAIN calls /\ \A j \in DOMAIN calls : j # i => calls'[j] = calls[j]
    BY <1>4 DEF Check, Serve, Lose, Denied
  <2>3. CASE Check(i) \/ Serve(i)
    <3>1. ASSUME NEW a, calls' = [calls EXCEPT ![i].at = a] PROVE Same(calls[i], calls'[i])
      <4>1. calls'[i] = [calls[i] EXCEPT !.at = a]
        BY <3>1
      <4> QED BY <2>1, <4>1 DEF IsCall, Same
    <3>2. ASSUME NEW r, calls' = [calls EXCEPT ![i].at = "ok", ![i].rev = r] PROVE Same(calls[i], calls'[i])
      <4>1. calls'[i] = [calls[i] EXCEPT !.at = "ok", !.rev = r]
        BY <3>2
      <4> QED BY <2>1, <4>1 DEF IsCall, Same
    <3>3. Same(calls[i], calls'[i])
      BY <2>3, <3>1, <3>2 DEF Check, Serve
    <3> QED BY <2>1, <2>2, <2>3, <3>3 DEF Advances
  <2>4. CASE Lose(i) \/ Denied(i)
    <3>1. calls'[i] = [calls[i] EXCEPT !.at = "failed"]
      BY <2>4 DEF Lose, Denied
    <3>2. Continues(calls[i], calls'[i])
      BY <2>1, <3>1, AtContinues
    <3> QED BY <2>1, <2>2, <3>2, ExceptCarries DEF CallsOK, CallsCarried
  <2> QED BY <1>4, <2>3, <2>4
<1>5. CASE \E i \in DOMAIN calls : OrphanReturns(i) \/ HandlerFails(i)
  BY <1>5, OverCarries DEF OrphanReturns, HandlerFails
<1> QED BY <1>1, <1>2, <1>3, <1>4, <1>5 DEF ClientStep

-----------------------------------------------------------------------------
(* What a step of a page sends *)

\* The table of the history is of one answer, and asks for a filter there is.
TableOK ==
  /\ table = [page |-> table.page, rows |-> table.rows, total |-> table.total, filter |-> table.filter,
              detail |-> table.detail]
  /\ table.filter \in DOMAIN Entries /\ PageMatchesRows

\* A query of the history is for a filter there is, and a page.
QueryOK(c) == c.op = "query" => c.item \in DOMAIN Entries /\ c.base \in Nat \ {0}
\* An inspection of a URL is under way on the page of the packages only, with the field filled.
UrlOK(c) == c.op = "url" => page = "packages" /\ importUrl # ""

\* The request c is sent, and the others are left alone.
Sends(c) ==
  /\ sent' = sent + 1 /\ calls' = With(calls, c)
  /\ IsCall(c) /\ c.at = "sent" /\ c.rev = 0
  /\ QueryOK(c) /\ UrlOK(c) /\ c.op # "orphan"
  /\ c.kind \in {"cas", "clear"} => page \in {"settings", "keys"}

\* What a step that stays on its page does to the calls.
CallsMove == CallsCarried \/ (\E i \in DOMAIN calls : Advances(i)) \/ \E c : Sends(c)

\* A call of any other kind.
LEMMA PlainCall ==
  ASSUME NEW op, NEW kind, NEW list, NEW item, NEW base, NEW seen,
         op \notin {"query", "url", "orphan"}, kind \in {"cas", "clear"} => page \in {"settings", "keys"},
         Send(Call(op, kind, list, item, base, seen))
  PROVE  CallsMove
<1> DEFINE c == Call(op, kind, list, item, base, seen)
<1>1. IsCall(c) /\ c.at = "sent" /\ c.rev = 0 /\ c.op = op /\ c.kind = kind
  BY NewCall
<1>2. sent' = sent + 1 /\ calls' = With(calls, c)
  BY DEF Send
<1> HIDE DEF c
<1> QED BY <1>1, <1>2 DEF CallsMove, Sends, QueryOK, UrlOK

\* What Query makes.
LEMMA QueryCall ==
  ASSUME NEW n, NEW f
  PROVE  LET c == Query(n, f) IN
         /\ IsCall(c) /\ c.at = "sent" /\ c.rev = 0 /\ c.op = "query" /\ c.kind = "ask" /\ c.item = f /\ c.base = n
BY DEF Query, Call, IsCall

\* Opening a row of the history.
LEMMA DetailCall == ASSUME NEW n, openDetail(n) PROVE CallsMove
<1>1. Send(Call("detail", "ask", <<"history", "">>, "", n, table.rows[n]))
  BY DEF openDetail
<1>2. "detail" \notin {"query", "url", "orphan"} /\ "ask" # "cas"
  OBVIOUS
<1> QED BY <1>1, <1>2, PlainCall, Zenon

\* The handlers of the pages of lists.
LEMMA ListCalls == CallsOK /\ TableOK /\ ListStep => CallsMove
<1> SUFFICES ASSUME CallsOK, TableOK, ListStep PROVE CallsMove
  OBVIOUS
<1>1. CASE \E f \in DOMAIN Entries : setFilter(f)
  BY <1>1, CallsSame DEF setFilter, CallsMove
<1>2. ASSUME NEW n \in 1..totalPages, query(n) PROVE CallsMove
  <2> DEFINE c == Query(n, table.filter)
  <2>1. IsCall(c) /\ c.at = "sent" /\ c.rev = 0 /\ c.op = "query" /\ c.kind = "ask" /\ c.item = table.filter /\ c.base = n
    BY QueryCall
  <2>2. sent' = sent + 1 /\ calls' = With(calls, c)
    BY <1>2 DEF query, Send
  <2>3. n \in Nat \ {0}
    OBVIOUS
  <2> HIDE DEF c
  <2> QED BY <2>1, <2>2, <2>3 DEF CallsMove, Sends, QueryOK, UrlOK, TableOK
<1>3. ASSUME NEW n, openDetail(n) PROVE CallsMove
  BY <1>3, DetailCall
<1>4. CASE \E i \in DOMAIN calls : QueryReturns(i) \/ DetailReturns(i) \/ SubReturns(i) \/ TransportReturns(i)
  BY <1>4, OverCarries, AwaitCarries DEF QueryReturns, DetailReturns, SubReturns, TransportReturns, CallsMove
<1>5. CASE openCreateSub \/ refreshAll
  BY <1>5, CallsSame, SettledLiveCarries DEF openCreateSub, openForm, refreshAll, CallsMove
<1>6. CASE submitCreate \/ submitEvict
  BY <1>6, PlainCall DEF submitCreate, submitEvict, SendFor
<1>7. CASE \E x \in Items[<<"subscriptions", "">>] : syncSub(x) \/ removeSub(x)
  BY <1>7, PlainCall DEF syncSub, removeSub, SendFor
<1>8. CASE \E x \in Items[<<"transports", "">>] : openEvict(x) \/ testTransport(x)
  BY <1>8, CallsSame, PlainCall DEF openEvict, openForm, testTransport, CallsMove
<1> QED BY <1>1, <1>2, <1>3, <1>4, <1>5, <1>6, <1>7, <1>8 DEF ListStep

\* The handlers of the page of the packages.
LEMMA PackagesCalls == CallsOK /\ page = "packages" /\ PackagesStep => CallsMove
<1> SUFFICES ASSUME CallsOK, page = "packages", PackagesStep PROVE CallsMove
  OBVIOUS
<1>1. ASSUME NEW p, onFileChosen(p) \/ typeUrl(p) \/ toggleEnabled(p) \/ askRemove(p) PROVE CallsMove
  BY <1>1, PlainCall, CallsSame DEF onFileChosen, typeUrl, toggleEnabled, askRemove, Inspect, CallsMove
<1>2. CASE openUrl \/ confirmInstall \/ confirmRemove
  BY <1>2, PlainCall, CallsSame DEF openUrl, confirmInstall, confirmRemove, CallsMove
<1>3. CASE inspectUrl
  <2> DEFINE c == Inspect("url", importUrl)
  <2>1. IsCall(c) /\ c.at = "sent" /\ c.rev = 0 /\ c.op = "url" /\ c.kind = "ask"
    BY NewCall DEF Inspect
  <2>2. sent' = sent + 1 /\ calls' = With(calls, c) /\ importUrl # ""
    BY <1>3 DEF inspectUrl, Send
  <2> HIDE DEF c
  <2> QED BY <2>1, <2>2 DEF CallsMove, Sends, QueryOK, UrlOK
<1>4. ASSUME NEW i \in DOMAIN calls,
             FileReturns(i) \/ UrlReturns(i) \/ InstallReturns(i) \/ ToggleReturns(i) \/ RemoveReturns(i)
      PROVE  CallsMove
  BY <1>4, OverCarries, AwaitCarries DEF FileReturns, UrlReturns, InstallReturns, ToggleReturns, RemoveReturns, CallsMove
<1> QED BY <1>1, <1>2, <1>3, <1>4 DEF PackagesStep

\* The handlers of the page of the groups.
LEMMA ModelsCalls == CallsOK /\ ModelsStep => CallsMove
<1> SUFFICES ASSUME CallsOK, ModelsStep PROVE CallsMove
  OBVIOUS
<1>1. CASE openCreate \/ saveGroup \/ confirmDelete \/ confirmDeleteMember
  BY <1>1, PlainCall, CallsSame DEF openCreate, OpenDialog, saveGroup, confirmDelete, confirmDeleteMember, CallsMove
<1>2. ASSUME NEW g, openMembers(g) \/ runTest(g) PROVE CallsMove
  BY <1>2, PlainCall, CallsSame DEF openMembers, OpenDialog, runTest, AskGroup, CallsMove
<1>3. ASSUME NEW kind, NEW g, openGroup(kind, g) PROVE CallsMove
  BY <1>3, CallsSame DEF openGroup, OpenDialog, CallsMove
<1>4. ASSUME NEW op \in Checks, runCheck(op) PROVE CallsMove
  BY <1>4, PlainCall, ChecksAssumption DEF runCheck
<1>5. ASSUME NEW m, addMember(m) \/ toggleMember(m) \/ askRemoveMember(m) PROVE CallsMove
  BY <1>5, PlainCall, CallsSame DEF addMember, toggleMember, askRemoveMember, CallsMove
<1>6. ASSUME NEW apply \in BOOLEAN, runDiscover(apply) PROVE CallsMove
  BY <1>6, PlainCall, CallsSame DEF runDiscover, CallsMove
<1>7. ASSUME NEW i \in DOMAIN calls,
             \/ CheckReturns(i) \/ GroupReturns(i) \/ DiscoverReturns(i) \/ DiscoverGoesOn(i)
             \/ MemberReturns(i) \/ RemovalGoesOn(i)
      PROVE  CallsMove
  BY <1>7, OverCarries, AwaitCarries
     DEF CheckReturns, GroupReturns, DiscoverReturns, DiscoverGoesOn, MemberReturns, RemovalGoesOn, CallsMove
<1> QED BY <1>1, <1>2, <1>3, <1>4, <1>5, <1>6, <1>7 DEF ModelsStep

\* The handlers of the page of the settings.
LEMMA SettingsCalls == CallsOK /\ page = "settings" /\ SettingsStep => CallsMove
<1> SUFFICES ASSUME CallsOK, page = "settings", SettingsStep PROVE CallsMove
  OBVIOUS
<1>1. ASSUME NEW p, selectPackage(p) PROVE CallsMove
  BY <1>1, CallsSame DEF selectPackage, CallsMove
<1>2. ASSUME NEW c, edit(c) PROVE CallsMove
  BY <1>2, CallsSame DEF edit, CallsMove
<1>3. CASE save \/ resetDefaults \/ runTask
  BY <1>3, PlainCall, CallsSame DEF save, resetDefaults, Saving, runTask, CallsMove
<1>4. ASSUME NEW i \in DOMAIN calls, SaveConflict(i) \/ SaveReturns(i) \/ TaskReturns(i) PROVE CallsMove
  BY <1>4, OverCarries, AwaitCarries DEF SaveConflict, SaveReturns, TaskReturns, CallsMove
<1> QED BY <1>1, <1>2, <1>3, <1>4 DEF SettingsStep

\* The handlers of the panel of the keys.
LEMMA KeysCalls == CallsOK /\ page = "keys" /\ KeysStep => CallsMove
<1> SUFFICES ASSUME CallsOK, page = "keys", KeysStep PROVE CallsMove
  OBVIOUS
<1>1. ASSUME NEW p, selectPackage(p) PROVE CallsMove
  BY <1>1, CallsSame DEF selectPackage, CallsMove
<1>2. ASSUME NEW k, openEditKey(k) \/ askRemoveKey(k) \/ renameKey(k) PROVE CallsMove
  BY <1>2, CallsSame DEF openEditKey, askRemoveKey, renameKey, Open, CallsMove
<1>3. CASE openAdd \/ saveEditKey \/ submitAdd \/ confirmRemoveKey
  BY <1>3, PlainCall, CallsSame DEF openAdd, Open, saveEditKey, submitAdd, confirmRemoveKey, CallsMove
<1>4. ASSUME NEW i \in DOMAIN calls, KeyReturns(i) PROVE CallsMove
  BY <1>4, AwaitCarries DEF KeyReturns, CallsMove
<1> QED BY <1>1, <1>2, <1>3, <1>4 DEF KeysStep

-----------------------------------------------------------------------------
(* What any step does to the session and the calls *)

\* What a step does to the session while the page stays.
PageStays == UNCHANGED sessionVars \/ SessionStep \/ SentToLogin

\* Every step stays on its page, enters one or leaves one.
LEMMA NextSession == Next => PageStays \/ EnterPage \/ LeavePage
<1> SUFFICES ASSUME Next PROVE PageStays \/ EnterPage \/ LeavePage
  OBVIOUS
<1>1. CASE SessionStep
  BY <1>1 DEF PageStays
<1>2. CASE EnterPage
  BY <1>2
<1>3. CASE LeavePage
  BY <1>3
<1>4. CASE ClientStep
  <2>1. CASE \E l \in Lists : FetchDenied(l)
    BY <2>1 DEF FetchDenied, PageStays, SentToLogin
  <2>2. CASE \E i \in DOMAIN calls : Denied(i)
    BY <2>2 DEF Denied, PageStays, SentToLogin
  <2>3. CASE \/ \E l \in Lists : Read(l) \/ Deliver(l) \/ FetchFails(l) \/ FetchAgain(l) \/ \E x \in Items[l] : OtherWrites(l, x)
             \/ Focus
    BY <2>3 DEF Read, Deliver, FetchFails, FetchAgain, OtherWrites, Focus, PageStays
  <2>4. CASE \E i \in DOMAIN calls : Check(i) \/ Serve(i) \/ Lose(i) \/ OrphanReturns(i) \/ HandlerFails(i)
    BY <2>4 DEF Check, Serve, Lose, OrphanReturns, HandlerFails, PageStays
  <2> QED BY <1>4, <2>1, <2>2, <2>3, <2>4 DEF ClientStep
<1>5. CASE CloseDialog
  BY <1>5 DEF CloseDialog, PageStays
<1>6. CASE SettingsStep
  BY <1>6 DEF SettingsStep, selectPackage, edit, save, resetDefaults, runTask, SaveConflict, SaveReturns, TaskReturns,
              draftless, PageStays
<1>7. CASE KeysStep
  BY <1>7 DEF KeysStep, selectPackage, openEditKey, askRemoveKey, Open, renameKey, openAdd, saveEditKey, submitAdd,
              confirmRemoveKey, KeyReturns, draftRest, PageStays
<1>8. CASE ModelsStep
  BY <1>8 DEF ModelsStep, openCreate, openGroup, openMembers, saveGroup, runTest, runCheck, confirmDelete, addMember,
              toggleMember, askRemoveMember, confirmDeleteMember, runDiscover, CheckReturns, GroupReturns,
              DiscoverReturns, DiscoverGoesOn, MemberReturns, RemovalGoesOn, queriesIdle, modelsRest, PageStays
<1>9. CASE PackagesStep
  BY <1>9 DEF PackagesStep, onFileChosen, FileReturns, openUrl, typeUrl, inspectUrl, UrlReturns, confirmInstall,
              InstallReturns, toggleEnabled, ToggleReturns, askRemove, confirmRemove, RemoveReturns, pkgRest, PageStays
<1>10. CASE ListStep
  BY <1>10 DEF ListStep, setFilter, query, QueryReturns, openDetail, DetailReturns, openCreateSub, openEvict, openForm,
               SendFor, submitCreate, syncSub, removeSub, submitEvict, testTransport, SubReturns, TransportReturns,
               refreshAll, tableless, listRest, PageStays
<1> QED BY <1>1, <1>2, <1>3, <1>4, <1>5, <1>6, <1>7, <1>8, <1>9, <1>10 DEF Next

\* A step that stays does.
LEMMA StayingPage == PageStays => page' = page /\ home' = home
BY DEF PageStays, sessionVars, SentToLogin, SessionStep, Load, ProbeAnswered, ProbeLost, TurnBack, submit, SignIn,
       SignedIn, signOut, SignOff, SignedOut, Expire

\* What every step does to the session.
LEMMA NextSessionMoves == Next => SessionMoves
BY NextSession DEF PageStays, SessionMoves, EnterPage, LeavePage

\* Leaving and entering a page abandons the calls, and the history asks for its first page.
Abandons ==
  /\ page' # page
  /\ \/ sent' = sent /\ calls' = Orphans
     \/ page' = "history" /\ sent' = sent + 1 /\ calls' = With(Orphans, Query(1, "all"))

\* What every step does to the calls.
LEMMA NextCalls == CallsOK /\ TableOK /\ Next => CallsMove \/ Abandons
<1> SUFFICES ASSUME CallsOK, TableOK, Next PROVE CallsMove \/ Abandons
  OBVIOUS
<1>1. CASE UNCHANGED clientVars
  BY <1>1, CallsSame DEF clientVars, CallsMove
<1>2. CASE EnterPage
  BY <1>2 DEF EnterPage, Mount, Enter, Guarding, Abandons
<1>3. CASE LeavePage
  BY <1>3 DEF LeavePage, ShowLogin, Abandons
<1>4. CASE ClientStep
  BY <1>4, ClientCalls DEF CallsMove
<1>5. CASE CloseDialog
  BY <1>5, CallsSame DEF CloseDialog, CallsMove
<1> QED BY <1>1, <1>2, <1>3, <1>4, <1>5, SettingsCalls, KeysCalls, ModelsCalls, PackagesCalls, ListCalls DEF Next

\* What a request means where it is, and which pages send one that claims a version.
CallsAreOf == \A i \in DOMAIN calls : QueryOK(calls[i]) /\ UrlOK(calls[i]) /\ (calls[i].kind \in {"cas", "clear"} => home \in {"settings", "keys"})

\* The next call is c, the others are what cs makes of them.
LEMMA WithCalls ==
  ASSUME CallsOK, NEW cs, Carries(calls, cs), NEW c, IsCall(c), sent' = sent + 1, calls' = With(cs, c)
  PROVE  /\ CallsOK'
         /\ \A i \in DOMAIN calls' : \/ i \in DOMAIN cs /\ i \in DOMAIN calls /\ calls'[i] = cs[i] /\ Continues(calls[i], cs[i])
                                     \/ i = sent + 1 /\ i \notin DOMAIN cs /\ calls'[i] = c
<1>1. DOMAIN cs \subseteq DOMAIN calls /\ \A i \in DOMAIN cs : Continues(calls[i], cs[i])
  BY DEF Carries
<1>2. DOMAIN calls' = DOMAIN cs \cup {sent + 1} /\ \A i \in DOMAIN calls' : calls'[i] = IF i \in DOMAIN cs THEN cs[i] ELSE c
  BY DEF With
<1>3. \A i \in DOMAIN calls' : \/ i \in DOMAIN cs /\ i \in DOMAIN calls /\ calls'[i] = cs[i] /\ Continues(calls[i], cs[i])
                               \/ i = sent + 1 /\ i \notin DOMAIN cs /\ calls'[i] = c
  BY <1>1, <1>2
<1>4. \A i \in DOMAIN calls' : IsCall(calls'[i])
  BY <1>3 DEF Continues, Same
<1>5. DOMAIN calls' \subseteq 1..(sent + 1) /\ sent + 1 \in Nat
  BY <1>1, <1>2 DEF CallsOK
<1> QED BY <1>3, <1>4, <1>5 DEF CallsOK

\* Whatever a step does to the calls, they are calls.
LEMMA CallsKept == CallsOK /\ (CallsMove \/ Abandons) => CallsOK'
<1> SUFFICES ASSUME CallsOK, CallsMove \/ Abandons PROVE CallsOK'
  OBVIOUS
<1>1. ASSUME NEW cs, Carries(calls, cs), calls' = cs, sent' = sent PROVE CallsOK'
  BY <1>1 DEF CallsOK, Carries, Continues, Same
<1>2. CASE CallsCarried \/ \E i \in DOMAIN calls : Advances(i)
  BY <1>1, <1>2 DEF CallsCarried, Advances, CallsOK, Same
<1>3. ASSUME NEW c, Sends(c) PROVE CallsOK'
  BY <1>3, WithCalls, CarriesRefl DEF Sends, CallsOK
<1>4. CASE Abandons
  BY <1>1, <1>4, OrphansCarry, WithCalls, QueryCall DEF Abandons
<1> QED BY <1>2, <1>3, <1>4 DEF CallsMove

\* Only a step of the field, and leaving the page, changes the URL.
LEMMA NextUrl == Next => LeavePage \/ importUrl' = importUrl \/ importUrl' \in Items[PackageList]
<1>1. PackagesStep => importUrl' = importUrl \/ importUrl' \in Items[PackageList]
  BY DEF PackagesStep, onFileChosen, FileReturns, openUrl, typeUrl, inspectUrl, UrlReturns, confirmInstall,
         InstallReturns, toggleEnabled, ToggleReturns, askRemove, confirmRemove, RemoveReturns
<1> QED BY <1>1 DEF Next, pageVars, EnterPage

\* A request keeps its meaning as long as it is out.
LEMMA MeaningsKept == SessionOK /\ CallsOK /\ TableOK /\ CallsAreOf /\ Next => CallsAreOf'
<1> SUFFICES ASSUME SessionOK, CallsOK, TableOK, CallsAreOf, Next PROVE CallsAreOf'
  OBVIOUS
<1>1. home' = home /\ (page' = page \/ EnterPage \/ LeavePage)
  BY NextSession, StayingPage DEF EnterPage, LeavePage
<1>2. CASE page' = page
  <2>1. importUrl' # "" \/ importUrl' = importUrl
    BY <1>2, NextUrl, NamesAssumption DEF LeavePage, ShowLogin
  <2>2. CallsMove
    BY <1>2, NextCalls DEF Abandons
  <2>3. ASSUME NEW c, NEW d, Same(c, d), QueryOK(c) /\ UrlOK(c) /\ (c.kind \in {"cas", "clear"} => home \in {"settings", "keys"})
        PROVE  QueryOK(d) /\ UrlOK(d)' /\ (d.kind \in {"cas", "clear"} => home \in {"settings", "keys"})
    BY <1>2, <2>1, <2>3 DEF Same, QueryOK, UrlOK
  <2>4. CASE CallsCarried \/ \E i \in DOMAIN calls : Advances(i)
    <3>1. DOMAIN calls' \subseteq DOMAIN calls /\ \A i \in DOMAIN calls' : Same(calls[i], calls'[i])
      BY <2>4 DEF CallsCarried, Carries, Continues, Advances, CallsOK, Same
    <3> QED BY <1>1, <2>3, <3>1 DEF CallsAreOf, QueryOK, UrlOK
  <2>5. ASSUME NEW c, Sends(c) PROVE CallsAreOf'
    <3>1. QueryOK(c) /\ UrlOK(c) /\ (c.kind \in {"cas", "clear"} => home \in {"settings", "keys"})
      BY <2>5, PagesAssumption DEF Sends, SessionOK
    <3>2. QueryOK(c) /\ UrlOK(c)' /\ (c.kind \in {"cas", "clear"} => home \in {"settings", "keys"})
      BY <1>2, <2>1, <3>1 DEF UrlOK
    <3>3. \A i \in DOMAIN calls' : calls'[i] = c \/ (i \in DOMAIN calls /\ Continues(calls[i], calls'[i]))
      BY <2>5, WithCalls, CarriesRefl DEF Sends, CallsOK
    <3> QED BY <1>1, <2>3, <3>2, <3>3 DEF CallsAreOf, QueryOK, UrlOK, Continues
  <2> QED BY <2>2, <2>4, <2>5 DEF CallsMove
<1>3. CASE EnterPage \/ LeavePage
  <2> DEFINE c == Query(1, "all")
  <2>1. IsCall(c) /\ c.op = "query" /\ c.kind = "ask" /\ c.item = "all" /\ c.base = 1
    BY QueryCall
  <2> HIDE DEF c
  <2>2. calls' = Orphans \/ (sent' = sent + 1 /\ calls' = With(Orphans, c))
    BY <1>3 DEF EnterPage, LeavePage, Mount, c
  <2>3. ASSUME NEW i \in DOMAIN calls'
        PROVE  calls'[i] = c \/ (i \in DOMAIN calls /\ Continues(calls[i], calls'[i]) /\ calls'[i].op = "orphan")
    BY <2>1, <2>2, <2>3, OrphansCarry, WithCalls DEF Carries
  <2>4. ASSUME NEW i \in DOMAIN calls' PROVE calls'[i].op # "url" /\ QueryOK(calls'[i]) /\ (calls'[i].kind \in {"cas", "clear"} => home \in {"settings", "keys"})
    BY <2>1, <2>3, <2>4, HistoryAssumption DEF QueryOK, Continues, Same, CallsAreOf
  <2> QED BY <1>1, <2>4 DEF CallsAreOf, QueryOK, UrlOK
<1> QED BY <1>1, <1>2, <1>3

-----------------------------------------------------------------------------
(* The history *)

\* The first row of a page of the history.
LEMMA FirstRow ==
  ASSUME NEW f \in DOMAIN Entries, NEW n \in Nat \ {0}
  PROVE  LET h == HistoryOf(f, n) IN
         h.total = Entries[f] /\ (h.rows # <<>> => h.rows[1][1] = f /\ h.rows[1][2] = (n - 1) * PageSize + 1)
<1> DEFINE from == (n - 1) * PageSize
           last == IF Entries[f] < from + PageSize THEN Entries[f] ELSE from + PageSize
           rows == [m \in 1..(last - from) |-> <<f, from + m>>]
<1>1. HistoryOf(f, n).total = Entries[f] /\ HistoryOf(f, n).rows = rows
  BY DEF HistoryOf
<1>2. from \in Int /\ last \in Int
  <2>1. n - 1 \in Int /\ PageSize \in Int /\ Entries[f] \in Int
    BY HistoryAssumption
  <2>2. from \in Int
    BY <2>1
  <2> HIDE DEF from
  <2> QED BY <2>1, <2>2
<1> HIDE DEF from, last
<1>3. CASE last - from >= 1
  <2>1. 1 \in 1..(last - from)
    BY <1>2, <1>3
  <2>2. rows[1] = <<f, from + 1>>
    BY <2>1
  <2> QED BY <1>1, <2>2 DEF from
<1>4. CASE ~(last - from >= 1)
  <2>1. 1..(last - from) = {}
    BY <1>2, <1>4
  <2>2. rows = <<>>
    BY <2>1
  <2> QED BY <1>1, <2>2
<1> QED BY <1>3, <1>4

\* Every step leaves a history of one answer.
LEMMA TableKept == CallsAreOf /\ TableOK /\ Next => TableOK'
<1> SUFFICES ASSUME CallsAreOf, TableOK, Next PROVE TableOK'
  OBVIOUS
<1>1. CASE UNCHANGED table
  BY <1>1 DEF TableOK, PageMatchesRows
<1>2. CASE LeavePage
  BY <1>2, HistoryAssumption DEF LeavePage, NoTable, TableOK, PageMatchesRows
<1>3. CASE \E f \in DOMAIN Entries : setFilter(f)
  BY <1>3 DEF setFilter, TableOK, PageMatchesRows
<1>4. ASSUME NEW n, query(n) PROVE TableOK'
  BY <1>1, <1>4 DEF query
<1>5. ASSUME NEW n, openDetail(n) PROVE TableOK'
  BY <1>5 DEF openDetail, TableOK, PageMatchesRows
<1>6. ASSUME NEW i \in DOMAIN calls, QueryReturns(i) PROVE TableOK'
  <2> DEFINE f == calls[i].item
             n == calls[i].base
             h == HistoryOf(f, n)
  <2>1. f \in DOMAIN Entries /\ n \in Nat \ {0}
    BY <1>6 DEF QueryReturns, Answered, CallsAreOf, QueryOK
  <2>2. table' = [table EXCEPT !.rows = h.rows, !.total = h.total, !.page = n]
    BY <1>6 DEF QueryReturns
  <2>3. h.total = Entries[f] /\ (h.rows # <<>> => h.rows[1][1] = f /\ h.rows[1][2] = (n - 1) * PageSize + 1)
    BY <2>1, FirstRow
  <2> HIDE DEF h, f, n
  <2> QED BY <2>2, <2>3 DEF TableOK, PageMatchesRows
<1>7. ASSUME NEW i \in DOMAIN calls, DetailReturns(i) PROVE TableOK'
  BY <1>7 DEF DetailReturns, TableOK, PageMatchesRows
<1>8. ASSUME NEW i \in DOMAIN calls, SubReturns(i) \/ TransportReturns(i) PROVE TableOK'
  BY <1>1, <1>8 DEF SubReturns, TransportReturns, tableless
<1>9. CASE ListStep
  <2>1. CASE openCreateSub \/ submitCreate \/ submitEvict \/ refreshAll
    BY <1>1, <2>1 DEF openCreateSub, openForm, submitCreate, submitEvict, SendFor, refreshAll, tableless
  <2>2. ASSUME NEW x, syncSub(x) \/ removeSub(x) \/ openEvict(x) \/ testTransport(x) PROVE TableOK'
    BY <1>1, <2>2 DEF syncSub, removeSub, openEvict, openForm, testTransport, SendFor, tableless
  <2> QED BY <1>3, <1>4, <1>5, <1>6, <1>7, <1>8, <1>9, <2>1, <2>2 DEF ListStep
<1> QED BY <1>1, <1>2, <1>9 DEF Next, pageVars, EnterPage

-----------------------------------------------------------------------------
(* The summary *)

\* A dialog, as the pages open it.
IsDialog(d) == d = [kind |-> d.kind, item |-> d.item, seen |-> d.seen, result |-> d.result]
\* A dialog that is not a summary.
Plain(d) == IsDialog(d) /\ d.kind # "confirm"

\* A summary is shown on the page of the packages only.
DialogOK ==
  /\ IsDialog(dialog) /\ (dialog.kind = "confirm" => page = "packages")
  /\ SummaryIsOfPending

\* Any other dialog is plain.
LEMMA PlainNew ==
  ASSUME NEW k, k # "confirm", NEW x, NEW y, NEW z PROVE Plain([kind |-> k, item |-> x, seen |-> y, result |-> z])
BY DEF Plain, IsDialog

\* No dialog is plain.
LEMMA PlainNo == Plain(NoDialog)
BY PlainNew DEF NoDialog

\* A dialog that a handler opens.
LEMMA PlainOpened ==
  ASSUME NEW k, k # "confirm", NEW x,
         dialog' = [NoDialog EXCEPT !.kind = k] \/ dialog' = [NoDialog EXCEPT !.kind = k, !.item = x]
  PROVE  Plain(dialog')
BY DEF NoDialog, Plain, IsDialog

\* A field of a plain dialog changes.
LEMMA PlainChange ==
  ASSUME IsDialog(dialog), NEW k, k # "confirm", NEW x, NEW y, NEW z,
         \/ dialog' = [dialog EXCEPT !.kind = k, !.result = z, !.seen = y]
         \/ dialog.kind # "confirm" /\ (dialog' = [dialog EXCEPT !.item = x] \/ dialog' = [dialog EXCEPT !.result = x])
  PROVE  Plain(dialog')
BY DEF Plain, IsDialog

\* A handler of a page without summaries leaves the dialog or opens a plain one.
LEMMA PlainOpen ==
  ASSUME NEW k, k # "confirm", NEW x, NEW y, OpenDialog(k, x) \/ Open(k, x, y) \/ openForm(k, x)
  PROVE  Plain(dialog')
<1>1. CASE OpenDialog(k, x)
  BY <1>1, PlainNew DEF OpenDialog
<1>2. CASE Open(k, x, y)
  BY <1>2, PlainNew DEF Open
<1>3. CASE openForm(k, x)
  BY <1>3, PlainOpened DEF openForm
<1> QED BY <1>1, <1>2, <1>3

\* A plain dialog is in order.
LEMMA PlainKept == Plain(dialog') => DialogOK'
BY DEF Plain, DialogOK, SummaryIsOfPending

\* The handlers of the page of the packages.
LEMMA PackagesDialog == CallsAreOf /\ DialogOK /\ page = "packages" /\ page' = page /\ PackagesStep => DialogOK'
<1> SUFFICES ASSUME CallsAreOf, DialogOK, page = "packages", page' = page, PackagesStep PROVE DialogOK'
  OBVIOUS
<1>1. CASE UNCHANGED <<dialog, pending>>
  BY <1>1 DEF DialogOK, SummaryIsOfPending
<1>2. CASE UNCHANGED pending /\ dialog' \in {dialog, NoDialog}
  BY <1>1, <1>2, PlainNew, PlainNo, PlainChange, PlainKept DEF DialogOK
<1>3. ASSUME NEW p, onFileChosen(p) \/ typeUrl(p) \/ toggleEnabled(p) \/ askRemove(p) PROVE DialogOK'
  <2>1. CASE askRemove(p)
    <3>1. dialog' = [NoDialog EXCEPT !.kind = "removePackage", !.item = p]
      BY <2>1 DEF askRemove
    <3>2. "removePackage" # "confirm"
      OBVIOUS
    <3> QED BY <3>1, <3>2, PlainOpened, PlainKept
  <2> QED BY <1>1, <1>3, <2>1 DEF onFileChosen, typeUrl, toggleEnabled
<1>4. CASE openUrl
  <2>1. dialog' = [NoDialog EXCEPT !.kind = "url"] /\ "url" # "confirm"
    BY <1>4 DEF openUrl
  <2> QED BY <2>1, PlainOpened, PlainKept
<1>5. CASE inspectUrl \/ confirmInstall \/ confirmRemove
  BY <1>1, <1>5 DEF inspectUrl, confirmInstall, confirmRemove
<1>6. ASSUME NEW i \in DOMAIN calls, FileReturns(i) PROVE DialogOK'
  BY <1>6 DEF FileReturns, Confirm, DialogOK, IsDialog, SummaryIsOfPending
<1>7. ASSUME NEW i \in DOMAIN calls, UrlReturns(i) PROVE DialogOK'
  <2>1. importUrl # ""
    BY <1>7 DEF UrlReturns, Answered, CallsAreOf, UrlOK
  <2> QED BY <1>7, <2>1 DEF UrlReturns, Confirm, DialogOK, IsDialog, SummaryIsOfPending
<1>8. ASSUME NEW i \in DOMAIN calls, InstallReturns(i) \/ ToggleReturns(i) \/ RemoveReturns(i) PROVE DialogOK'
  BY <1>2, <1>8 DEF InstallReturns, ToggleReturns, RemoveReturns
<1> QED BY <1>3, <1>4, <1>5, <1>6, <1>7, <1>8 DEF PackagesStep

\* No step elsewhere opens a summary.
LEMMA ClientDialog == DialogOK /\ (ClientStep \/ CloseDialog) => dialog' = dialog \/ Plain(dialog')
BY PlainNew, PlainNo, PlainChange DEF ClientStep, Read, Deliver, FetchDenied, FetchFails, GiveUp, FetchAgain, OtherWrites, Focus, Check, Serve,
   Lose, Denied, OrphanReturns, HandlerFails, CloseDialog, DialogOK

\* Those of the settings and the keys.
LEMMA SettingsDialog == DialogOK /\ (SettingsStep \/ KeysStep) => dialog' = dialog \/ Plain(dialog')
<1> SUFFICES ASSUME DialogOK, SettingsStep \/ KeysStep PROVE dialog' = dialog \/ Plain(dialog')
  OBVIOUS
<1>1. CASE SettingsStep
  BY <1>1 DEF SettingsStep, selectPackage, edit, save, resetDefaults, runTask, SaveConflict, SaveReturns, TaskReturns, draftless
<1>2. ASSUME NEW k, openEditKey(k) \/ askRemoveKey(k) \/ openAdd PROVE Plain(dialog')
  BY <1>2, PlainOpen DEF openEditKey, askRemoveKey, openAdd
<1>3. ASSUME NEW k, renameKey(k) PROVE Plain(dialog')
  <2>1. dialog' = [dialog EXCEPT !.item = k] /\ dialog.kind # "confirm"
    BY <1>3 DEF renameKey
  <2> QED BY <2>1, PlainChange DEF DialogOK
<1>4. ASSUME NEW i, KeyReturns(i) PROVE dialog' = dialog \/ Plain(dialog')
  BY <1>4, PlainNew, PlainNo, PlainChange DEF KeyReturns, DialogOK
<1>5. CASE KeysStep
  BY <1>2, <1>3, <1>4, <1>5 DEF KeysStep, selectPackage, saveEditKey, submitAdd, confirmRemoveKey
<1> QED BY <1>1, <1>5

\* Those of the groups.
LEMMA ModelsDialog == DialogOK /\ page # "packages" /\ ModelsStep => dialog' = dialog \/ Plain(dialog')
<1> SUFFICES ASSUME DialogOK, page # "packages", ModelsStep PROVE dialog' = dialog \/ Plain(dialog')
  OBVIOUS
<1>0. Plain(dialog)
  BY DEF DialogOK, Plain
<1>1. CASE openCreate \/ saveGroup \/ confirmDelete \/ confirmDeleteMember
  BY <1>1, PlainOpen DEF openCreate, saveGroup, confirmDelete, confirmDeleteMember
<1>2. ASSUME NEW g, openMembers(g) \/ runTest(g) PROVE dialog' = dialog \/ Plain(dialog')
  BY <1>2, PlainOpen DEF openMembers, runTest
<1>3. ASSUME NEW kind \in Checks \cup {"group", "discover", "removeGroup"}, NEW g, openGroup(kind, g) PROVE Plain(dialog')
  <2>1. kind # "confirm"
    BY ChecksAssumption
  <2> QED BY <1>3, <2>1, PlainOpen DEF openGroup
<1>4. ASSUME NEW op, runCheck(op) PROVE dialog' = dialog
  BY <1>4 DEF runCheck
<1>5. ASSUME NEW m, addMember(m) \/ toggleMember(m) \/ askRemoveMember(m) PROVE dialog' = dialog \/ Plain(dialog')
  BY <1>5, PlainNew, PlainNo, PlainChange DEF addMember, toggleMember, askRemoveMember, DialogOK
<1>6. ASSUME NEW apply \in BOOLEAN, runDiscover(apply) PROVE dialog' = dialog \/ Plain(dialog')
  BY <1>0, <1>6, PlainNew, PlainNo, PlainChange DEF runDiscover, Plain
<1>7. ASSUME NEW i \in DOMAIN calls,
             \/ CheckReturns(i) \/ GroupReturns(i) \/ DiscoverReturns(i) \/ DiscoverGoesOn(i)
             \/ MemberReturns(i) \/ RemovalGoesOn(i)
      PROVE  dialog' = dialog \/ Plain(dialog')
  <2>1. CASE \/ dialog' \in {dialog, NoDialog}
             \/ \E x : dialog' = [dialog EXCEPT !.result = x]
             \/ dialog' = [dialog EXCEPT !.kind = "members", !.result = "", !.seen = <<>>]
    <3>1. IsDialog(dialog) /\ dialog.kind # "confirm" /\ "members" # "confirm"
      BY <1>0 DEF Plain
    <3> QED BY <2>1, <3>1, PlainNo, PlainChange
  <2>2. CASE CheckReturns(i) \/ DiscoverReturns(i)
    BY <2>1, <2>2 DEF CheckReturns, DiscoverReturns
  <2>3. CASE GroupReturns(i) \/ DiscoverGoesOn(i) \/ RemovalGoesOn(i)
    BY <2>1, <2>3 DEF GroupReturns, DiscoverGoesOn, RemovalGoesOn
  <2>4. CASE MemberReturns(i)
    BY <2>1, <2>4 DEF MemberReturns
  <2> QED BY <1>7, <2>2, <2>3, <2>4
<1> QED BY <1>1, <1>2, <1>3, <1>4, <1>5, <1>6, <1>7 DEF ModelsStep

\* Those of the lists.
LEMMA ListDialog == DialogOK /\ ListStep => dialog' = dialog \/ Plain(dialog')
<1> SUFFICES ASSUME DialogOK, ListStep PROVE dialog' = dialog \/ Plain(dialog')
  OBVIOUS
<1>1. ASSUME NEW kind, kind # "confirm", NEW x, openForm(kind, x) PROVE Plain(dialog')
  BY <1>1, PlainOpen
<1>2. CASE openCreateSub \/ submitCreate \/ submitEvict \/ refreshAll
  BY <1>1, <1>2 DEF openCreateSub, submitCreate, submitEvict, SendFor, refreshAll
<1>3. ASSUME NEW x, syncSub(x) \/ removeSub(x) \/ openEvict(x) \/ testTransport(x) PROVE dialog' = dialog \/ Plain(dialog')
  BY <1>1, <1>3 DEF syncSub, removeSub, openEvict, testTransport, SendFor
<1>4. ASSUME NEW n, setFilter(n) \/ query(n) \/ openDetail(n) PROVE dialog' = dialog
  BY <1>4 DEF setFilter, query, openDetail
<1>5. ASSUME NEW i, QueryReturns(i) \/ DetailReturns(i) \/ SubReturns(i) \/ TransportReturns(i)
      PROVE  dialog' = dialog \/ Plain(dialog')
  BY <1>5, PlainNew, PlainNo, PlainChange DEF QueryReturns, DetailReturns, SubReturns, TransportReturns, DialogOK
<1> QED BY <1>2, <1>3, <1>4, <1>5 DEF ListStep

\* Every step leaves a summary of what is pending.
LEMMA DialogKept == SessionOK /\ CallsAreOf /\ DialogOK /\ Next => DialogOK'
<1> SUFFICES ASSUME SessionOK, CallsAreOf, DialogOK, Next PROVE DialogOK'
  OBVIOUS
<1>1. CASE EnterPage \/ LeavePage
  <2>1. CASE dialog' = NoDialog
    BY <2>1, PlainNo, PlainKept
  <2>2. CASE EnterPage /\ Route = "history"
    <3>1. dialog' = dialog /\ pending' = pending /\ Route \in Pages /\ page # Route
      BY <2>2 DEF EnterPage, pageVars, Enter, Guarding
    <3>2. page \in {"none", "login", "history"} /\ page # "packages"
      BY <2>2, <3>1, HeadTailProperties, PagesAssumption DEF SessionOK, Route
    <3> QED BY <3>1, <3>2 DEF DialogOK, SummaryIsOfPending
  <2> QED BY <1>1, <2>1, <2>2 DEF EnterPage, LeavePage, Mount
<1>2. CASE PageStays
  <2>1. page' = page
    BY <1>2, StayingPage
  <2>2. CASE pending' = pending /\ (dialog' = dialog \/ Plain(dialog'))
    BY <2>1, <2>2, PlainKept DEF DialogOK, SummaryIsOfPending
  <2>3. CASE SessionStep /\ UNCHANGED <<clientVars, pageVars>>
    BY <2>2, <2>3 DEF clientVars, pageVars
  <2> QED BY <1>1, <2>1, <2>2, <2>3, PackagesDialog, ClientDialog, SettingsDialog, ModelsDialog, ListDialog DEF Next, pageVars
<1> QED BY <1>1, <1>2, NextSession

-----------------------------------------------------------------------------
(* What holds whatever is written *)

\* What holds of session, requests, history and dialogs, whatever is written to the lists.
Base == SessionOK /\ CallsOK /\ CallsAreOf /\ TableOK /\ DialogOK

\* Base holds at first.
LEMMA BaseInit == Init => Base
<1> SUFFICES ASSUME Init PROVE Base
  OBVIOUS
<1>1. SessionOK
  <2>1. hash = <<home>> /\ home \in Pages /\ cookie \in BOOLEAN /\ principal = FALSE /\ signing = "no" /\ page = "none" /\ probe = "none"
    BY DEF Init, SessionInit
  <2>2. hash \in Seq({"login", home}) /\ hash # <<>>
    BY <2>1
  <2> QED BY <2>1, <2>2 DEF SessionOK
<1>2. CallsOK /\ CallsAreOf
  <2>1. calls = <<>> /\ sent = 0
    BY DEF Init, ClientInit
  <2>2. DOMAIN calls = {}
    BY <2>1
  <2> QED BY <2>1, <2>2 DEF CallsOK, CallsAreOf
<1>3. TableOK
  BY HistoryAssumption DEF Init, NoTable, TableOK, PageMatchesRows
<1>4. DialogOK
  BY DEF Init, ClientInit, NoDialog, DialogOK, IsDialog, SummaryIsOfPending
<1> QED BY <1>1, <1>2, <1>3, <1>4 DEF Base

\* Every step keeps Base.
LEMMA BaseKept == Base /\ [Next]_vars => Base'
<1> SUFFICES ASSUME Base, [Next]_vars PROVE Base'
  OBVIOUS
<1>1. CASE Next
  <2>1. CallsMove \/ Abandons
    BY <1>1, NextCalls DEF Base
  <2> QED BY <1>1, <2>1, NextSessionMoves, SessionKept, CallsKept, MeaningsKept, TableKept, DialogKept DEF Base
<1>2. CASE UNCHANGED vars
  <2>1. UNCHANGED <<sessionVars, dialog, handlers, importUrl, pending, table>>
    BY <1>2 DEF vars, clientVars
  <2>2. UNCHANGED <<home, page, calls, sent>> /\ SessionMoves
    BY <2>1 DEF sessionVars, handlers, SessionMoves
  <2>3. CallsOK' /\ CallsAreOf' /\ TableOK' /\ DialogOK'
    BY <2>1, <2>2 DEF Base, CallsOK, CallsAreOf, QueryOK, UrlOK, TableOK, PageMatchesRows, DialogOK, SummaryIsOfPending
  <2> QED BY <2>2, <2>3, SessionKept DEF Base
<1> QED BY <1>1, <1>2

\* Whatever the pages do, the parts of the state that do not depend on what is written keep their meaning.
THEOREM BaseHolds == Spec => []Base
BY BaseInit, BaseKept, PTL DEF Spec

\* The page number, the rows and the total of the history are of one answer.
THEOREM HistoryIsOfOneAnswer == Spec => []PageMatchesRows
BY BaseHolds, PTL DEF Base, TableOK

\* What the button installs is the file the summary was made of, or a URL and no file;
\* not necessarily the URL that was inspected.
THEOREM SummaryIsInstalled == Spec => []SummaryIsOfPending
BY BaseHolds, PTL DEF Base, DialogOK

\* A step of the session turns nobody back whom the server knows, unless the question was lost.
LEMMA TurnedBack ==
  ASSUME SessionOK, SessionMoves, probe # "none", probe' = probe, Route \in Pages, hash' = <<"login">> \o hash
  PROVE  ~cookie \/ probe = "lost"
<1> SUFFICES ASSUME cookie, probe # "lost" PROVE FALSE
  OBVIOUS
<1>1. signing # "ok" /\ (probe = "out" => principal)
  BY PagesAssumption DEF SessionOK
<1>2. hash' # hash
  BY LongerRoute DEF SessionOK
<1>3. probe' # "none"
  OBVIOUS
<1> QED BY <1>1, <1>2, <1>3
     DEF SessionMoves, sessionVars, SentToLogin, Unauthorized, Reset, SessionStep, Load, ProbeAnswered, ProbeLost, TurnBack,
         submit, SignIn, SignedIn, signOut, SignOff, SignedOut, Expire

\* The guard turns nobody back whom the server knows, but one whose question about it was
\* lost: that is remembered as signed out until he signs in.
THEOREM NobodyIsTurnedBack == Spec => SentBackOnlySignedOut
<1>1. Base /\ [Next]_vars => [probe # "none" /\ probe' = probe /\ Route \in Pages /\ hash' = <<"login">> \o hash
                                => ~cookie \/ probe = "lost"]_vars
  BY TurnedBack, NextSessionMoves DEF Base
<1> QED BY <1>1, BaseHolds, PTL DEF Spec, SentBackOnlySignedOut

-----------------------------------------------------------------------------
(* The server *)

\* Revisions are moments up to now, and of two lists never the same.
ServerOK ==
  /\ clock \in Nat
  /\ server = [l \in Lists |-> [x \in Items[l] |-> server[l][x]]]
  /\ \A l \in Lists : \A x \in Items[l] : server[l][x] \in 0..clock
  /\ \A l, m \in Lists : \A x \in Items[l], y \in Items[m] :
       l # m /\ server[l][x] = server[m][y] => server[l][x] = 0

\* Something of list t is written.
Writing(t) ==
  /\ clock' = clock + 1
  /\ server' = [l \in Lists |-> [x \in Items[l] |-> server'[l][x]]]
  /\ \A l \in Lists : \A x \in Items[l] :
       server'[l][x] \in {server[l][x], 0} \/ (l = t /\ server'[l][x] = clock + 1)

\* What a step does to the lists of the server.
ServerMoves == UNCHANGED <<server, clock>> \/ \E t : Writing(t)

\* Writing for a call is writing to its list.
LEMMA AfterWrites == ASSUME NEW c, server' = After(c), clock' = clock + 1 PROVE ServerMoves
<1>1. server' = [l \in Lists |-> [x \in Items[l] |-> server'[l][x]]]
  BY DEF After
<1>2. ASSUME NEW l \in Lists, NEW x \in Items[l]
      PROVE  server'[l][x] \in {server[l][x], 0} \/ (l = c.list /\ server'[l][x] = clock + 1)
  BY DEF After
<1>3. Writing(c.list)
  BY <1>1, <1>2 DEF Writing
<1> QED BY <1>3 DEF ServerMoves

\* Someone else writes to one list.
LEMMA OtherWritesWrites == ASSUME ServerOK, NEW l \in Lists, NEW x \in Items[l], OtherWrites(l, x) PROVE Writing(l)
<1>1. server' = [server EXCEPT ![l][x] = clock + 1] /\ clock' = clock + 1
  BY DEF OtherWrites
<1>2. \A m \in Lists : \A y \in Items[m] : server'[m][y] = IF m = l /\ y = x THEN clock + 1 ELSE server[m][y]
  BY <1>1 DEF ServerOK
<1>3. server' = [m \in Lists |-> [y \in Items[m] |-> server'[m][y]]]
  BY <1>1 DEF ServerOK
<1> QED BY <1>1, <1>2, <1>3 DEF Writing

\* The steps that write.
Written == (\E l \in Lists : \E x \in Items[l] : OtherWrites(l, x)) \/ \E i \in DOMAIN calls : Serve(i) \/ Lose(i)

\* Only the steps of Written write.
LEMMA NextServer == Next => UNCHANGED <<server, clock>> \/ Written
<1> SUFFICES ASSUME Next PROVE UNCHANGED <<server, clock>> \/ Written
  OBVIOUS
<1>1. CASE SessionStep /\ UNCHANGED <<clientVars, pageVars>>
  BY <1>1 DEF clientVars
<1>2. CASE EnterPage \/ LeavePage \/ CloseDialog
  BY <1>2 DEF EnterPage, Mount, LeavePage, CloseDialog
<1>3. CASE ClientStep
  BY <1>3 DEF ClientStep, Written, Read, Deliver, FetchDenied, FetchFails, GiveUp, FetchAgain, Focus, Check, Denied,
              OrphanReturns, HandlerFails
<1>4. CASE SettingsStep
  BY <1>4 DEF SettingsStep, selectPackage, edit, save, resetDefaults, runTask, SaveConflict, SaveReturns, TaskReturns,
              draftless
<1>5. CASE KeysStep
  BY <1>5 DEF KeysStep, selectPackage, openEditKey, askRemoveKey, Open, renameKey, openAdd, saveEditKey, submitAdd,
              confirmRemoveKey, KeyReturns, draftRest
<1>6. CASE ModelsStep
  BY <1>6 DEF ModelsStep, openCreate, openGroup, openMembers, saveGroup, runTest, runCheck, confirmDelete, addMember,
              toggleMember, askRemoveMember, confirmDeleteMember, runDiscover, CheckReturns, GroupReturns,
              DiscoverReturns, DiscoverGoesOn, MemberReturns, RemovalGoesOn, queriesIdle, modelsRest
<1>7. CASE PackagesStep
  BY <1>7 DEF PackagesStep, onFileChosen, FileReturns, openUrl, typeUrl, inspectUrl, UrlReturns, confirmInstall,
              InstallReturns, toggleEnabled, ToggleReturns, askRemove, confirmRemove, RemoveReturns, pkgRest
<1>8. CASE ListStep
  BY <1>8 DEF ListStep, setFilter, query, QueryReturns, openDetail, DetailReturns, openCreateSub, openEvict, openForm,
              SendFor, submitCreate, syncSub, removeSub, submitEvict, testTransport, SubReturns, TransportReturns,
              refreshAll, tableless, listRest
<1> QED BY <1>1, <1>2, <1>3, <1>4, <1>5, <1>6, <1>7, <1>8 DEF Next

\* What every step does to the server.
LEMMA NextServerMoves == ServerOK /\ Next => ServerMoves
<1> SUFFICES ASSUME ServerOK, Next PROVE ServerMoves
  OBVIOUS
<1>1. ASSUME NEW i \in DOMAIN calls, Serve(i) \/ Lose(i) PROVE ServerMoves
  BY <1>1, AfterWrites DEF Serve, Lose, ServerMoves
<1> QED BY <1>1, NextServer, OtherWritesWrites DEF Written, ServerMoves

\* A write leaves revisions up to now, each of one list.
LEMMA ServerKept == ServerOK /\ ServerMoves /\ home' = home => ServerOK'
<1> SUFFICES ASSUME ServerOK, ServerMoves, home' = home PROVE ServerOK'
  OBVIOUS
<1>0. Lists' = Lists
  BY DEF Lists
<1>1. CASE UNCHANGED <<server, clock>>
  <2>1. server' = server /\ clock' = clock
    BY <1>1
  <2>2. server' = [l \in Lists' |-> [x \in Items[l] |-> server'[l][x]]]
    <3>1. server = [l \in Lists |-> [x \in Items[l] |-> server[l][x]]]
      BY DEF ServerOK
    <3> QED BY <1>0, <2>1, <3>1, Zenon
  <2>3. /\ clock' \in Nat
        /\ \A l \in Lists' : \A x \in Items[l] : server'[l][x] \in 0..clock'
        /\ \A l, m \in Lists' : \A x \in Items[l], y \in Items[m] :
             l # m /\ server'[l][x] = server'[m][y] => server'[l][x] = 0
    <3>1. /\ clock \in Nat
          /\ \A l \in Lists : \A x \in Items[l] : server[l][x] \in 0..clock
          /\ \A l, m \in Lists : \A x \in Items[l], y \in Items[m] :
               l # m /\ server[l][x] = server[m][y] => server[l][x] = 0
      BY DEF ServerOK
    <3> HIDE DEF ServerOK
    <3> QED BY <1>0, <2>1, <3>1
  <2> QED BY <2>2, <2>3, Zenon DEF ServerOK
<1>2. ASSUME NEW t, Writing(t) PROVE ServerOK'
  <2>1. clock' \in Nat /\ clock' = clock + 1
    BY <1>2 DEF Writing, ServerOK
  <2>2. \A l \in Lists : \A x \in Items[l] : server'[l][x] \in 0..clock'
    <3> TAKE l \in Lists
    <3> TAKE x \in Items[l]
    <3>1. server[l][x] \in 0..clock /\ clock \in Nat
      BY DEF ServerOK
    <3>2. server'[l][x] \in {server[l][x], 0, clock + 1}
      BY <1>2 DEF Writing
    <3> QED BY <2>1, <3>1, <3>2
  <2>3. ASSUME NEW l \in Lists, NEW m \in Lists, NEW x \in Items[l], NEW y \in Items[m],
               l # m, server'[l][x] = server'[m][y], server'[l][x] # 0
        PROVE  FALSE
    <3>1. server[l][x] \in 0..clock /\ server[m][y] \in 0..clock /\ clock \in Nat
      BY DEF ServerOK
    <3>2. server'[l][x] = server[l][x] \/ (l = t /\ server'[l][x] = clock + 1)
      BY <1>2, <2>3 DEF Writing
    <3>3. server'[m][y] = server[m][y] \/ (m = t /\ server'[m][y] = clock + 1)
      BY <1>2, <2>3 DEF Writing
    <3>4. server[l][x] = server[m][y] => server[l][x] = 0
      BY <2>3 DEF ServerOK
    <3> QED BY <2>3, <3>1, <3>2, <3>3, <3>4
  <2> QED BY <1>0, <1>2, <2>1, <2>2, <2>3 DEF ServerOK, Writing
<1> QED BY <1>1, <1>2 DEF ServerMoves

\* Item x of list l is not of revision r any more, and never will be again.
Stale(l, x, r) == l \in Lists /\ x \in Items[l] /\ r \in 1..clock /\ server[l][x] # r

\* No other list has anything of revision r, nor will it have.
Owned(l, r) == r \in 1..clock /\ \A m \in Lists \ {l} : \A x \in Items[m] : server[m][x] # r

\* A version that has been overwritten never comes back.
LEMMA StaleForGood ==
  ASSUME ServerOK, ServerMoves, home' = home, NEW l, NEW x, NEW r, Stale(l, x, r)
  PROVE  Stale(l, x, r)'
<1>1. Lists' = Lists /\ clock \in Nat
  BY DEF Lists, ServerOK
<1> QED BY <1>1 DEF Stale, ServerMoves, Writing

\* A revision that is of no other list never will be.
LEMMA OwnedForGood ==
  ASSUME ServerOK, ServerMoves, home' = home, NEW l, NEW r, Owned(l, r)
  PROVE  Owned(l, r)'
<1>1. Lists' = Lists /\ clock \in Nat
  BY DEF Lists, ServerOK
<1> QED BY <1>1 DEF Owned, ServerMoves, Writing

\* What is stored in a list is owned by it.
LEMMA StoredIsOwned ==
  ASSUME ServerOK, NEW l \in Lists, NEW x \in Items[l], server[l][x] # 0
  PROVE  Owned(l, server[l][x])
BY DEF ServerOK, Owned

-----------------------------------------------------------------------------
(* The cache *)

\* A query of the cache.
IsQuery(q) == DOMAIN q = {"data", "fetch", "of", "answer", "error", "excused", "joined"}

\* What a query has fetched.
IsData(d) == d = <<[of |-> d[1].of, rows |-> d[1].rows]>>

\* Every list has a query, which has fetched nothing or an answer of the server.
CacheOK ==
  /\ cache = [l \in Lists |-> cache[l]]
  /\ \A l \in Lists :
       /\ IsQuery(cache[l]) /\ cache[l].fetch \in {"idle", "asked", "answered"}
       /\ cache[l].data # None => IsData(cache[l].data)
       /\ cache[l].fetch = "answered" => IsData(cache[l].answer)

\* The query goes on as it was.
Kept(q, r) ==
  /\ r.fetch = q.fetch /\ r.of = q.of /\ r.data = q.data /\ r.answer = q.answer /\ r.error = q.error
  /\ (q.excused => r.excused) /\ (q.joined => r.joined)

\* It is asked from now.
Begun(q, r) ==
  /\ r.fetch = "asked" /\ r.data = q.data /\ (r.error <=> q.error /\ q.data # None)
  /\ q.fetch = "idle" \/ q.data # None

\* It came back with what the server has.
Got(q, r) ==
  /\ q.fetch = "asked" /\ r.fetch = "answered" /\ r.of = q.of /\ r.data = q.data /\ r.error = q.error
  /\ r.answer = <<[of |-> q.of, rows |-> server[q.of]]>>

\* The answer has come.
Came(q, r) ==
  /\ q.fetch = "answered" /\ r.fetch = "idle" /\ r.of = q.of /\ r.data = q.answer /\ r.error = FALSE
  /\ (q.excused => r.excused) /\ (q.joined => r.joined)
\* The fetch has failed.
Gone(q, r) == q.fetch = "asked" /\ r.fetch = "idle" /\ r.data = q.data /\ r.error = TRUE
\* The fetch is tried again.
Again(q, r) == q.fetch = "asked" /\ r.fetch = "asked" /\ r.data = q.data /\ r.error = q.error

\* What the query of list l asks for.
AsksOK(l, of) ==
  /\ home # "keys" => of = l
  /\ home = "keys" => of \in {l, KeysOf(subject')}

\* What a step may do to the query of l.
Moved(l, q, r) ==
  /\ IsQuery(r)
  /\ Kept(q, r) \/ (Begun(q, r) /\ AsksOK(l, r.of)) \/ Got(q, r) \/ Came(q, r) \/ Gone(q, r) \/ (Again(q, r) /\ AsksOK(l, r.of))

\* What a step does to the cache.
CacheMoves == cache' = [l \in Lists |-> cache'[l]] /\ \A l \in Lists : Moved(l, cache[l], cache'[l])

\* Nothing happened to the cache.
LEMMA CacheSame == CacheOK /\ UNCHANGED cache => CacheMoves
BY DEF CacheOK, CacheMoves, Moved, Kept

\* The query of one list moves.
LEMMA OneMoves ==
  ASSUME CacheOK, NEW l, DOMAIN cache' = DOMAIN cache, \A m \in DOMAIN cache : m # l => cache'[m] = cache[m],
         cache' = [m \in DOMAIN cache' |-> cache'[m]], l \in Lists => Moved(l, cache[l], cache'[l])
  PROVE  CacheMoves
<1>1. DOMAIN cache = Lists
  BY DEF CacheOK
<1>2. ASSUME NEW m \in Lists, m # l PROVE Moved(m, cache[m], cache'[m])
  BY <1>1, <1>2 DEF CacheOK, Moved, Kept
<1> QED BY <1>1, <1>2 DEF CacheMoves

\* What Start does to a query.
LEMMA StartIs ==
  ASSUME NEW q, IsQuery(q), q.fetch = "idle" \/ q.data # None, NEW of
  PROVE  IsQuery(Start(q, of)) /\ Begun(q, Start(q, of)) /\ Start(q, of).of = of
BY DEF Start, IsQuery, Begun

\* What Excused does.
LEMMA ExcusedIs ==
  ASSUME NEW q, IsQuery(q) PROVE IsQuery([q EXCEPT !.excused = TRUE]) /\ Kept(q, [q EXCEPT !.excused = TRUE])
BY DEF IsQuery, Kept

\* What joining a fetch under way does.
LEMMA JoinedIs ==
  ASSUME NEW q, IsQuery(q) PROVE IsQuery(Joined(q)) /\ Kept(q, Joined(q)) /\ (q.fetch = "answered" => Joined(q).joined)
<1> DEFINE b == q.joined \/ q.fetch = "answered"
<1>1. Joined(q) = [q EXCEPT !.joined = b]
  BY DEF Joined
<1> HIDE DEF b
<1>2. IsQuery(Joined(q)) /\ Joined(q).joined = b /\ \A f \in DOMAIN q \ {"joined"} : Joined(q)[f] = q[f]
  BY <1>1 DEF IsQuery
<1>3. (q.joined => b) /\ (q.fetch = "answered" => b)
  BY DEF b
<1> QED BY <1>2, <1>3 DEF IsQuery, Kept

\* What Join does.
LEMMA JoinIs ==
  ASSUME NEW q, IsQuery(q), NEW of, NEW r, r = Join(q, of) \/ r = Refetch(q, of)
  PROVE  IsQuery(r) /\ (Kept(q, r) \/ (Begun(q, r) /\ r.of = of))
BY StartIs, JoinedIs DEF Join, Refetch

\* Several lists are joined at once.
LEMMA JoinMoves ==
  ASSUME CacheOK, NEW l, NEW of,
         l \in Lists => AsksOK(l, of),
         cache' = [cache EXCEPT ![l] = Join(@, of)] \/ cache' = [cache EXCEPT ![l] = Refetch(@, of)]
  PROVE  CacheMoves
<1>1. DOMAIN cache' = DOMAIN cache /\ \A m \in DOMAIN cache : m # l => cache'[m] = cache[m]
  OBVIOUS
<1>2. cache' = [m \in DOMAIN cache' |-> cache'[m]]
  OBVIOUS
<1>3. ASSUME l \in Lists PROVE Moved(l, cache[l], cache'[l])
  <2>1. IsQuery(cache[l]) /\ l \in DOMAIN cache
    BY <1>3 DEF CacheOK
  <2>2. cache'[l] = Join(cache[l], of) \/ cache'[l] = Refetch(cache[l], of)
    BY <2>1
  <2>3. IsQuery(cache'[l]) /\ (Kept(cache[l], cache'[l]) \/ (Begun(cache[l], cache'[l]) /\ cache'[l].of = of))
    BY <2>1, <2>2, JoinIs
  <2> QED BY <1>3, <2>3 DEF Moved, AsksOK
<1> QED BY <1>1, <1>2, <1>3, OneMoves

\* Several queries move at once.
LEMMA ManyMove ==
  ASSUME CacheOK, NEW ls, cache' = [l \in Lists |-> cache'[l]],
         \A l \in Lists \ ls : cache'[l] = cache[l],
         \A l \in Lists \cap ls : \E of : AsksOK(l, of) /\ cache'[l] \in {Join(cache[l], of), Refetch(cache[l], of)}
  PROVE  CacheMoves
<1>1. ASSUME NEW l \in Lists PROVE Moved(l, cache[l], cache'[l])
  <2>1. IsQuery(cache[l])
    BY DEF CacheOK
  <2>2. CASE l \in ls
    <3>1. PICK of : AsksOK(l, of) /\ cache'[l] \in {Join(cache[l], of), Refetch(cache[l], of)}
      BY <2>2
    <3>2. IsQuery(cache'[l]) /\ (Kept(cache[l], cache'[l]) \/ (Begun(cache[l], cache'[l]) /\ cache'[l].of = of))
      BY <2>1, <3>1, JoinIs
    <3> QED BY <3>1, <3>2 DEF Moved, AsksOK
  <2>3. CASE l \notin ls
    BY <2>1, <2>3 DEF Moved, Kept
  <2> QED BY <2>2, <2>3
<1> QED BY <1>1 DEF CacheMoves

\* Several lists are excused.
LEMMA ExcusedMoves == ASSUME CacheOK, NEW ls, cache' = Excused(ls) PROVE CacheMoves
<1>1. ASSUME NEW l \in Lists PROVE Moved(l, cache[l], cache'[l])
  <2>1. IsQuery(cache[l]) /\ cache'[l] \in {cache[l], [cache[l] EXCEPT !.excused = TRUE]}
    BY DEF CacheOK, Excused
  <2> QED BY <2>1, ExcusedIs DEF Moved, Kept
<1> QED BY <1>1 DEF CacheMoves, Excused

\* The parts of a list.
LEMMA Pair == \A k, x : <<k, x>>[1] = k /\ <<k, x>>[2] = x
OBVIOUS

\* The queries of the page ask for their own list, those of the keys for the package that is selected.
LEMMA AsksOfPage ==
  ASSUME subject' = subject, NEW l,
         l[2] = "" \/ l = <<l[1], subject>> \/ (home = "keys" /\ l[1] = "keys")
  PROVE  AsksOK(l, Asks(l, subject))
BY DEF AsksOK, Asks, KeysOf

\* What is on the screen is asked for by its own key.
LEMMA ObservedAsks ==
  ASSUME SessionOK, subject' = subject, NEW l \in Observed
  PROVE  AsksOK(l, Asks(l, subject))
<1>1. page = "keys" => home = "keys"
  BY DEF SessionOK
<1>2. \E k, x : l = <<k, x>> /\ (x = "" \/ x = subject \/ (page = "keys" /\ k = "keys"))
  <2>1. CASE page \in {"packages", "subscriptions", "transports"}
    <3>1. l = <<page, "">>
      BY <2>1 DEF Observed
    <3> QED BY <3>1
  <2>2. CASE page \notin {"packages", "subscriptions", "transports"}
    <3>1. \/ l = <<"settings", subject>> \/ (page = "keys" /\ l = <<"keys", frozen>>) \/ l = <<"groups", "">>
          \/ l = <<"members", subject>> \/ l = <<"live", "">> \/ l = <<"series", "">> \/ l = <<"transports", "">>
      BY <2>2 DEF Observed
    <3> QED BY <3>1
  <2> QED BY <2>1, <2>2
<1>3. PICK k, x : l = <<k, x>> /\ (x = "" \/ x = subject \/ (page = "keys" /\ k = "keys"))
  BY <1>2
<1>4. l[1] = k /\ l[2] = x
  BY <1>3, Pair
<1> QED BY <1>1, <1>3, <1>4, AsksOfPage

\* A handler awaits a refetch of one list.
LEMMA AwaitMoves ==
  ASSUME CacheOK, NEW i, NEW l, Await(i, l), AsksOK(l, Asks(l, subject))
  PROVE  CacheMoves
BY JoinMoves DEF Await

\* What the network, the server and the focus do to the cache.
LEMMA ClientCache == SessionOK /\ CacheOK /\ ClientStep => CacheMoves
<1> SUFFICES ASSUME SessionOK, CacheOK, ClientStep PROVE CacheMoves
  OBVIOUS
<1>0. DOMAIN cache = Lists /\ \A l \in Lists : IsQuery(cache[l])
  BY DEF CacheOK
<1>1. ASSUME NEW l \in Lists, Read(l) PROVE CacheMoves
  <2>1. cache' = [cache EXCEPT ![l].fetch = "answered", ![l].answer = <<[of |-> cache[l].of, rows |-> server[cache[l].of]]>>]
        /\ cache[l].fetch = "asked"
    BY <1>1 DEF Read
  <2>2. IsQuery(cache'[l]) /\ Got(cache[l], cache'[l])
    BY <1>0, <2>1 DEF IsQuery, Got
  <2>3. DOMAIN cache' = DOMAIN cache /\ (\A m \in DOMAIN cache : m # l => cache'[m] = cache[m])
        /\ cache' = [m \in DOMAIN cache' |-> cache'[m]]
    BY <2>1
  <2> QED BY <2>2, <2>3, OneMoves DEF Moved
<1>2. ASSUME NEW l \in Lists, Deliver(l) PROVE CacheMoves
  <2>1. cache' = [cache EXCEPT ![l].fetch = "idle", ![l].data = cache[l].answer, ![l].answer = None, ![l].error = FALSE]
        /\ cache[l].fetch = "answered"
    BY <1>2 DEF Deliver
  <2>2. IsQuery(cache'[l]) /\ Came(cache[l], cache'[l])
    BY <1>0, <2>1 DEF IsQuery, Came
  <2>3. DOMAIN cache' = DOMAIN cache /\ (\A m \in DOMAIN cache : m # l => cache'[m] = cache[m])
        /\ cache' = [m \in DOMAIN cache' |-> cache'[m]]
    BY <2>1
  <2> QED BY <2>2, <2>3, OneMoves DEF Moved
<1>3. ASSUME NEW l \in Lists, FetchDenied(l) \/ FetchFails(l) PROVE CacheMoves
  <2>1. cache' = [cache EXCEPT ![l].fetch = "idle", ![l].error = TRUE] /\ cache[l].fetch = "asked"
    BY <1>3 DEF FetchDenied, FetchFails, GiveUp
  <2>2. IsQuery(cache'[l]) /\ Gone(cache[l], cache'[l])
    BY <1>0, <2>1 DEF IsQuery, Gone
  <2>3. DOMAIN cache' = DOMAIN cache /\ (\A m \in DOMAIN cache : m # l => cache'[m] = cache[m])
        /\ cache' = [m \in DOMAIN cache' |-> cache'[m]]
    BY <2>1
  <2> QED BY <2>2, <2>3, OneMoves DEF Moved
<1>4. ASSUME NEW l \in Lists, FetchAgain(l) PROVE CacheMoves
  <2>1. cache' = [cache EXCEPT ![l].of = Asks(l, subject)] /\ cache[l].fetch = "asked" /\ l \in Observed /\ subject' = subject
    BY <1>4 DEF FetchAgain
  <2>2. IsQuery(cache'[l]) /\ Again(cache[l], cache'[l]) /\ cache'[l].of = Asks(l, subject)
    BY <1>0, <2>1 DEF IsQuery, Again
  <2>3. DOMAIN cache' = DOMAIN cache /\ (\A m \in DOMAIN cache : m # l => cache'[m] = cache[m])
        /\ cache' = [m \in DOMAIN cache' |-> cache'[m]]
    BY <2>1
  <2>4. AsksOK(l, Asks(l, subject))
    BY <2>1, ObservedAsks
  <2> QED BY <2>2, <2>3, <2>4, OneMoves DEF Moved
<1>5. CASE Focus
  <2>1. cache' = [l \in Lists |-> cache'[l]] /\ subject' = subject
        /\ \A l \in Lists : cache'[l] = IF l \in Observed THEN Join(cache[l], Asks(l, subject)) ELSE cache[l]
    BY <1>5 DEF Focus
  <2>2. ASSUME NEW l \in Lists \cap Observed
        PROVE  \E of : AsksOK(l, of) /\ cache'[l] \in {Join(cache[l], of), Refetch(cache[l], of)}
    BY <2>1, ObservedAsks
  <2> QED BY <2>1, <2>2, ManyMove
<1>6. ASSUME NEW l \in Lists, NEW x, OtherWrites(l, x) PROVE CacheMoves
  BY <1>6, ExcusedMoves DEF OtherWrites
<1>7. ASSUME NEW i \in DOMAIN calls, Lose(i) PROVE CacheMoves
  BY <1>7, ExcusedMoves, CacheSame DEF Lose
<1>8. ASSUME NEW i \in DOMAIN calls, Check(i) \/ Serve(i) \/ Denied(i) \/ HandlerFails(i) PROVE CacheMoves
  <2>1. ASSUME NEW m, NEW ls, cache' = [Excused(ls) EXCEPT ![m] = cache[m]] PROVE CacheMoves
    <3>1. cache' = [l \in Lists |-> cache'[l]]
      BY <2>1 DEF Excused
    <3>2. ASSUME NEW l \in Lists PROVE Moved(l, cache[l], cache'[l])
      <4>1. IsQuery(cache[l]) /\ cache'[l] \in {cache[l], [cache[l] EXCEPT !.excused = TRUE]}
        BY <1>0, <2>1 DEF Excused
      <4> QED BY <4>1, ExcusedIs DEF Moved, Kept
    <3> QED BY <3>1, <3>2 DEF CacheMoves
  <2> QED BY <1>8, <2>1, CacheSame DEF Check, Serve, Denied, HandlerFails
<1>9. ASSUME NEW i \in DOMAIN calls, OrphanReturns(i) PROVE CacheMoves
  <2>1. AsksOK(calls[i].waits, calls[i].waits)
    BY DEF AsksOK
  <2> QED BY <1>9, <2>1, CacheSame, JoinMoves DEF OrphanReturns
<1> QED BY <1>1, <1>2, <1>3, <1>4, <1>5, <1>6, <1>7, <1>8, <1>9 DEF ClientStep

\* What the handlers of the settings do to it.
LEMMA SettingsCache == SessionOK /\ CacheOK /\ page = "settings" /\ SettingsStep => CacheMoves
<1> SUFFICES ASSUME SessionOK, CacheOK, page = "settings", SettingsStep PROVE CacheMoves
  OBVIOUS
<1>0. home = "settings"
  BY PagesAssumption DEF SessionOK
<1>1. ASSUME NEW p, selectPackage(p) PROVE CacheMoves
  <2>1. cache' = [cache EXCEPT ![Settings(p)] = Join(@, Settings(p))] /\ AsksOK(Settings(p), Settings(p))
    BY <1>1 DEF selectPackage, AsksOK
  <2> QED BY <2>1, JoinMoves
<1>2. ASSUME NEW i \in DOMAIN calls, SaveConflict(i) \/ SaveReturns(i) PROVE CacheMoves
  <2>1. Await(i, Settings(subject)) /\ subject' = subject
    BY <1>2 DEF SaveConflict, SaveReturns, draftless
  <2>2. AsksOK(Settings(subject), Asks(Settings(subject), subject))
    BY <1>0, <2>1, AsksOfPage DEF Settings
  <2> QED BY <2>1, <2>2, AwaitMoves
<1>3. UNCHANGED cache => CacheMoves
  BY CacheSame
<1>4. ASSUME NEW i \in DOMAIN calls, TaskReturns(i) PROVE CacheMoves
  BY <1>3, <1>4 DEF TaskReturns
<1>5. ASSUME NEW c, edit(c) PROVE CacheMoves
  BY <1>3, <1>5 DEF edit
<1>6. CASE save \/ resetDefaults \/ runTask
  BY <1>3, <1>6 DEF save, resetDefaults, runTask
<1> QED BY <1>1, <1>2, <1>4, <1>5, <1>6 DEF SettingsStep

\* What those of the keys do to it.
LEMMA KeysCache == SessionOK /\ CacheOK /\ page = "keys" /\ KeysStep => CacheMoves
<1> SUFFICES ASSUME SessionOK, CacheOK, page = "keys", KeysStep PROVE CacheMoves
  OBVIOUS
<1>0. home = "keys"
  BY PagesAssumption DEF SessionOK
<1>1. ASSUME NEW i \in DOMAIN calls, KeyReturns(i) PROVE CacheMoves
  <2>1. Await(i, KeysOf(frozen)) /\ subject' = subject
    BY <1>1 DEF KeyReturns
  <2>2. AsksOK(KeysOf(frozen), Asks(KeysOf(frozen), subject))
    BY <1>0, <2>1, AsksOfPage DEF KeysOf
  <2> QED BY <2>1, <2>2, AwaitMoves
<1>2. UNCHANGED cache => CacheMoves
  BY CacheSame
<1>3. ASSUME NEW p, selectPackage(p) PROVE CacheMoves
  BY <1>2, <1>3 DEF selectPackage
<1>4. ASSUME NEW k, openEditKey(k) \/ askRemoveKey(k) \/ renameKey(k) PROVE CacheMoves
  BY <1>2, <1>4 DEF openEditKey, askRemoveKey, Open, renameKey, draftRest
<1>5. CASE openAdd \/ saveEditKey \/ submitAdd \/ confirmRemoveKey
  BY <1>2, <1>5 DEF openAdd, Open, saveEditKey, submitAdd, confirmRemoveKey, draftRest
<1> QED BY <1>1, <1>3, <1>4, <1>5 DEF KeysStep

\* On the other pages only their own lists are refetched.
LEMMA AwaitElsewhere ==
  ASSUME CacheOK, subject' = subject, NEW i, NEW l, l[2] = "" \/ l = <<l[1], subject>>, Await(i, l) PROVE CacheMoves
BY AsksOfPage, AwaitMoves

\* What those of the groups do to it.
LEMMA ModelsCache == CacheOK /\ home \notin {"settings", "keys"} /\ ModelsStep => CacheMoves
<1> SUFFICES ASSUME CacheOK, home \notin {"settings", "keys"}, ModelsStep PROVE CacheMoves
  OBVIOUS
<1>1. UNCHANGED cache => CacheMoves
  BY CacheSame
<1>2. CASE openCreate \/ saveGroup \/ confirmDelete \/ confirmDeleteMember
  BY <1>1, <1>2 DEF openCreate, saveGroup, confirmDelete, confirmDeleteMember, queriesIdle
<1>3. ASSUME NEW g, openMembers(g) PROVE CacheMoves
  <2>1. AsksOK(Members(g), Members(g))
    BY DEF AsksOK
  <2> QED BY <1>3, <2>1, JoinMoves DEF openMembers
<1>4. ASSUME NEW g, NEW kind, NEW op, NEW m, NEW apply,
             runTest(g) \/ openGroup(kind, g) \/ runCheck(op) \/ addMember(m) \/ toggleMember(m) \/ askRemoveMember(m) \/ runDiscover(apply)
      PROVE  CacheMoves
  BY <1>1, <1>4 DEF runTest, openGroup, runCheck, addMember, toggleMember, askRemoveMember, runDiscover, queriesIdle
<1>5. ASSUME NEW i \in DOMAIN calls,
             \/ CheckReturns(i) \/ GroupReturns(i) \/ DiscoverReturns(i) \/ DiscoverGoesOn(i)
             \/ MemberReturns(i) \/ RemovalGoesOn(i)
      PROVE  CacheMoves
  <2>1. Groups[2] = "" /\ Members(subject) = <<Members(subject)[1], subject>>
    BY DEF Groups, Members
  <2>2. CASE CheckReturns(i)
    BY <1>1, <2>2 DEF CheckReturns, queriesIdle
  <2>3. CASE GroupReturns(i) \/ DiscoverReturns(i) \/ MemberReturns(i)
    BY <2>1, <2>3, AwaitElsewhere DEF GroupReturns, DiscoverReturns, MemberReturns, modelsRest
  <2>4. CASE DiscoverGoesOn(i)
    BY <1>1, <2>1, <2>4, AwaitElsewhere DEF DiscoverGoesOn, queriesIdle, modelsRest
  <2>5. CASE RemovalGoesOn(i)
    BY <1>1, <2>1, <2>5, AwaitElsewhere DEF RemovalGoesOn, modelsRest
  <2> QED BY <1>5, <2>2, <2>3, <2>4, <2>5
<1> QED BY <1>2, <1>3, <1>4, <1>5 DEF ModelsStep

\* What those of the packages do to it.
LEMMA PackagesCache == CacheOK /\ home \notin {"settings", "keys"} /\ PackagesStep => CacheMoves
<1> SUFFICES ASSUME CacheOK, home \notin {"settings", "keys"}, PackagesStep PROVE CacheMoves
  OBVIOUS
<1>1. UNCHANGED cache => CacheMoves
  BY CacheSame
<1>2. ASSUME NEW p, onFileChosen(p) \/ typeUrl(p) \/ toggleEnabled(p) \/ askRemove(p) PROVE CacheMoves
  BY <1>1, <1>2 DEF onFileChosen, typeUrl, toggleEnabled, askRemove
<1>3. CASE openUrl \/ inspectUrl \/ confirmInstall \/ confirmRemove
  BY <1>1, <1>3 DEF openUrl, inspectUrl, confirmInstall, confirmRemove
<1>4. ASSUME NEW i \in DOMAIN calls,
             FileReturns(i) \/ UrlReturns(i) \/ InstallReturns(i) \/ ToggleReturns(i) \/ RemoveReturns(i)
      PROVE  CacheMoves
  <2>1. PackageList[2] = ""
    BY DEF PackageList
  <2> QED BY <1>1, <1>4, <2>1, AwaitElsewhere DEF FileReturns, UrlReturns, InstallReturns, ToggleReturns, RemoveReturns, pkgRest
<1> QED BY <1>2, <1>3, <1>4 DEF PackagesStep

\* What those of the lists do to it.
LEMMA ListCache == CacheOK /\ home \notin {"settings", "keys"} /\ ListStep => CacheMoves
<1> SUFFICES ASSUME CacheOK, home \notin {"settings", "keys"}, ListStep PROVE CacheMoves
  OBVIOUS
<1>1. UNCHANGED cache => CacheMoves
  BY CacheSame
<1>2. CASE openCreateSub \/ submitCreate \/ submitEvict
  BY <1>1, <1>2 DEF openCreateSub, openForm, submitCreate, submitEvict, SendFor
<1>3. ASSUME NEW x, syncSub(x) \/ removeSub(x) \/ openEvict(x) \/ testTransport(x) PROVE CacheMoves
  BY <1>1, <1>3 DEF syncSub, removeSub, openEvict, openForm, testTransport, SendFor
<1>4. ASSUME NEW n, setFilter(n) \/ query(n) \/ openDetail(n) PROVE CacheMoves
  BY <1>1, <1>4 DEF setFilter, query, openDetail
<1>5. ASSUME NEW i \in DOMAIN calls, QueryReturns(i) \/ DetailReturns(i) \/ SubReturns(i) \/ TransportReturns(i)
      PROVE  CacheMoves
  <2>1. <<"subscriptions", "">>[2] = ""
    OBVIOUS
  <2> QED BY <1>1, <1>5, <2>1, AwaitElsewhere DEF QueryReturns, DetailReturns, SubReturns, TransportReturns, tableless, listRest
<1>6. CASE refreshAll
  <2>1. cache' = [l \in Lists |-> cache'[l]]
        /\ \A l \in Lists : cache'[l] = IF l \in Observed THEN Refetch(cache[l], l) ELSE cache[l]
    BY <1>6 DEF refreshAll
  <2>2. ASSUME NEW l \in Lists \cap Observed
        PROVE  \E of : AsksOK(l, of) /\ cache'[l] \in {Join(cache[l], of), Refetch(cache[l], of)}
    <3>1. AsksOK(l, l)
      BY DEF AsksOK
    <3> QED BY <2>1, <3>1
  <2> QED BY <2>1, <2>2, ManyMove
<1> QED BY <1>2, <1>3, <1>4, <1>5, <1>6 DEF ListStep

\* What every step does to the cache.
LEMMA NextCache == SessionOK /\ CacheOK /\ Next => CacheMoves
<1> SUFFICES ASSUME SessionOK, CacheOK, Next PROVE CacheMoves
  OBVIOUS
<1>1. UNCHANGED cache => CacheMoves
  BY CacheSame
<1>2. CASE SessionStep /\ UNCHANGED <<clientVars, pageVars>>
  BY <1>1, <1>2 DEF clientVars
<1>3. CASE LeavePage \/ CloseDialog
  BY <1>1, <1>3 DEF LeavePage, CloseDialog
<1>4. CASE EnterPage
  <2>1. Route = home /\ subject' = subject
    <3>1. Route \in Pages /\ subject' = subject
      BY <1>4 DEF EnterPage, Enter, Guarding
    <3>2. Route \in {"login", home}
      BY HeadTailProperties DEF SessionOK, Route
    <3> QED BY <3>1, <3>2, PagesAssumption
  <2>2. CASE Route = "history"
    BY <1>1, <1>4, <2>2 DEF EnterPage
  <2>3. ASSUME NEW ls, Mount(Route, ls), \A l \in ls : AsksOK(l, Asks(l, subject)) PROVE CacheMoves
    <3>1. cache' = [l \in Lists |-> cache'[l]]
          /\ \A l \in Lists : cache'[l] = IF l \in ls THEN Join(cache[l], Asks(l, subject)) ELSE cache[l]
      BY <2>1, <2>3 DEF Mount
    <3>2. ASSUME NEW l \in Lists \cap ls
          PROVE  \E of : AsksOK(l, of) /\ cache'[l] \in {Join(cache[l], of), Refetch(cache[l], of)}
      BY <2>3, <3>1
    <3> QED BY <3>1, <3>2, ManyMove
  <2>4. CASE Route \in {"settings", "keys"}
    <3>1. Mount(Route, {<<Route, subject>>})
      BY <1>4, <2>4 DEF EnterPage
    <3>2. AsksOK(<<Route, subject>>, Asks(<<Route, subject>>, subject))
      BY <2>1, <2>4, AsksOfPage
    <3> QED BY <2>3, <3>1, <3>2
  <2>5. CASE Route \notin {"settings", "keys", "history"}
    <3>1. CASE Route = "models"
      <4>1. Mount(Route, {Groups})
        BY <1>4, <2>5, <3>1 DEF EnterPage
      <4>2. AsksOK(Groups, Asks(Groups, subject))
        BY <2>1, Pair, AsksOfPage DEF Groups
      <4> QED BY <2>3, <4>1, <4>2
    <3>2. CASE Route = "monitor"
      <4>1. Mount(Route, {<<"live", "">>, <<"series", "">>, <<"transports", "">>})
        BY <1>4, <3>2 DEF EnterPage
      <4>2. \A k : AsksOK(<<k, "">>, Asks(<<k, "">>, subject))
        BY <2>1, Pair, AsksOfPage
      <4> DEFINE ls == {<<"live", "">>, <<"series", "">>, <<"transports", "">>}
      <4>3. \A l \in ls : AsksOK(l, Asks(l, subject))
        BY <4>2
      <4>4. Mount(Route, ls)
        BY <4>1
      <4> HIDE DEF ls
      <4> QED BY <2>3, <4>3, <4>4
    <3>3. CASE Route \notin {"models", "monitor"}
      <4>1. Mount(Route, {l \in Lists : l = <<Route, "">>})
        BY <1>4, <2>5, <3>3 DEF EnterPage
      <4> DEFINE ls == {l \in Lists : l = <<Route, "">>}
      <4>2. AsksOK(<<Route, "">>, Asks(<<Route, "">>, subject))
        BY <2>1, Pair, AsksOfPage
      <4>3. \A l \in ls : AsksOK(l, Asks(l, subject))
        BY <4>2
      <4>4. Mount(Route, ls)
        BY <4>1
      <4> HIDE DEF ls
      <4> QED BY <2>3, <4>3, <4>4
    <3> QED BY <3>1, <3>2, <3>3
  <2> QED BY <2>2, <2>4, <2>5
<1>5. page \notin {"settings", "keys"} /\ page \in Pages => home \notin {"settings", "keys"}
  BY PagesAssumption DEF SessionOK
<1>6. page \in {"models", "packages", "history", "subscriptions", "transports", "monitor"} => home \notin {"settings", "keys"}
  BY PagesAssumption DEF SessionOK
<1> QED BY <1>2, <1>3, <1>4, <1>6, ClientCache, SettingsCache, KeysCache, ModelsCache, PackagesCache, ListCache DEF Next

\* Whatever a step does to the cache, its queries are queries.
LEMMA CacheKept == CacheOK /\ CacheMoves /\ home' = home => CacheOK'
<1> SUFFICES ASSUME CacheOK, CacheMoves, home' = home PROVE CacheOK'
  OBVIOUS
<1>1. Lists' = Lists
  BY DEF Lists
<1>2. ASSUME NEW l \in Lists
      PROVE  /\ IsQuery(cache'[l]) /\ cache'[l].fetch \in {"idle", "asked", "answered"}
             /\ cache'[l].data # None => IsData(cache'[l].data)
             /\ cache'[l].fetch = "answered" => IsData(cache'[l].answer)
  <2>1. Moved(l, cache[l], cache'[l])
    BY DEF CacheMoves
  <2>2. Got(cache[l], cache'[l]) => IsData(cache'[l].answer)
    BY DEF Got, IsData
  <2> QED BY <2>1, <2>2 DEF CacheOK, Moved, Kept, Begun, Got, Came, Gone, Again
<1>3. cache' = [l \in Lists' |-> cache'[l]]
  BY <1>1 DEF CacheMoves
<1> QED BY <1>1, <1>2, <1>3 DEF CacheOK

\* A query has one answer at most.
LEMMA DataIsShort == ASSUME NEW d, d = None \/ IsData(d) PROVE Len(d) <= 1
<1>1. CASE d = None
  <2>1. Len(<<>>) = 0
    BY EmptySeq
  <2> QED BY <1>1, <2>1 DEF None
<1>2. CASE IsData(d)
  <2>1. PICK x : d = <<x>>
    BY <1>2 DEF IsData
  <2>2. Len(<<x>>) = 1
    OBVIOUS
  <2> QED BY <2>1, <2>2
<1> QED BY <1>1, <1>2

\* The type invariant is a part of the two.
LEMMA BaseIsTyped == Base /\ CacheOK => TypeOK
<1> SUFFICES ASSUME Base, CacheOK PROVE TypeOK
  OBVIOUS
<1>1. page \in Pages \cup {"none", "login"} /\ DOMAIN calls \subseteq 1..sent
  BY DEF Base, SessionOK, CallsOK
<1>2. ASSUME NEW l \in Lists PROVE cache[l].fetch \in {"idle", "asked", "answered"} /\ Len(cache[l].data) <= 1
  BY DataIsShort DEF CacheOK
<1> QED BY <1>1, <1>2 DEF TypeOK

-----------------------------------------------------------------------------
(* Saves that claim a version *)

\* A write that says it was made from base was made from what the admin had before him,
\* or the server has gone on and will refuse it.
Good(c) == c.seen.list = c.list /\ c.seen.rev = c.base
\* A save that claims a version was sighted, or the server will refuse it.
CasOK(c) ==
  c.kind \in {"cas", "clear"} /\ c.base > 0 /\ c.seen.shown =>
    Good(c) \/ (Stale(c.list, c.item, c.base) /\ c.at \notin {"checked", "ok"})

\* Every request is one that is sighted or will be refused.
CasAreOK == \A i \in DOMAIN calls : CasOK(calls[i])

\* The calls of this step are.
FreshAreOK == \A i \in DOMAIN calls' \ DOMAIN calls : CasOK(calls'[i])

\* When the server gets on with such a request, it stays one.
LEMMA CasAdvances ==
  ASSUME NEW i \in DOMAIN calls, Advances(i), CasOK(calls[i]) PROVE CasOK(calls'[i])
<1> DEFINE c == calls[i]
           d == calls'[i]
<1>1. Same(c, d)
  BY DEF Advances
<1> SUFFICES ASSUME c.kind \in {"cas", "clear"}, c.base > 0, c.seen.shown PROVE CasOK(d)
  BY <1>1 DEF CasOK, Same
<1>2. CASE Good(c)
  BY <1>1, <1>2 DEF CasOK, Good, Same
<1>3. CASE Stale(c.list, c.item, c.base) /\ c.at \notin {"checked", "ok"}
  <2>1. ~Accepts(c)
    BY <1>3 DEF Accepts, Stale, Locked
  <2>2. Check(i)
    BY <1>3 DEF Advances, Serve, Locked
  <2>3. calls' = [calls EXCEPT ![i].at = "refused"]
    BY <2>1, <2>2 DEF Check
  <2>4. d = [c EXCEPT !.at = "refused"]
    BY <2>3
  <2>5. d.at \notin {"checked", "ok"}
    <3>1. IsCall(d)
      BY <1>1 DEF Same
    <3>2. DOMAIN d = DOMAIN c
      BY <2>4
    <3>3. "at" \in DOMAIN d
      BY <3>1 DEF IsCall
    <3> QED BY <2>4, <3>2, <3>3
  <2>6. d.list = c.list /\ d.item = c.item /\ d.base = c.base
    BY <1>1 DEF Same
  <2> HIDE DEF c, d
  <2> QED BY <1>3, <2>5, <2>6 DEF CasOK
<1> QED BY <1>2, <1>3 DEF CasOK

\* A save that goes on claims what it did.
LEMMA CasContinues ==
  ASSUME NEW c, NEW d, Continues(c, d), CasOK(c) PROVE CasOK(d)
BY DEF Continues, Same, CasOK, Good

\* What becomes of the calls there are, whatever the step.
LEMMA CallsGoOn ==
  ASSUME CallsOK, CallsMove \/ Abandons
  PROVE  \A i \in DOMAIN calls' :
           \/ i \in DOMAIN calls /\ (Continues(calls[i], calls'[i]) \/ Advances(i))
           \/ i \notin DOMAIN calls /\ (\/ CallsMove /\ \E c : Sends(c) /\ calls'[i] = c
                                        \/ Abandons /\ calls'[i] = Query(1, "all"))
<1>0. \A i \in DOMAIN calls : i # sent + 1 /\ IsCall(calls[i])
  BY DEF CallsOK
<1>1. CASE CallsCarried
  BY <1>1 DEF CallsCarried, Carries
<1>2. ASSUME NEW k \in DOMAIN calls, Advances(k),
             NEW i \in DOMAIN calls'
      PROVE  i \in DOMAIN calls /\ (Continues(calls[i], calls'[i]) \/ Advances(i))
  BY <1>0, <1>2, ContinuesRefl DEF Advances
<1>3. ASSUME NEW c, Sends(c),
             NEW i \in DOMAIN calls'
      PROVE  \/ i \in DOMAIN calls /\ Continues(calls[i], calls'[i])
             \/ i \notin DOMAIN calls /\ calls'[i] = c
  <2>1. Carries(calls, calls)
    BY <1>0, CarriesRefl
  <2> QED BY <1>3, <2>1, WithCalls DEF Sends
<1>4. ASSUME Abandons, NEW i \in DOMAIN calls'
      PROVE  \/ i \in DOMAIN calls /\ Continues(calls[i], calls'[i])
             \/ i \notin DOMAIN calls /\ calls'[i] = Query(1, "all")
  <2>1. CASE calls' = Orphans
    BY <1>4, <2>1, OrphansCarry DEF Carries
  <2>2. CASE sent' = sent + 1 /\ calls' = With(Orphans, Query(1, "all"))
    <3>1. IsCall(Query(1, "all")) /\ Carries(calls, Orphans)
      BY QueryCall, OrphansCarry
    <3> QED BY <1>0, <2>2, <3>1, WithCalls
  <2> QED BY <1>4, <2>1, <2>2 DEF Abandons
<1> QED BY <1>1, <1>2, <1>3, <1>4 DEF CallsMove

\* Every step leaves saves that are sighted or too late, when the new ones are.
LEMMA CasKept ==
  ASSUME CallsOK, CallsMove \/ Abandons, CasAreOK, FreshAreOK, ServerOK, ServerMoves, home' = home
  PROVE  CasAreOK'
<1>1. ASSUME NEW i \in DOMAIN calls' PROVE CasOK(calls'[i])
  BY CallsGoOn, CasContinues, CasAdvances DEF CasAreOK, FreshAreOK
<1>2. ASSUME NEW i \in DOMAIN calls' PROVE CasOK(calls[i])'
  <2> DEFINE d == calls'[i]
  <2>1. CasOK(d)
    BY <1>2, <1>1
  <2>2. Stale(d.list, d.item, d.base) => Stale(calls[i].list, calls[i].item, calls[i].base)'
    <3>1. ASSUME NEW l, NEW x, NEW r, Stale(l, x, r) PROVE l \in Lists' /\ x \in Items[l] /\ r \in 1..clock' /\ server'[l][x] # r
      BY <3>1, StaleForGood DEF Stale
    <3> QED BY <3>1 DEF Stale
  <2> QED BY <2>1, <2>2 DEF CasOK, Good
<1> QED BY <1>2 DEF CasAreOK

\* A save that was accepted was sighted.
LEMMA CasIsSighted == CasAreOK => NoBlindOverwrite
BY DEF CasAreOK, CasOK, Good, NoBlindOverwrite

-----------------------------------------------------------------------------
(* The keys *)

\* Rows as they were in a list at some moment.
OwnRows(d) == d[1].of \in Lists /\ \A k \in Items[d[1].of] : d[1].rows[k] # 0 => Owned(d[1].of, d[1].rows[k])

\* What a query of keys holds was of the package it asked for, and of no other list.
KeyQueries ==
  \A l \in Lists :
    /\ cache[l].fetch # "idle" => cache[l].of \in Lists
    /\ cache[l].data # None => OwnRows(cache[l].data)
    /\ cache[l].fetch = "answered" => OwnRows(cache[l].answer)

\* The key being edited was in the list it was read from, whichever is selected now.
EditOK ==
  dialog.kind = "editKey" => Owned(dialog.seen.list, dialog.seen.rev) /\ dialog.item \in Items[KeysOf("a")]

\* The page of the keys.
KeysOK == subject \in Packages /\ frozen \in Packages /\ KeyQueries /\ EditOK

\* The steps of one whose page it is to look at a package.
AtHome ==
  \/ SessionStep /\ UNCHANGED <<clientVars, pageVars>>
  \/ EnterPage /\ page \in {"none", "login"} /\ Route = home
  \/ LeavePage
  \/ (ClientStep \/ CloseDialog) /\ Watching
  \/ page = "settings" /\ home = "settings" /\ SettingsStep
  \/ page = "keys" /\ home = "keys" /\ KeysStep

\* Every step is one of the page that is open.
LEMMA NextAtHome ==
  ASSUME SessionOK, Next, home \in {"settings", "keys"}
  PROVE  AtHome
<1>1. page \in {"none", "login", home} /\ home \notin {"none", "login"}
  BY PagesAssumption DEF SessionOK
<1>2. CASE EnterPage
  <2>1. Route \in Pages /\ page # Route
    BY <1>2 DEF EnterPage, Enter, Guarding
  <2>2. Route \in {"login", home}
    BY HeadTailProperties DEF SessionOK, Route
  <2> QED BY <1>1, <1>2, <2>1, <2>2, PagesAssumption DEF AtHome
<1> QED BY <1>1, <1>2 DEF Next, AtHome

\* What the queries of the keys hold stays what was there.
LEMMA KeyQueriesKept ==
  ASSUME SessionOK, home = "keys", home' = home, KeyQueries, CacheOK, CacheMoves, ServerOK, ServerMoves,
         subject' \in Packages
  PROVE  KeyQueries'
<1> DEFINE OwnedNext(l, r) == r \in 1..clock' /\ \A m \in Lists' \ {l} : \A x \in Items[m] : server'[m][x] # r
           OwnNext(d) == d[1].of \in Lists' /\ \A k \in Items[d[1].of] : d[1].rows[k] # 0 => OwnedNext(d[1].of, d[1].rows[k])
<1>0. Lists' = Lists /\ KeysOf(subject') \in Lists
  BY PackagesAssumption DEF Lists, SessionOK
<1>1. ASSUME NEW l, NEW r, Owned(l, r) PROVE OwnedNext(l, r)
  <2>1. Owned(l, r)'
    BY <1>1, OwnedForGood
  <2> QED BY <2>1 DEF Owned
<1>2. ASSUME NEW d, OwnRows(d) PROVE OwnNext(d)
  <2>1. d[1].of \in Lists'
    BY <1>0, <1>2 DEF OwnRows
  <2>2. ASSUME NEW k \in Items[d[1].of], d[1].rows[k] # 0 PROVE OwnedNext(d[1].of, d[1].rows[k])
    <3>1. Owned(d[1].of, d[1].rows[k])
      BY <1>2, <2>2 DEF OwnRows
    <3> HIDE DEF OwnedNext
    <3> QED BY <1>1, <3>1
  <2> HIDE DEF OwnedNext
  <2> QED BY <2>1, <2>2
<1>3. ASSUME NEW of \in Lists PROVE OwnRows(<<[of |-> of, rows |-> server[of]]>>)
  BY StoredIsOwned DEF OwnRows
<1>4. ASSUME NEW l \in Lists
      PROVE  /\ cache'[l].fetch # "idle" => cache'[l].of \in Lists
             /\ cache'[l].data # None => OwnRows(cache'[l].data)
             /\ cache'[l].fetch = "answered" => OwnRows(cache'[l].answer)
  <2>1. Moved(l, cache[l], cache'[l]) /\ cache[l].fetch \in {"idle", "asked", "answered"}
    BY DEF CacheMoves, CacheOK
  <2>2. \A of : AsksOK(l, of) => of \in Lists
    BY <1>0 DEF AsksOK
  <2>3. /\ cache[l].fetch # "idle" => cache[l].of \in Lists
        /\ cache[l].data # None => OwnRows(cache[l].data)
        /\ cache[l].fetch = "answered" => OwnRows(cache[l].answer)
    BY DEF KeyQueries
  <2> QED BY <1>3, <2>1, <2>2, <2>3 DEF Moved, Kept, Begun, Got, Came, Gone, Again
<1>5. ASSUME NEW l \in Lists'
      PROVE  /\ cache'[l].fetch # "idle" => cache'[l].of \in Lists'
             /\ cache'[l].data # None => OwnNext(cache'[l].data)
             /\ cache'[l].fetch = "answered" => OwnNext(cache'[l].answer)
  <2> HIDE DEF OwnNext
  <2> QED BY <1>0, <1>2, <1>4
<1> QED BY <1>5 DEF KeyQueries, OwnRows, Owned

\* An editor of a key was there before, or has just been opened.
LEMMA PlainEnough ==
  ASSUME SessionOK, home = "keys", dialog'.kind = "editKey", AtHome, IsDialog(dialog)
  PROVE  dialog' = dialog \/ \E k : openEditKey(k)
<1>1. CASE SessionStep /\ UNCHANGED <<clientVars, pageVars>>
  BY <1>1 DEF clientVars
<1>2. CASE EnterPage
  <2>1. dialog' = dialog \/ dialog' = NoDialog
    BY <1>2 DEF EnterPage, Mount
  <2>2. NoDialog.kind # "editKey"
    BY DEF NoDialog
  <2> QED BY <2>1, <2>2
<1>3. CASE LeavePage
  BY <1>3 DEF LeavePage, NoDialog
<1>4. CASE ClientStep
  BY <1>4 DEF ClientStep, Read, Deliver, FetchDenied, FetchFails, GiveUp, FetchAgain, OtherWrites, Focus, Check, Serve,
   Lose, Denied, OrphanReturns, HandlerFails
<1>5. CASE CloseDialog
  BY <1>5 DEF CloseDialog, NoDialog, IsDialog
<1>6. CASE KeysStep
  <2>1. ASSUME NEW k, askRemoveKey(k) PROVE FALSE
    BY <2>1 DEF askRemoveKey, Open
  <2>2. ASSUME NEW k, renameKey(k) PROVE FALSE
    BY <2>2 DEF renameKey, IsDialog
  <2>3. CASE openAdd
    BY <2>3 DEF openAdd, Open
  <2>4. CASE saveEditKey \/ submitAdd \/ confirmRemoveKey
    BY <2>4 DEF saveEditKey, submitAdd, confirmRemoveKey
  <2>5. ASSUME NEW i, KeyReturns(i) PROVE dialog' = dialog
    BY <2>5 DEF KeyReturns, NoDialog
  <2>6. ASSUME NEW p, selectPackage(p) PROVE dialog' = dialog
    BY <2>6 DEF selectPackage
  <2> QED BY <1>6, <2>1, <2>2, <2>3, <2>4, <2>5, <2>6 DEF KeysStep
<1> QED BY <1>1, <1>2, <1>3, <1>4, <1>5, <1>6 DEF AtHome

\* Who changes the selection.
LEMMA NextSubject ==
  ASSUME AtHome PROVE (subject' = subject \/ subject' \in Packages) /\ frozen' \in {frozen, subject}
<1>1. CASE SessionStep /\ UNCHANGED <<clientVars, pageVars>>
  BY <1>1 DEF clientVars
<1>2. CASE EnterPage \/ LeavePage \/ CloseDialog
  BY <1>2 DEF EnterPage, LeavePage, CloseDialog
<1>3. CASE ClientStep
  BY <1>3 DEF ClientStep, Read, Deliver, FetchDenied, FetchFails, GiveUp, FetchAgain, OtherWrites, Focus, Check, Serve,
   Lose, Denied, OrphanReturns, HandlerFails
<1>4. CASE SettingsStep
  BY <1>4 DEF SettingsStep, selectPackage, edit, save, resetDefaults, runTask, SaveConflict, SaveReturns, TaskReturns,
              draftless
<1>5. CASE KeysStep
  BY <1>5 DEF KeysStep, selectPackage, openEditKey, askRemoveKey, Open, renameKey, openAdd, saveEditKey, submitAdd,
              confirmRemoveKey, KeyReturns, draftRest
<1> QED BY <1>1, <1>2, <1>3, <1>4, <1>5 DEF AtHome

\* Every step keeps the invariant of the keys.
LEMMA KeysKept ==
  ASSUME Base, CacheOK, ServerOK, KeysOK, home = "keys", home' = home, Next
  PROVE  KeysOK'
<1>1. AtHome /\ CacheMoves /\ ServerMoves /\ SessionOK /\ IsDialog(dialog)
  BY NextAtHome, NextCache, NextServerMoves DEF Base, DialogOK
<1>2. subject' \in Packages /\ frozen' \in Packages
  BY <1>1, NextSubject DEF KeysOK
<1>3. KeyQueries'
  BY <1>1, <1>2, KeyQueriesKept DEF KeysOK
<1>4. ASSUME dialog'.kind = "editKey" PROVE Owned(dialog'.seen.list, dialog'.seen.rev) /\ dialog'.item \in Items[KeysOf("a")]
  <2>1. CASE dialog' = dialog
    BY <1>4, <2>1 DEF KeysOK, EditOK
  <2>2. ASSUME NEW k, openEditKey(k) PROVE Owned(dialog'.seen.list, dialog'.seen.rev) /\ dialog'.item \in Items[KeysOf("a")]
    <3> DEFINE d == PanelRows[1]
    <3>1. k \in Items[KeysOf(frozen)] /\ PanelRows # None /\ d.rows[k] # 0
      BY <2>2 DEF openEditKey, Rows
    <3>2. dialog'.item = k /\ dialog'.seen.list = d.of /\ dialog'.seen.rev = d.rows[k]
      BY <2>2 DEF openEditKey, Open, Seen, Seeing
    <3>3. Lists = {KeysOf(p) : p \in Packages} /\ KeysOf(frozen) \in Lists
      BY <1>1, PackagesAssumption DEF SessionOK, Lists, KeysOK
    <3>4. OwnRows(PanelRows)
      BY <3>1, <3>3 DEF KeysOK, KeyQueries, PanelRows
    <3>5. \A l \in Lists : Items[l] = Items[KeysOf("a")]
      BY <3>3, PackagesAssumption
    <3> QED BY <3>1, <3>2, <3>3, <3>4, <3>5 DEF OwnRows
  <2> QED BY <1>1, <1>4, <2>1, <2>2, PlainEnough
<1>5. EditOK'
  <2>1. ASSUME NEW l, NEW r, Owned(l, r) PROVE r \in 1..clock' /\ \A m \in Lists' \ {l} : \A x \in Items[m] : server'[m][x] # r
    <3>1. Owned(l, r)'
      BY <1>1, <2>1, OwnedForGood
    <3> QED BY <3>1 DEF Owned
  <2> QED BY <1>4, <2>1 DEF EditOK, Owned
<1> QED BY <1>2, <1>3, <1>5 DEF KeysOK

\* An edited key is saved from the row that was shown, or from another package's, and that is refused.
LEMMA FreshKeys ==
  ASSUME Base, CacheOK, KeysOK, ServerOK, home = "keys", KeysStep
  PROVE  FreshAreOK
<1>0. Lists = {KeysOf(p) : p \in Packages} /\ KeysOf(subject) \in Lists /\ \A l \in Lists : Items[l] = Items[KeysOf("a")]
  BY PackagesAssumption DEF Base, SessionOK, Lists, KeysOK
<1>1. ASSUME NEW c, Send(c), CasOK(c) PROVE FreshAreOK
  BY <1>1 DEF Send, With, FreshAreOK
<1>2. ASSUME NEW op, NEW kind, NEW item, NEW seen, kind \notin {"cas", "clear"}, Send(Call(op, kind, KeysOf(subject), item, 0, seen)) PROVE FreshAreOK
  <2>1. CasOK(Call(op, kind, KeysOf(subject), item, 0, seen))
    BY <1>2 DEF CasOK, Call
  <2> QED BY <1>1, <1>2, <2>1
<1>3. CASE saveEditKey
  <2> DEFINE s == dialog.seen
             c == Call("editKey", "cas", KeysOf(subject), dialog.item, s.rev, s)
  <2>1. Send(c) /\ dialog.kind = "editKey"
    BY <1>3 DEF saveEditKey
  <2>2. c.kind = "cas" /\ c.list = KeysOf(subject) /\ c.item = dialog.item /\ c.base = s.rev /\ c.seen = s /\ c.rev = 0 /\ c.at = "sent"
    BY NewCall
  <2>3. Owned(s.list, s.rev) /\ dialog.item \in Items[KeysOf(subject)]
    BY <1>0, <2>1 DEF KeysOK, EditOK
  <2>4. s.list # KeysOf(subject) => Stale(KeysOf(subject), dialog.item, s.rev)
    BY <1>0, <2>3 DEF Owned, Stale
  <2> HIDE DEF c
  <2>5. CasOK(c)
    BY <2>2, <2>4 DEF CasOK, Good
  <2> QED BY <1>1, <2>1, <2>5
<1>4. CASE submitAdd
  <2> DEFINE c == Call("addKey", "cas", KeysOf(subject), dialog.item, 0, dialog.seen)
  <2>1. Send(c)
    BY <1>4 DEF submitAdd
  <2>2. c.base = 0
    BY NewCall
  <2> HIDE DEF c
  <2> QED BY <1>1, <2>1, <2>2 DEF CasOK
<1>5. CASE confirmRemoveKey
  BY <1>2, <1>5 DEF confirmRemoveKey
<1>6. CallsCarried => FreshAreOK
  BY DEF CallsCarried, Carries, FreshAreOK
<1>7. CallsOK
  BY DEF Base
<1>8. ASSUME NEW i, KeyReturns(i) PROVE FreshAreOK
  BY <1>6, <1>7, <1>8, AwaitCarries DEF KeyReturns
<1>9. ASSUME NEW p, selectPackage(p) PROVE FreshAreOK
  BY <1>6, <1>7, <1>9, CallsSame DEF selectPackage
<1>10. ASSUME NEW k, openEditKey(k) \/ askRemoveKey(k) \/ renameKey(k) \/ openAdd PROVE FreshAreOK
  BY <1>6, <1>7, <1>10, CallsSame DEF openEditKey, askRemoveKey, renameKey, Open, openAdd
<1> QED BY <1>3, <1>4, <1>5, <1>8, <1>9, <1>10 DEF KeysStep

-----------------------------------------------------------------------------
(* The settings *)

\* The settings of the selected package.
Selected == Settings(subject)

\* Revision r is no later than what is stored of the settings l, if anything is.
NotNewer(l, r) == r \in 0..clock /\ (server[l]["doc"] # 0 => r <= server[l]["doc"])

\* The data d are the settings l, and not newer than the server's.
Held(d, l) == d[1].of = l /\ NotNewer(l, d[1].rows["doc"])

\* What a query of settings holds was there, and is not newer than what is.
SettingQueries ==
  \A l \in Lists :
    /\ cache[l].fetch # "idle" => cache[l].of = l
    /\ cache[l].data # None => Held(cache[l].data, l)
    /\ cache[l].fetch = "answered" => Held(cache[l].answer, l)

\* The settings of the package that is selected were asked for.
Started == page = "settings" => cache[Selected].data # None \/ cache[Selected].fetch # "idle" \/ cache[Selected].error

\* The calls write settings, and the revision the server gave one is of that package.
SavingOK(c) ==
  /\ c.kind \in {"cas", "touch", "clear", "ask"} /\ (c.op = "save" => c.kind # "ask")
  /\ c.kind # "ask" =>
       c.list \in Lists /\ c.item = "doc" /\ c.rev \in 0..clock /\ (c.rev # 0 => Owned(c.list, c.rev))

\* Every call is as SavingOK says, and one save is out at most.
SavesOK ==
  /\ \A i \in DOMAIN calls : SavingOK(calls[i])
  /\ \A i, j \in DOMAIN calls : calls[i].op = "save" /\ calls[j].op = "save" => i = j

\* A copy of settings.
IsDraft(d) ==
  /\ DOMAIN d = {"loaded", "made", "version", "content", "submitted"}
  /\ d.version \in Nat /\ d.made.rev \in Nat /\ d.loaded \in BOOLEAN /\ d.submitted \in BOOLEAN

\* A save of the copy waits for the settings that are selected.
Waiter(i) == calls[i].op = "save" /\ calls[i].at = "refetching" /\ calls[i].waits = Selected

\* The version was taken from a save while the copy shows what was there before it, and the settings are on
\* their way or did not come.
Ahead ==
  LET q == cache[Selected] IN
  /\ draft.version = server[Selected]["doc"] /\ Shown[1].rows["doc"] # draft.version
  /\ q.fetch = "answered" => q.answer[1].rows["doc"] = draft.version
  /\ q.error \/ (q.fetch # "idle" /\ \E i \in DOMAIN calls : Waiter(i))

\* The copy is of the revision r of the settings, or of what its own save returned.
Copied(d, r) == d.made.rev = r \/ (d.submitted /\ (d.made.rev = 0 \/ d.made.rev > r))

\* The copy is of the package that is selected, of its settings in the cache or of its own save, and claims the
\* version it was made from, or one the server will refuse, or one no save can be made from for now.
Placed ==
  page = "settings" /\ Shown # None /\ (draft.loaded \/ draft.version > 0) =>
    /\ draft.made.list = Selected /\ Copied(draft, Shown[1].rows["doc"])
    /\ draft.version \in {0, draft.made.rev} \/ Stale(Selected, "doc", draft.version) \/ Ahead

\* The copy, wherever the admin is.
DraftOK == IsDraft(draft) /\ (page # "settings" => draft = NoDraft) /\ Placed

\* A save under way was sent from this copy, or another was loaded since.
SubmittedOK ==
  \A i \in DOMAIN calls :
    calls[i].op = "save" =>
      /\ page = "settings" /\ (draft.submitted \/ draft.loaded)
      /\ draft.submitted /\ Shown # None /\ calls[i].at \in {"sent", "checked", "ok"} =>
           calls[i].list = Selected /\ (calls[i].at = "ok" => calls[i].rev = 0 \/ calls[i].rev >= Shown[1].rows["doc"])

\* The page of the settings.
SettingsOK ==
  subject \in Packages /\ SettingQueries /\ Started /\ SavesOK /\ DraftOK /\ SubmittedOK

\* The lists of the settings are one of each package.
LEMMA SettingLists ==
  ASSUME SessionOK, home = "settings"
  PROVE  /\ Lists = {Settings(p) : p \in Packages} /\ \A p \in Packages : Settings(p) \in Lists
         /\ \A l \in Lists : "doc" \in Items[l]
         /\ \A p, q : Settings(p) = Settings(q) => p = q
BY PackagesAssumption DEF SessionOK, Lists, Settings

\* What is no later than the settings never will be: they are written later, or go.
LEMMA NotNewerForGood ==
  ASSUME SessionOK, home = "settings", home' = home, ServerOK, ServerMoves, NEW l \in Lists, NEW r, NotNewer(l, r)
  PROVE  r \in 0..clock' /\ (server'[l]["doc"] # 0 => r <= server'[l]["doc"])
<1>1. clock \in Nat /\ "doc" \in Items[l] /\ server[l]["doc"] \in 0..clock
  BY SettingLists DEF ServerOK
<1>2. CASE UNCHANGED <<server, clock>>
  BY <1>2 DEF NotNewer
<1>3. ASSUME NEW t, Writing(t) PROVE r \in 0..clock' /\ (server'[l]["doc"] # 0 => r <= server'[l]["doc"])
  <2>1. clock' = clock + 1 /\ server'[l]["doc"] \in {server[l]["doc"], 0, clock + 1}
    BY <1>1, <1>3 DEF Writing
  <2> QED BY <1>1, <2>1 DEF NotNewer
<1> QED BY <1>2, <1>3 DEF ServerMoves

\* Whatever a step does to the cache, a query of settings holds its own, none newer than the server's.
LEMMA SettingQueriesKept ==
  ASSUME SessionOK, home = "settings", home' = home, SettingQueries, CacheOK, CacheMoves, ServerOK, ServerMoves
  PROVE  SettingQueries'
<1> DEFINE HeldNext(d, l) == /\ d[1].of = l /\ d[1].rows["doc"] \in 0..clock'
                             /\ server'[l]["doc"] # 0 => d[1].rows["doc"] <= server'[l]["doc"]
<1>0. Lists' = Lists
  BY DEF Lists
<1>1. ASSUME NEW l \in Lists, NEW d, Held(d, l) PROVE HeldNext(d, l)
  BY <1>1, NotNewerForGood DEF Held
<1>2. ASSUME NEW l \in Lists PROVE Held(<<[of |-> l, rows |-> server[l]]>>, l)
  <2>1. clock \in Nat /\ server[l]["doc"] \in 0..clock
    BY SettingLists DEF ServerOK
  <2>2. NotNewer(l, server[l]["doc"])
    BY <2>1 DEF NotNewer
  <2> QED BY <2>2 DEF Held
<1>3. ASSUME NEW l \in Lists
      PROVE  /\ cache'[l].fetch # "idle" => cache'[l].of = l
             /\ cache'[l].data # None => Held(cache'[l].data, l)
             /\ cache'[l].fetch = "answered" => Held(cache'[l].answer, l)
  <2>1. Moved(l, cache[l], cache'[l]) /\ cache[l].fetch \in {"idle", "asked", "answered"}
    BY DEF CacheMoves, CacheOK
  <2>2. \A of : AsksOK(l, of) => of = l
    BY DEF AsksOK
  <2>3. /\ cache[l].fetch # "idle" => cache[l].of = l
        /\ cache[l].data # None => Held(cache[l].data, l)
        /\ cache[l].fetch = "answered" => Held(cache[l].answer, l)
    BY DEF SettingQueries
  <2> QED BY <1>2, <2>1, <2>2, <2>3 DEF Moved, Kept, Begun, Got, Came, Gone, Again
<1>4. ASSUME NEW l \in Lists'
      PROVE  /\ cache'[l].fetch # "idle" => cache'[l].of = l
             /\ cache'[l].data # None => HeldNext(cache'[l].data, l)
             /\ cache'[l].fetch = "answered" => HeldNext(cache'[l].answer, l)
  <2> HIDE DEF HeldNext
  <2> QED BY <1>0, <1>1, <1>3
<1> QED BY <1>4 DEF SettingQueries, Held, NotNewer

\* What the calls of this step write.
FreshSaves ==
  \A i \in DOMAIN calls' \ DOMAIN calls :
    LET c == calls'[i] IN
    /\ SavingOK(c) /\ c.at = "sent"
    /\ c.op = "save" => ~Busy("save") /\ c.list = Selected /\ page' = "settings" /\ draft'.submitted

\* When the server has written a save, its revision is the one that is stored.
LEMMA ServedIsStored ==
  ASSUME SessionOK, home = "settings", ServerOK, NEW i \in DOMAIN calls, IsCall(calls[i]), SavingOK(calls[i]),
         calls[i].kind # "ask", Serve(i)
  PROVE  calls'[i].at = "ok" /\ calls'[i].rev = server'[calls[i].list]["doc"]
<1> DEFINE c == calls[i]
<1>1. c.at = "checked" /\ c.kind \in {"cas", "touch", "clear"} /\ c.list \in Lists /\ c.item = "doc" /\ "doc" \in Items[c.list]
  BY SettingLists DEF Serve, SavingOK, Locked
<1>2. calls' = [calls EXCEPT ![i].at = "ok", ![i].rev = Returned(c)]
      /\ server' = IF Writes(c) THEN After(c) ELSE server
  BY <1>1 DEF Serve
<1>3. calls'[i].at = "ok" /\ calls'[i].rev = Returned(c)
  BY <1>2 DEF IsCall
<1>4. CASE Writes(c)
  <2>1. server'[c.list]["doc"] = IF c.kind = "clear" THEN 0 ELSE clock + 1
    BY <1>1, <1>2, <1>4 DEF After
  <2> QED BY <1>3, <1>4, <2>1 DEF Returned
<1>5. CASE ~Writes(c)
  <2>1. server[c.list]["doc"] = IF c.kind = "clear" THEN 0 ELSE c.base
    BY <1>1, <1>5 DEF Writes
  <2> QED BY <1>2, <1>3, <1>5, <2>1 DEF Returned
<1> QED BY <1>4, <1>5

\* The new request is the next one.
LEMMA FreshNumber ==
  ASSUME CallsOK, CallsMove \/ Abandons PROVE \A i \in DOMAIN calls' \ DOMAIN calls : i = sent + 1
<1>1. DOMAIN Orphans \subseteq DOMAIN calls
  BY OrphansCarry DEF Carries
<1> QED BY <1>1 DEF CallsMove, Abandons, CallsCarried, Carries, Advances, Sends, With

\* Every step leaves one save at most, in order.
LEMMA SavesKept ==
  ASSUME SessionOK, home = "settings", home' = home, ServerOK, ServerMoves, SavesOK, FreshSaves,
         CallsOK, CallsMove \/ Abandons
  PROVE  SavesOK'
<1> DEFINE OwnedNext(l, r) == r \in 1..clock' /\ \A m \in Lists' \ {l} : \A x \in Items[m] : server'[m][x] # r
           Next_(c) == c.kind # "ask" => /\ c.list \in Lists /\ c.item = "doc" /\ c.rev \in 0..clock'
                                         /\ c.rev # 0 => OwnedNext(c.list, c.rev)
           Kinds(c) == c.kind \in {"cas", "touch", "clear", "ask"} /\ (c.op = "save" => c.kind # "ask")
<1>0. Lists' = Lists
  BY DEF Lists
<1>1. ASSUME NEW l, NEW r, Owned(l, r) PROVE OwnedNext(l, r)
  <2>1. Owned(l, r)'
    BY <1>1, OwnedForGood
  <2> QED BY <2>1 DEF Owned
<1>2. ASSUME NEW l \in Lists, server'[l]["doc"] # 0 PROVE OwnedNext(l, server'[l]["doc"])
  <2>1. ServerOK' /\ "doc" \in Items[l]
    BY ServerKept, SettingLists
  <2> QED BY <1>0, <1>2, <2>1 DEF ServerOK
<1> HIDE DEF OwnedNext
<1>3. ASSUME NEW c, SavingOK(c) PROVE Next_(c) /\ Kinds(c)
  <2>1. clock \in Nat /\ clock' \in Nat /\ clock' >= clock
    BY DEF ServerOK, ServerMoves, Writing
  <2>2. c.kind # "ask" => /\ c.list \in Lists /\ c.item = "doc" /\ c.rev \in 0..clock
                          /\ c.rev # 0 => OwnedNext(c.list, c.rev)
    BY <1>1, <1>3 DEF SavingOK
  <2> QED BY <1>3, <2>1, <2>2 DEF SavingOK
<1>4. ASSUME NEW c, NEW d, Next_(c), Kinds(c), Same(c, d), d.rev = c.rev PROVE Next_(d) /\ Kinds(d)
  BY <1>4 DEF Same
<1>5. ASSUME NEW i \in DOMAIN calls, Advances(i) PROVE Next_(calls'[i]) /\ Kinds(calls'[i])
  <2>1. SavingOK(calls[i]) /\ Same(calls[i], calls'[i]) /\ IsCall(calls[i]) /\ IsCall(calls'[i])
    BY <1>5 DEF SavesOK, Advances, CallsOK, Same
  <2>2. CASE Check(i)
    <3>1. \E a : calls'[i] = [calls[i] EXCEPT !.at = a]
      BY <2>2 DEF Check
    <3>2. calls'[i].rev = calls[i].rev
      BY <2>1, <3>1 DEF IsCall
    <3> QED BY <1>3, <1>4, <2>1, <3>2
  <2>3. CASE Serve(i) /\ calls[i].kind # "ask"
    <3>1. calls'[i].rev = server'[calls[i].list]["doc"] /\ calls[i].list \in Lists
      BY <2>1, <2>3, ServedIsStored DEF SavingOK
    <3>2. server'[calls[i].list]["doc"] \in 0..clock'
      <4>1. ServerOK' /\ "doc" \in Items[calls[i].list]
        BY <3>1, ServerKept, SettingLists
      <4> QED BY <1>0, <3>1, <4>1 DEF ServerOK
    <3> QED BY <1>2, <2>1, <3>1, <3>2 DEF Same, SavingOK
  <2>4. CASE calls[i].kind = "ask"
    BY <2>1, <2>4 DEF Same, SavingOK
  <2> QED BY <1>5, <2>2, <2>3, <2>4 DEF Advances
<1>6. ASSUME NEW i \in DOMAIN calls' PROVE Next_(calls'[i]) /\ Kinds(calls'[i])
  <2>1. CASE i \in DOMAIN calls /\ Continues(calls[i], calls'[i])
    BY <1>3, <1>4, <2>1 DEF Continues, SavesOK
  <2>2. CASE i \notin DOMAIN calls
    BY <1>3, <2>2 DEF FreshSaves
  <2> QED BY <1>5, <2>1, <2>2, CallsGoOn
<1>7. ASSUME NEW i \in DOMAIN calls', NEW j \in DOMAIN calls', calls'[i].op = "save", calls'[j].op = "save" PROVE i = j
  <2>1. ASSUME NEW k \in DOMAIN calls', calls'[k].op = "save"
        PROVE  IF k \in DOMAIN calls THEN calls[k].op = "save" ELSE ~Busy("save")
    <3>1. CASE k \in DOMAIN calls
      <4>1. Continues(calls[k], calls'[k]) \/ Advances(k)
        BY <3>1, CallsGoOn
      <4>2. Same(calls[k], calls'[k])
        BY <3>1, <4>1 DEF Continues, Advances
      <4> QED BY <2>1, <3>1, <4>2 DEF Same
    <3>2. CASE k \notin DOMAIN calls
      BY <2>1, <3>2 DEF FreshSaves
    <3> QED BY <3>1, <3>2
  <2>2. CASE i \in DOMAIN calls /\ j \in DOMAIN calls
    BY <1>7, <2>1, <2>2 DEF SavesOK
  <2>3. CASE i \notin DOMAIN calls /\ j \notin DOMAIN calls
    <3>1. \A k \in DOMAIN calls' \ DOMAIN calls : k = sent + 1
      BY FreshNumber
    <3> QED BY <2>3, <3>1
  <2> QED BY <1>7, <2>1, <2>2, <2>3 DEF Busy
<1> QED BY <1>0, <1>6, <1>7 DEF SavesOK, SavingOK, OwnedNext, Owned

\* The copy that is edited and the version it claims.
SameCopy(d, e) ==
  IsDraft(e) /\ e.made = d.made /\ e.version = d.version /\ e.loaded = d.loaded /\ (d.submitted => e.submitted)

\* The copy stays, or the watcher makes it anew of the settings that came.
Watches ==
  /\ cache'[Selected].data = cache[Selected].data => SameCopy(draft, draft')
  /\ cache'[Selected].data # cache[Selected].data /\ page = "settings" => draft' = Watch(draft, cache'[Selected].data)
  /\ page # "settings" => draft' = draft

\* Who waits for the settings waits on, or they came, or they did not.
WaitersStay ==
  \/ \A i \in DOMAIN calls : Waiter(i) => i \in DOMAIN calls' /\ calls'[i] = calls[i]
  \/ Came(cache[Selected], cache'[Selected]) \/ cache'[Selected].error

\* A step that changes no selection and makes the copy anew only as the watcher does.
Quiet == page' = page /\ home' = home /\ subject' = subject /\ Watches /\ WaitersStay

\* What Loaded makes of an answer.
LEMMA LoadedDraft == ASSUME NEW d, IsData(d), d[1].rows["doc"] \in Nat
                     PROVE  LET e == Loaded(d) IN
                            /\ IsDraft(e) /\ e.loaded /\ ~e.submitted /\ e.made.list = d[1].of
                            /\ e.made.rev = d[1].rows["doc"] /\ e.version = d[1].rows["doc"]
BY DEF Loaded, IsDraft

\* A quiet step leaves a copy that is of the selection.
LEMMA QuietDraft ==
  ASSUME SessionOK, home = "settings", SettingsOK, CacheOK, CacheMoves, ServerOK, ServerMoves, Quiet
  PROVE  DraftOK' /\ Started'
<1> DEFINE s == Selected
           q == cache[s]
           r == cache'[s]
           StaleNext == s \in Lists' /\ "doc" \in Items[s] /\ draft'.version \in 1..clock' /\ server'[s]["doc"] # draft'.version
           WaitingNext == \E i \in DOMAIN calls' : calls'[i].op = "save" /\ calls'[i].at = "refetching" /\ calls'[i].waits = s
           AheadNext == /\ draft'.version = server'[s]["doc"] /\ r.data[1].rows["doc"] # draft'.version
                        /\ r.fetch = "answered" => r.answer[1].rows["doc"] = draft'.version
                        /\ r.error \/ (r.fetch # "idle" /\ WaitingNext)
           Ok == /\ draft'.made.list = s /\ Copied(draft', r.data[1].rows["doc"])
                 /\ draft'.version \in {0, draft'.made.rev} \/ StaleNext \/ AheadNext
           Need == page' = "settings" /\ r.data # None /\ (draft'.loaded \/ draft'.version > 0)
<1>1. s \in Lists /\ Lists' = Lists /\ "doc" \in Items[s] /\ server[s]["doc"] \in 0..clock /\ clock \in Nat
      /\ clock' \in Nat /\ clock' >= clock
  <2>1. s \in Lists /\ Lists' = Lists /\ "doc" \in Items[s]
    BY SettingLists DEF SettingsOK, Selected, Quiet, Lists
  <2>2. clock' \in Nat /\ clock' >= clock
    BY DEF ServerOK, ServerMoves, Writing
  <2> QED BY <2>1, <2>2 DEF ServerOK
<1>0. Selected' = s /\ page' = page
  BY DEF Selected, Quiet
<1>2. Moved(s, q, r) /\ q.fetch \in {"idle", "asked", "answered"}
  BY <1>1 DEF CacheMoves, CacheOK
<1>3. IsDraft(draft) /\ Shown = q.data /\ Shown' = r.data
  BY <1>0 DEF SettingsOK, DraftOK, Shown, Selected
<1>4. /\ q.data # None => Held(q.data, s)
      /\ q.fetch = "answered" => Held(q.answer, s) /\ IsData(q.answer)
      /\ q.fetch # "idle" => q.of = s
  BY <1>1 DEF SettingsOK, SettingQueries, CacheOK
<1>5. (Need => Ok) => Placed'
  <2>1. Copied(draft, Shown[1].rows["doc"])' <=> Copied(draft', r.data[1].rows["doc"])
    BY <1>3 DEF Copied
  <2> QED BY <1>0, <1>3, <2>1 DEF Placed, Stale, Ahead, Waiter
<1>6. page = "settings" => q.data # None \/ q.fetch # "idle" \/ q.error
  BY DEF SettingsOK, Started
<1>7. Started'
  <2>1. page = "settings" => r.data # None \/ r.fetch # "idle" \/ r.error
    BY <1>2, <1>4, <1>6 DEF Moved, Kept, Begun, Got, Came, Gone, Again, IsData, None
  <2> QED BY <1>0, <2>1 DEF Started
<1>8. ASSUME NEW v, Stale(s, "doc", v) PROVE s \in Lists' /\ "doc" \in Items[s] /\ v \in 1..clock' /\ server'[s]["doc"] # v
  <2>1. PICK l : l = s
    OBVIOUS
  <2>2. Stale(l, "doc", v)'
    BY <1>8, <2>1, StaleForGood DEF Quiet
  <2> QED BY <2>1, <2>2 DEF Stale
<1>9. WaitersStay /\ (\E i \in DOMAIN calls : Waiter(i)) => WaitingNext \/ Came(q, r) \/ r.error
  BY DEF WaitersStay, Waiter
<1> HIDE DEF s, q, r, WaitingNext
<1>10. CASE page # "settings"
  <2>1. draft' = draft /\ draft = NoDraft
    BY <1>10 DEF Quiet, Watches, SettingsOK, DraftOK
  <2> QED BY <1>0, <1>3, <1>5, <1>7, <1>10, <2>1 DEF DraftOK
<1>11. CASE page = "settings" /\ r.data = q.data
  <2>1. SameCopy(draft, draft')
    BY <1>11 DEF Quiet, Watches, q, r, s
  <2>2. ASSUME Need PROVE Ok
    <3>1. /\ draft.made.list = s /\ Copied(draft, q.data[1].rows["doc"])
          /\ draft.version \in {0, draft.made.rev} \/ Stale(s, "doc", draft.version) \/ Ahead
      BY <1>3, <1>11, <2>1, <2>2 DEF SettingsOK, DraftOK, Placed, SameCopy, s
    <3>2. /\ draft.version \in Nat /\ draft'.version = draft.version /\ draft'.made = draft.made
          /\ draft.submitted => draft'.submitted
      BY <1>3, <2>1 DEF IsDraft, SameCopy
    <3>3. Copied(draft', r.data[1].rows["doc"])
      BY <1>11, <3>1, <3>2 DEF Copied
    <3>4. ASSUME Ahead, draft.version # 0, server'[s]["doc"] = draft.version PROVE AheadNext
      <4>1. /\ draft.version = server[s]["doc"] /\ q.data[1].rows["doc"] # draft.version
            /\ q.fetch = "answered" => q.answer[1].rows["doc"] = draft.version
            /\ q.error \/ (q.fetch # "idle" /\ \E i \in DOMAIN calls : Waiter(i))
        BY <1>3, <3>4 DEF Ahead, s, q
      <4>2. ~Came(q, r)
        BY <1>11, <4>1 DEF Came
      <4>3. r.fetch = "answered" => r.answer[1].rows["doc"] = draft.version
        <5>1. Got(q, r) => r.answer[1].rows["doc"] = server[s]["doc"]
          BY <1>4 DEF Got
        <5> QED BY <1>2, <4>1, <4>2, <5>1 DEF Moved, Kept, Begun, Got, Gone, Again
      <4>4. r.error \/ (r.fetch # "idle" /\ WaitingNext)
        <5>1. (\E i \in DOMAIN calls : Waiter(i)) => WaitingNext \/ r.error
          BY <1>9, <4>2 DEF Quiet
        <5> QED BY <1>2, <1>11, <2>2, <4>1, <4>2, <5>1 DEF Moved, Kept, Begun, Got, Gone, Again
      <4> QED BY <1>11, <3>2, <3>4, <4>1, <4>3, <4>4
    <3>5. ASSUME Ahead, draft.version # 0, server'[s]["doc"] # draft.version PROVE StaleNext
      <4>1. draft.version = server[s]["doc"]
        BY <3>5 DEF Ahead, s
      <4> QED BY <1>1, <3>2, <3>5, <4>1
    <3>6. Stale(s, "doc", draft.version) => StaleNext
      BY <1>8, <3>2
    <3> HIDE DEF AheadNext, StaleNext
    <3>7. draft'.version \in {0, draft'.made.rev} \/ StaleNext \/ AheadNext
      BY <3>1, <3>2, <3>4, <3>5, <3>6
    <3> QED BY <3>1, <3>2, <3>3, <3>7
  <2> QED BY <1>5, <1>7, <1>0, <1>11, <2>1, <2>2 DEF DraftOK, SameCopy
<1>12. CASE page = "settings" /\ r.data # q.data
  <2>1. r.data = q.answer /\ q.fetch = "answered"
    BY <1>2, <1>12 DEF Moved, Kept, Begun, Got, Came, Gone, Again
  <2>2. r.data # None /\ IsData(r.data) /\ Held(r.data, s)
    BY <1>4, <2>1 DEF IsData, None
  <2>3. draft' = Loaded(r.data)
    BY <1>12, <2>2 DEF Quiet, Watches, Watch, s, q, r
  <2>4. r.data[1].of = s /\ r.data[1].rows["doc"] \in Nat
    BY <1>1, <2>2 DEF Held, NotNewer
  <2>5. IsDraft(draft') /\ draft'.made.list = s /\ draft'.made.rev = r.data[1].rows["doc"] /\ draft'.version = draft'.made.rev
    BY <2>2, <2>3, <2>4, LoadedDraft
  <2>6. Ok
    BY <2>5 DEF Copied
  <2> QED BY <1>5, <1>7, <1>0, <1>12, <2>5, <2>6 DEF DraftOK
<1> QED BY <1>10, <1>11, <1>12

\* The server gets on with a save: once it is accepted, its revision is the one stored.
LEMMA AdvancesOn ==
  ASSUME SessionOK, home = "settings", ServerOK, CallsOK, SavesOK, NEW i \in DOMAIN calls, Advances(i), calls[i].op = "save"
  PROVE  /\ calls[i].at \in {"sent", "checked"} /\ calls[i].list \in Lists
         /\ calls'[i].at # "ok" \/ calls'[i].rev = server'[calls[i].list]["doc"]
<1>1. IsCall(calls[i]) /\ SavingOK(calls[i]) /\ calls[i].kind # "ask" /\ calls[i].list \in Lists
  BY DEF CallsOK, SavesOK, SavingOK
<1>2. CASE Check(i)
  <2>1. calls[i].at = "sent" /\ \E a \in {"checked", "refused"} : calls' = [calls EXCEPT ![i].at = a]
    BY <1>2 DEF Check
  <2>2. calls'[i].at # "ok"
    BY <1>1, <2>1 DEF IsCall
  <2> QED BY <1>1, <2>1, <2>2
<1>3. CASE Serve(i)
  <2>1. calls[i].at \in {"sent", "checked"}
    BY <1>3 DEF Serve
  <2> QED BY <1>1, <1>3, <2>1, ServedIsStored
<1> QED BY <1>2, <1>3 DEF Advances

\* A quiet step that sends no save leaves the copy what the save under way relies on.
LEMMA QuietSubmitted ==
  ASSUME SessionOK, home = "settings", SettingsOK, CallsOK, CallsMove \/ Abandons, CacheOK, CacheMoves, ServerOK, ServerMoves,
         Quiet,
         cache'[Selected].data = cache[Selected].data => draft'.submitted = draft.submitted,
         \A i \in DOMAIN calls' \ DOMAIN calls : calls'[i].op # "save"
  PROVE  SubmittedOK'
<1> DEFINE s == Selected
           q == cache[s]
           r == cache'[s]
<1>0. Selected' = s /\ page' = page
  BY DEF Selected, Quiet
<1>1. s \in Lists
  BY SettingLists DEF SettingsOK, Selected
<1>2. Moved(s, q, r) /\ q.fetch \in {"idle", "asked", "answered"}
  BY <1>1 DEF CacheMoves, CacheOK
<1>3. Shown = q.data /\ Shown' = r.data
  BY <1>0 DEF Shown, Selected
<1>4. /\ q.data # None => Held(q.data, s)
      /\ q.fetch = "answered" => Held(q.answer, s) /\ IsData(q.answer)
  BY <1>1 DEF SettingsOK, SettingQueries, CacheOK
<1>5. cache'[Selected].data = cache[Selected].data => draft'.submitted = draft.submitted
  OBVIOUS
<1> HIDE DEF s, q, r
<1>6. ASSUME NEW i \in DOMAIN calls', calls'[i].op = "save"
      PROVE  /\ page' = "settings" /\ (draft'.submitted \/ draft'.loaded)
             /\ draft'.submitted /\ r.data # None /\ calls'[i].at \in {"sent", "checked", "ok"} =>
                  calls'[i].list = s /\ (calls'[i].at = "ok" => calls'[i].rev = 0 \/ calls'[i].rev >= r.data[1].rows["doc"])
  <2>1. i \in DOMAIN calls /\ (Continues(calls[i], calls'[i]) \/ Advances(i))
    BY <1>6, CallsGoOn
  <2>2. calls[i].op = "save" /\ calls'[i].list = calls[i].list
    BY <1>6, <2>1 DEF Continues, Advances, Same
  <2>3. /\ page = "settings" /\ (draft.submitted \/ draft.loaded)
        /\ draft.submitted /\ q.data # None /\ calls[i].at \in {"sent", "checked", "ok"} =>
             calls[i].list = s /\ (calls[i].at = "ok" => calls[i].rev = 0 \/ calls[i].rev >= q.data[1].rows["doc"])
    BY <1>3, <2>1, <2>2 DEF SettingsOK, SubmittedOK, s
  <2>4. CASE r.data = q.data
    <3>1. draft'.submitted = draft.submitted /\ draft'.loaded = draft.loaded
      BY <1>5, <2>4 DEF Quiet, Watches, SameCopy, s, q, r
    <3>2. ASSUME draft'.submitted, r.data # None, calls'[i].at \in {"sent", "checked", "ok"}
          PROVE  calls'[i].list = s /\ (calls'[i].at = "ok" => calls'[i].rev = 0 \/ calls'[i].rev >= r.data[1].rows["doc"])
      <4>1. CASE Continues(calls[i], calls'[i])
        BY <2>2, <2>3, <2>4, <3>1, <3>2, <4>1 DEF Continues
      <4>2. CASE Advances(i)
        <5>1. /\ calls[i].at \in {"sent", "checked"}
              /\ calls'[i].at # "ok" \/ calls'[i].rev = server'[calls[i].list]["doc"]
          BY <2>1, <2>2, <4>2, AdvancesOn DEF SettingsOK
        <5>2. calls[i].list = s
          BY <2>3, <2>4, <3>1, <3>2, <5>1
        <5>3. server'[s]["doc"] # 0 => r.data[1].rows["doc"] <= server'[s]["doc"]
          BY <1>1, <1>4, <2>4, <3>2, NotNewerForGood DEF Held, Quiet
        <5>4. server'[s]["doc"] \in Nat /\ r.data[1].rows["doc"] \in Nat
          <6>1. ServerOK' /\ s \in Lists' /\ "doc" \in Items[s]
            BY <1>1, ServerKept, SettingLists DEF Quiet, Lists
          <6>2. clock \in Nat /\ NotNewer(s, r.data[1].rows["doc"])
            BY <1>4, <2>4, <3>2 DEF ServerOK, Held
          <6> QED BY <6>1, <6>2 DEF ServerOK, NotNewer
        <5> QED BY <2>2, <5>1, <5>2, <5>3, <5>4
      <4> QED BY <2>1, <4>1, <4>2
    <3> QED BY <1>0, <2>3, <3>1, <3>2
  <2>5. CASE r.data # q.data
    <3>1. r.data = q.answer /\ q.fetch = "answered"
      BY <1>2, <2>5 DEF Moved, Kept, Begun, Got, Came, Gone, Again
    <3>2. r.data # None /\ IsData(r.data) /\ r.data[1].rows["doc"] \in Nat
      <4>1. clock \in Nat
        BY DEF ServerOK
      <4> QED BY <1>4, <3>1, <4>1 DEF IsData, None, Held, NotNewer
    <3>3. draft' = Loaded(r.data)
      BY <2>3, <2>5, <3>2 DEF Quiet, Watches, Watch, s, q, r
    <3>4. draft'.loaded /\ ~draft'.submitted
      BY <3>2, <3>3, LoadedDraft
    <3> QED BY <1>0, <2>3, <3>4
  <2> QED BY <2>4, <2>5
<1> QED BY <1>0, <1>3, <1>6 DEF SubmittedOK

\* A handler that awaits a refetch is not dropped.
LEMMA LiveKeeps ==
  ASSUME NEW cs, NEW i \in DOMAIN cs, cs[i].at # "done" PROVE i \in DOMAIN Live(cs) /\ Live(cs)[i] = cs[i]
BY DEF Live, Restrict

\* Nor when another one ends.
LEMMA OverKeeps ==
  ASSUME CallsOK, NEW i, Over(i), i \in DOMAIN calls => calls[i].at # "refetching"
  PROVE  WaitersStay
<1> DEFINE ds == [calls EXCEPT ![i].at = "done"]
<1>1. calls' = Live(ds) /\ DOMAIN ds = DOMAIN calls /\ \A j \in DOMAIN calls : j # i => ds[j] = calls[j]
  BY DEF Over
<1> HIDE DEF ds
<1>2. ASSUME NEW j \in DOMAIN calls, Waiter(j) PROVE j \in DOMAIN calls' /\ calls'[j] = calls[j]
  <2>1. j # i /\ calls[j].at # "done"
    BY <1>2 DEF Waiter
  <2> QED BY <1>1, <2>1, LiveKeeps
<1> QED BY <1>2 DEF WaitersStay

\* Nor when another fetch is answered.
LEMMA SettledKeeps ==
  ASSUME CallsOK, NEW l, l # Selected, calls' = Live(Settled(calls, {l}))
  PROVE  WaitersStay
<1>1. ASSUME NEW j \in DOMAIN calls, Waiter(j) PROVE j \in DOMAIN calls' /\ calls'[j] = calls[j]
  <2>1. j \in DOMAIN Settled(calls, {l}) /\ Settled(calls, {l})[j] = calls[j] /\ calls[j].at # "done"
    BY <1>1 DEF Waiter, Settled
  <2> QED BY <2>1, LiveKeeps
<1> QED BY <1>1 DEF WaitersStay

\* The network and the server change no selection.
LEMMA ClientStays == ClientStep \/ CloseDialog => UNCHANGED <<subject, page, home>>
BY DEF ClientStep, Read, Deliver, FetchDenied, FetchFails, GiveUp, FetchAgain, OtherWrites, Focus, Check, Serve,
   Lose, Denied, OrphanReturns, HandlerFails, CloseDialog, sessionVars

\* They let a handler go on only when its fetch is over.
LEMMA ClientWaiters ==
  ASSUME SessionOK, home = "settings", subject \in Packages, CacheOK, CallsOK, ClientStep \/ CloseDialog
  PROVE  WaitersStay
<1>0. Selected \in Lists
  BY SettingLists DEF Selected
<1>1. UNCHANGED calls => WaitersStay
  BY DEF WaitersStay
<1>2. CASE CloseDialog \/ Focus
  BY <1>1, <1>2 DEF CloseDialog, Focus, handlers
<1>3. CASE \E l \in Lists : Read(l) \/ FetchAgain(l) \/ \E x \in Items[l] : OtherWrites(l, x)
  BY <1>1, <1>3 DEF Read, FetchAgain, OtherWrites, handlers
<1>4. ASSUME NEW l \in Lists, Deliver(l) PROVE WaitersStay
  <2>1. CASE l = Selected
    <3>1. cache' = [cache EXCEPT ![l].fetch = "idle", ![l].data = cache[l].answer, ![l].answer = None, ![l].error = FALSE]
          /\ cache[l].fetch = "answered" /\ IsQuery(cache[l]) /\ l \in DOMAIN cache
      BY <1>4 DEF Deliver, CacheOK
    <3>2. Came(cache[l], cache'[l])
      BY <3>1 DEF Came, IsQuery
    <3> QED BY <2>1, <3>2 DEF WaitersStay
  <2>2. CASE l # Selected
    BY <1>4, <2>2, SettledKeeps DEF Deliver
  <2> QED BY <2>1, <2>2
<1>5. ASSUME NEW l \in Lists, FetchDenied(l) \/ FetchFails(l) PROVE WaitersStay
  <2>1. CASE l = Selected
    <3>1. cache' = [cache EXCEPT ![l].fetch = "idle", ![l].error = TRUE] /\ IsQuery(cache[l]) /\ l \in DOMAIN cache
      BY <1>5 DEF FetchDenied, FetchFails, GiveUp, CacheOK
    <3>2. cache'[l].error
      BY <3>1 DEF IsQuery
    <3> QED BY <2>1, <3>2 DEF WaitersStay
  <2>2. CASE l # Selected
    BY <1>5, <2>2, SettledKeeps DEF FetchDenied, FetchFails, GiveUp
  <2> QED BY <2>1, <2>2
<1>6. ASSUME NEW i \in DOMAIN calls, Check(i) \/ Serve(i) \/ Lose(i) \/ Denied(i) PROVE WaitersStay
  <2>1. calls[i].at # "refetching"
    BY <1>6 DEF Check, Serve, Lose, Denied
  <2>2. DOMAIN calls' = DOMAIN calls /\ \A j \in DOMAIN calls : j # i => calls'[j] = calls[j]
    BY <1>6 DEF Check, Serve, Lose, Denied
  <2> QED BY <2>1, <2>2 DEF WaitersStay, Waiter
<1>7. ASSUME NEW i \in DOMAIN calls, OrphanReturns(i) \/ HandlerFails(i) PROVE WaitersStay
  BY <1>7, OverKeeps DEF OrphanReturns, HandlerFails
<1> QED BY <1>2, <1>3, <1>4, <1>5, <1>6, <1>7 DEF ClientStep

\* The copy goes on.
Still == Quiet /\ (cache'[Selected].data = cache[Selected].data => draft'.submitted = draft.submitted)

\* They are quiet.
LEMMA ClientStill ==
  ASSUME SessionOK, home = "settings", SettingsOK, CacheOK, CallsOK, ClientStep \/ CloseDialog, Watching
  PROVE  Still
<1>1. UNCHANGED <<subject, page, home>> /\ WaitersStay
  BY ClientStays, ClientWaiters DEF SettingsOK
<1>2. IsDraft(draft) /\ Shown = cache[Selected].data
  BY DEF SettingsOK, DraftOK, Shown, Selected
<1>3. Watches /\ (cache'[Selected].data = cache[Selected].data => draft' = draft)
  BY <1>1, <1>2 DEF Watching, Watched, Watches, SameCopy, Selected
<1> QED BY <1>1, <1>3 DEF Still, Quiet

\* So are the steps of the session.
LEMMA SessionStill ==
  ASSUME SettingsOK, SessionStep, UNCHANGED <<clientVars, pageVars>>
  PROVE  Still
<1>1. UNCHANGED <<subject, calls, cache, draft>> /\ page' = page /\ home' = home
  BY StayingPage DEF clientVars, pageVars, handlers, PageStays
<1>2. IsDraft(draft)
  BY DEF SettingsOK, DraftOK
<1> QED BY <1>1, <1>2 DEF Still, Quiet, Watches, WaitersStay, SameCopy

\* The steps of the page that leave the copy what it is.
Leisure ==
  \/ \E c : edit(c)
  \/ resetDefaults /\ Busy("save")
  \/ runTask
  \/ \E i \in DOMAIN calls : SaveConflict(i) \/ TaskReturns(i)

\* Typing changes the content only.
LEMMA EditedDraft ==
  ASSUME IsDraft(draft), NEW x, draft' = [draft EXCEPT !.content = x]
  PROVE  SameCopy(draft, draft') /\ draft'.submitted = draft.submitted
BY DEF IsDraft, SameCopy

\* So are the handlers that send nothing and load nothing.
LEMMA LeisureStill ==
  ASSUME SessionOK, home = "settings", SettingsOK, CacheOK, CallsOK, page = "settings", Leisure
  PROVE  Still
<1>0. Selected \in Lists /\ IsDraft(draft) /\ IsQuery(cache[Selected]) /\ Selected \in DOMAIN cache
  BY SettingLists DEF Selected, SettingsOK, DraftOK, CacheOK
<1>1. ASSUME UNCHANGED <<subject, page, home>>, SameCopy(draft, draft'), draft'.submitted = draft.submitted, WaitersStay,
             cache'[Selected].data = cache[Selected].data
      PROVE  Still
  BY <1>1 DEF Still, Quiet, Watches
<1>2. UNCHANGED draft => SameCopy(draft, draft') /\ draft'.submitted = draft.submitted
  BY <1>0 DEF SameCopy
<1>3. UNCHANGED handlers => WaitersStay
  BY DEF handlers, WaitersStay
<1>4. ASSUME NEW c, edit(c) PROVE Still
  BY <1>0, <1>1, <1>3, <1>4, EditedDraft DEF edit, draftless, sessionVars
<1>5. CASE resetDefaults /\ Busy("save")
  BY <1>0, <1>1, <1>3, <1>5, EditedDraft DEF resetDefaults, draftless, sessionVars
<1>6. CASE runTask
  <2>1. WaitersStay
    BY <1>6 DEF runTask, Send, With, WaitersStay
  <2> QED BY <1>1, <1>2, <1>6, <2>1 DEF runTask, draftless, sessionVars
<1>7. ASSUME NEW i \in DOMAIN calls, TaskReturns(i) PROVE Still
  <2>1. WaitersStay
    BY <1>7, OverKeeps DEF TaskReturns, Answered
  <2> QED BY <1>1, <1>2, <1>7, <2>1 DEF TaskReturns, draftless, sessionVars
<1>8. ASSUME NEW i \in DOMAIN calls, SaveConflict(i) PROVE Still
  <2>1. calls[i].op = "save" /\ calls[i].at = "refused" /\ Await(i, Selected) /\ UNCHANGED <<draft, draftless>>
    BY <1>8 DEF SaveConflict, Selected
  <2>2. WaitersStay
    BY <2>1 DEF SettingsOK, SavesOK, Waiter, WaitersStay
  <2>3. \E of : cache'[Selected] = Refetch(cache[Selected], of)
    BY <1>0, <2>1 DEF Await
  <2>4. cache'[Selected].data = cache[Selected].data
    BY <1>0, <2>3, JoinIs DEF Kept, Begun
  <2> QED BY <1>1, <1>2, <2>1, <2>2, <2>4 DEF draftless, sessionVars
<1> QED BY <1>4, <1>5, <1>6, <1>7, <1>8 DEF Leisure

\* The copy, the cache and the saves; everything but the lists of the queries and the saves for themselves.
CopyOK == Started /\ DraftOK /\ SubmittedOK

\* A still step keeps the copy in order.
LEMMA StillKeeps ==
  ASSUME SessionOK, home = "settings", SettingsOK, CallsOK, CallsMove \/ Abandons, CacheOK, CacheMoves, ServerOK, ServerMoves,
         Still, \A i \in DOMAIN calls' \ DOMAIN calls : calls'[i].op # "save"
  PROVE  CopyOK'
BY QuietDraft, QuietSubmitted DEF Still, CopyOK

\* So does selecting another package: the copy waits for the settings of that one.
LEMMA SelectKeeps ==
  ASSUME SessionOK, home = "settings", SettingsOK, CallsOK, CacheOK, ServerOK, NEW p \in Packages, page = "settings",
         selectPackage(p)
  PROVE  CopyOK'
<1> DEFINE s == Settings(p)
           q == cache[s]
           r == cache'[s]
<1>1. s \in Lists /\ Selected' = s /\ Selected \in Lists /\ s # Selected /\ server[s]["doc"] \in Nat
  <2>1. subject \in Packages /\ subject' = p /\ p # subject
    BY DEF selectPackage, SettingsOK
  <2>2. "doc" \in Items[s] /\ s \in Lists
    BY SettingLists
  <2>3. clock \in Nat /\ \A l \in Lists : \A x \in Items[l] : server[l][x] \in 0..clock
    BY DEF ServerOK
  <2> QED BY <2>1, <2>2, <2>3, SettingLists DEF Selected
<1>2. /\ cache' = [cache EXCEPT ![s] = Join(@, s)] /\ draft' = Watched(draft)
      /\ page' = page /\ calls' = calls /\ server' = server /\ clock' = clock /\ subject' = p
  BY DEF selectPackage, sessionVars, handlers
<1>3. r = Join(q, s) /\ IsQuery(q)
  BY <1>1, <1>2 DEF CacheOK
<1>4. r.data = q.data /\ (r.fetch # "idle")
  <2>1. Kept(q, r) \/ (Begun(q, r) /\ r.of = s)
    BY <1>3, JoinIs
  <2>2. q.fetch = "idle" => Begun(q, r)
    BY <1>3, StartIs DEF Join
  <2> QED BY <2>1, <2>2 DEF Kept, Begun
<1>5. Shown = cache[Selected].data /\ Shown' = r.data
  BY <1>2 DEF Shown, Selected
<1>6. draft' = IF r.data = Shown THEN draft ELSE Watch(draft, r.data)
  BY <1>2 DEF Watched
<1>7. (q.data # None => Held(q.data, s) /\ IsData(q.data)) /\ (Shown # None => Held(Shown, Selected))
  BY <1>1, <1>5 DEF SettingsOK, SettingQueries, CacheOK
<1> HIDE DEF s, q, r
<1>8. Started'
  BY <1>1, <1>4 DEF Started, r
<1>9. CASE r.data = None
  <2>1. draft' = draft /\ Shown' = None
    BY <1>5, <1>6, <1>9 DEF Watch
  <2>2. DraftOK'
    BY <1>2, <2>1 DEF SettingsOK, DraftOK, Placed
  <2>3. SubmittedOK'
    BY <1>2, <2>1 DEF SettingsOK, SubmittedOK
  <2> QED BY <1>8, <2>2, <2>3 DEF CopyOK
<1>10. CASE r.data # None
  <2>1. r.data # Shown /\ IsData(r.data) /\ r.data[1].of = s /\ r.data[1].rows["doc"] \in Nat
    <3>1. clock \in Nat
      BY DEF ServerOK
    <3> QED BY <1>1, <1>4, <1>7, <1>10, <3>1 DEF Held, NotNewer
  <2>2. draft' = Loaded(r.data)
    BY <1>6, <1>10, <2>1 DEF Watch
  <2>3. /\ IsDraft(draft') /\ draft'.loaded /\ ~draft'.submitted /\ draft'.made.list = s
        /\ draft'.made.rev = r.data[1].rows["doc"] /\ draft'.version = draft'.made.rev
    BY <1>1, <2>1, <2>2, LoadedDraft
  <2>5. Placed'
    BY <1>1, <1>5, <2>3 DEF Placed, Copied
  <2>6. DraftOK'
    BY <1>2, <2>3, <2>5 DEF DraftOK
  <2>7. SubmittedOK'
    BY <1>2, <2>3 DEF SubmittedOK
  <2> QED BY <1>8, <2>6, <2>7 DEF CopyOK
<1> QED BY <1>9, <1>10

\* The copy is sent.
LEMMA SavingKeeps ==
  ASSUME SettingsOK, CallsOK, page = "settings", NEW d, SameCopy(draft, d), Saving(d), UNCHANGED <<draftless, cache>>
  PROVE  CopyOK'
<1>1. UNCHANGED <<server, clock, subject, page, cache>> /\ Lists' = Lists
  BY DEF draftless, sessionVars, Lists
<1>2. Selected' = Selected /\ Shown' = Shown
  BY <1>1 DEF Selected, Shown
<1>3. SameCopy(draft, draft') /\ draft'.submitted
  BY DEF Saving, SameCopy, IsDraft
<1>4. Started'
  BY <1>1, <1>2 DEF SettingsOK, Started
<1>5. PICK c : Send(c) /\ c.op = "save" /\ c.list = Selected /\ c.at = "sent" /\ ~Busy("save")
  BY NewCall DEF Saving, Selected
<1>6. \A i \in DOMAIN calls : i \in DOMAIN calls' /\ calls'[i] = calls[i]
  BY <1>5 DEF Send, With
<1>7. \A i \in DOMAIN calls' : i \in DOMAIN calls \/ calls'[i] = c
  BY <1>5 DEF Send, With
<1>8. Ahead => Ahead'
  BY <1>1, <1>2, <1>3, <1>6 DEF Ahead, Waiter, SameCopy
<1>9. Placed'
  <2>1. draft'.made = draft.made /\ draft'.version = draft.version /\ draft'.loaded = draft.loaded
        /\ \A x : Copied(draft, x) => Copied(draft', x)
    BY <1>3 DEF SameCopy, Copied
  <2>2. Stale(Selected, "doc", draft.version) => Stale(Selected, "doc", draft.version)'
    BY <1>1, <1>2, <2>1 DEF Stale
  <2>3. Copied(draft, Shown[1].rows["doc"]) => Copied(draft, Shown[1].rows["doc"])'
    BY <1>2, <2>1 DEF Copied
  <2> QED BY <1>1, <1>2, <1>8, <2>1, <2>2, <2>3 DEF SettingsOK, DraftOK, Placed
<1>10. SubmittedOK'
  <2>1. ASSUME NEW i \in DOMAIN calls', calls'[i].op = "save" PROVE calls'[i] = c
    BY <1>5, <1>6, <1>7, <2>1 DEF Busy
  <2> QED BY <1>1, <1>2, <1>3, <1>5, <2>1 DEF SubmittedOK
<1> QED BY <1>1, <1>3, <1>4, <1>9, <1>10 DEF CopyOK, DraftOK, SameCopy

\* The version of the save is taken over.
LEMMA ReturnKeeps ==
  ASSUME SessionOK, home = "settings", SettingsOK, CallsOK, CacheOK, ServerOK, page = "settings",
         NEW i \in DOMAIN calls, SaveReturns(i)
  PROVE  CopyOK'
<1> DEFINE s == Selected
           q == cache[s]
           r == cache'[s]
           c == calls[i]
           srv == server[s]["doc"]
           cs == IF q.data # None THEN Settled(calls, {s}) ELSE calls
           ds == [cs EXCEPT ![i].at = "refetching", ![i].waits = s]
<1>1. s \in Lists /\ clock \in Nat /\ srv \in 0..clock
  <2>1. clock \in Nat /\ \A l \in Lists : \A x \in Items[l] : server[l][x] \in 0..clock
    BY DEF ServerOK
  <2>2. s \in Lists /\ "doc" \in Items[s]
    BY SettingLists DEF SettingsOK, Selected
  <2> QED BY <2>1, <2>2
<1>2. UNCHANGED <<server, clock, subject, page, home>> /\ Await(i, s) /\ c.op = "save" /\ c.at = "ok"
  BY DEF SaveReturns, draftless, sessionVars, Answered, Selected
<1>3. draft' = [draft EXCEPT !.version = c.rev, !.made = IF draft.submitted THEN [list |-> c.list, rev |-> c.rev] ELSE @]
  BY DEF SaveReturns
<1>4. IsDraft(draft) /\ Shown = q.data /\ Placed
  BY DEF SettingsOK, DraftOK, Shown, Selected
<1>5. c.list \in Lists /\ c.rev \in 0..clock /\ (c.rev # 0 => Owned(c.list, c.rev)) /\ c.rev \in Nat
  BY <1>1, <1>2 DEF SettingsOK, SavesOK, SavingOK
<1>6. /\ draft.submitted \/ draft.loaded
      /\ draft.submitted /\ q.data # None => c.list = s /\ (c.rev = 0 \/ c.rev >= q.data[1].rows["doc"])
  BY <1>2, <1>4 DEF SettingsOK, SubmittedOK
<1>7. q.data # None => Held(q.data, s)
  BY <1>1 DEF SettingsOK, SettingQueries
<1>8. r = Refetch(q, Asks(s, subject)) /\ IsQuery(q)
  BY <1>1, <1>2 DEF Await, CacheOK
<1>9. r.data = q.data /\ (q.data # None => r.fetch = "asked") /\ (r.data # None \/ r.fetch # "idle")
  <2>1. Kept(q, r) \/ (Begun(q, r) /\ r.of = Asks(s, subject))
    BY <1>8, JoinIs
  <2>2. q.fetch = "idle" \/ q.data # None => Begun(q, r)
    BY <1>8, StartIs DEF Refetch
  <2> QED BY <2>1, <2>2 DEF Kept, Begun
<1>10. Selected' = s /\ Shown' = r.data
  BY <1>2 DEF Selected, Shown
<1>11. IsDraft(draft') /\ draft'.version = c.rev /\ draft'.loaded = draft.loaded /\ draft'.submitted = draft.submitted
       /\ draft'.made = IF draft.submitted THEN [list |-> c.list, rev |-> c.rev] ELSE draft.made
  BY <1>3, <1>4, <1>5 DEF IsDraft
<1>12. i \in DOMAIN calls' /\ calls'[i].op = "save" /\ calls'[i].at = "refetching" /\ calls'[i].waits = s
  <2>1. calls' = Live(ds)
    BY <1>2 DEF Await
  <2>2. DOMAIN cs = DOMAIN calls /\ cs[i] = c
    BY <1>2 DEF Settled
  <2>3. i \in DOMAIN ds /\ ds[i] = [c EXCEPT !.at = "refetching", !.waits = s]
    BY <2>2
  <2>4. IsCall(c)
    BY DEF CallsOK
  <2> HIDE DEF ds, c
  <2>5. ds[i].op = c.op /\ ds[i].at = "refetching" /\ ds[i].waits = s
    BY <2>3, <2>4 DEF IsCall
  <2>6. i \in DOMAIN Live(ds) /\ Live(ds)[i] = ds[i]
    BY <2>3, <2>5, LiveKeeps
  <2>7. c.op = "save"
    BY <1>2
  <2> QED BY <2>1, <2>5, <2>6, <2>7
<1>13. \A j \in DOMAIN calls' : calls'[j].op = "save" => j = i
  <2>1. Carries(calls, calls')
    BY <1>2, AwaitCarries DEF CallsCarried
  <2>2. \A j \in DOMAIN calls' : j \in DOMAIN calls /\ calls'[j].op \in {calls[j].op, "orphan"}
    BY <2>1 DEF Carries, Continues, Same
  <2> QED BY <1>2, <2>2 DEF SettingsOK, SavesOK
<1> HIDE DEF s, q, r, c, srv, cs, ds
<1>14. Started'
  BY <1>9, <1>10 DEF Started, r
<1>15. SubmittedOK'
  BY <1>2, <1>6, <1>11, <1>12, <1>13 DEF SubmittedOK
<1>16. ASSUME q.data # None PROVE Placed'
  <2>0. clock \in Nat /\ q.data[1].rows["doc"] \in Nat
    BY <1>1, <1>7, <1>16 DEF Held, NotNewer
  <2>2. CASE draft.submitted
    <3>1. c.list = s /\ (c.rev = 0 \/ c.rev >= q.data[1].rows["doc"])
      BY <1>6, <1>16, <2>2
    <3>2. draft'.made.list = s /\ draft'.made.rev = c.rev /\ draft'.version = c.rev /\ draft'.submitted
      BY <1>11, <2>2, <3>1
    <3>3. Copied(draft', q.data[1].rows["doc"])
      BY <1>5, <2>0, <3>1, <3>2 DEF Copied
    <3> QED BY <1>9, <1>10, <3>2, <3>3 DEF Placed, Copied
  <2>3. CASE ~draft.submitted
    <3>1. draft.made.list = s /\ draft.made.rev = q.data[1].rows["doc"] /\ draft'.made = draft.made
      BY <1>4, <1>6, <1>11, <1>16, <2>3 DEF Placed, Copied, s
    <3>2. c.list # s /\ c.rev # 0 => Stale(s, "doc", c.rev)
      BY <1>1, <1>5, SettingLists DEF Owned, Stale
    <3>3. c.rev # srv /\ c.rev # 0 => Stale(s, "doc", c.rev)
      BY <1>1, <1>5, SettingLists DEF Stale, srv
    <3>4. Stale(s, "doc", c.rev) => Stale(Selected, "doc", draft.version)'
      BY <1>2, <1>10, <1>11 DEF Stale, Lists
    <3>5. c.rev = srv /\ c.rev # draft.made.rev => Ahead'
      BY <1>2, <1>9, <1>10, <1>11, <1>12, <1>16, <3>1 DEF Ahead, Waiter, srv, r
    <3>6. draft'.version \in {0, draft'.made.rev} \/ Stale(Selected, "doc", draft.version)' \/ Ahead'
      BY <1>11, <3>1, <3>2, <3>3, <3>4, <3>5
    <3>7. draft'.made.list = s /\ Copied(draft', r.data[1].rows["doc"])
      BY <1>9, <3>1 DEF Copied
    <3> QED BY <1>10, <3>6, <3>7 DEF Placed, Copied
  <2>4. draft.submitted \in BOOLEAN
    BY <1>4 DEF IsDraft
  <2> QED BY <2>2, <2>3, <2>4
<1>17. ASSUME q.data = None PROVE Placed'
  BY <1>9, <1>10, <1>17 DEF Placed
<1>18. DraftOK'
  BY <1>2, <1>11, <1>16, <1>17 DEF DraftOK
<1> QED BY <1>14, <1>15, <1>18 DEF CopyOK

\* No copy is a copy that was not loaded.
LEMMA EmptyDraft == IsDraft(NoDraft) /\ ~NoDraft.loaded /\ NoDraft.version = 0
BY DEF NoDraft, IsDraft

\* The page is mounted, or gone.
LEMMA MountKeeps ==
  ASSUME SessionOK, home = "settings", SettingsOK, CallsOK, CacheOK,
         (EnterPage /\ page \in {"none", "login"} /\ Route = home) \/ LeavePage
  PROVE  CopyOK'
<1>1. draft' = NoDraft
  BY DEF EnterPage, LeavePage, pageVars, SettingsOK, DraftOK
<1>2. \A i \in DOMAIN calls' : calls'[i].op = "orphan"
  <2>1. calls' = Orphans
    BY DEF EnterPage, LeavePage, Mount
  <2> QED BY <2>1, OrphansCarry
<1>3. DraftOK' /\ SubmittedOK'
  BY <1>1, <1>2, EmptyDraft DEF DraftOK, Placed, SubmittedOK
<1>4. Started'
  <2>1. CASE LeavePage
    BY <2>1 DEF LeavePage, ShowLogin, Started
  <2>2. CASE EnterPage /\ Route = home
    <3>1. subject' = subject /\ Selected \in Lists /\ Mount("settings", {Selected})
      BY <2>2, SettingLists DEF EnterPage, Selected, Settings, SettingsOK
    <3>2. cache'[Selected] = Join(cache[Selected], Asks(Selected, subject)) /\ IsQuery(cache[Selected])
      BY <3>1 DEF Mount, CacheOK
    <3>3. cache'[Selected].fetch # "idle"
      <4>1. cache[Selected].fetch = "idle" => cache'[Selected].fetch = "asked"
        BY <3>2, StartIs DEF Join, Begun
      <4>2. cache[Selected].fetch # "idle" => Kept(cache[Selected], cache'[Selected])
        BY <3>2, JoinedIs DEF Join
      <4> QED BY <4>1, <4>2 DEF Kept
    <3> QED BY <3>1, <3>3 DEF Started, Selected
  <2> QED BY <2>1, <2>2
<1> QED BY <1>3, <1>4 DEF CopyOK

\* Without a new request there is nothing to show of one.
LEMMA CarriedHasNoFresh == CallsCarried => FreshAreOK /\ FreshSaves
BY DEF CallsCarried, Carries, FreshAreOK, FreshSaves

\* While the form is shown and no save is under way, the copy claims the version it was made from, or one the server refuses.
LEMMA ClaimIsSighted ==
  ASSUME SettingsOK, FormVisible, ~Busy("save"), draft.version > 0
  PROVE  draft.made.list = Selected /\ (draft.version = draft.made.rev \/ Stale(Selected, "doc", draft.version))
<1>1. page = "settings" /\ Shown # None /\ ~cache[Selected].error
  BY DEF FormVisible, SettingsOK, Started, Shown, Selected
<1>2. ~Ahead
  BY <1>1 DEF Ahead, Waiter, Busy
<1>3. draft.version # 0
  BY DEF SettingsOK, DraftOK, IsDraft
<1> QED BY <1>1, <1>2, <1>3 DEF SettingsOK, DraftOK, Placed

\* A save that is sent claims what the copy was made of, or is too late.
LEMMA FreshSave ==
  ASSUME SessionOK, home = "settings", CallsOK, SettingsOK, ServerOK, page = "settings", page' = page,
         NEW d, SameCopy(draft, d), Saving(d)
  PROVE  FreshAreOK /\ FreshSaves
<1>0. PICK k \in {"cas", "touch", "clear"} :
        Send(Call("save", k, Settings(subject), "doc", d.version, Seeing(d.made, FormVisible)))
  BY DEF Saving, SaveKinds
<1> DEFINE c == Call("save", k, Settings(subject), "doc", d.version, Seeing(d.made, FormVisible))
<1>1. Send(c) /\ ~Busy("save") /\ draft' = [d EXCEPT !.submitted = TRUE]
  BY <1>0 DEF Saving
<1>2. /\ c.op = "save" /\ c.kind = k /\ c.list = Selected /\ c.item = "doc" /\ c.base = d.version /\ c.rev = 0 /\ c.at = "sent"
      /\ c.seen = Seeing(d.made, FormVisible)
  BY NewCall DEF Selected
<1>3. Selected \in Lists
  BY SettingLists DEF SettingsOK, Selected
<1>4. c.seen.list = draft.made.list /\ c.seen.rev = draft.made.rev /\ (c.seen.shown <=> FormVisible) /\ c.base = draft.version
  BY <1>2 DEF Seeing, SameCopy
<1>5. draft'.submitted
  BY <1>1 DEF SameCopy, IsDraft
<1>6. 0 \in 0..clock
  BY DEF ServerOK
<1> HIDE DEF c
<1>7. CasOK(c)
  BY <1>1, <1>2, <1>4, ClaimIsSighted DEF CasOK, Good
<1>8. SavingOK(c)
  BY <1>2, <1>3, <1>6 DEF SavingOK
<1>9. \A i \in DOMAIN calls' \ DOMAIN calls : calls'[i] = c
  BY <1>1 DEF Send, With
<1> QED BY <1>1, <1>2, <1>5, <1>7, <1>8, <1>9 DEF FreshAreOK, FreshSaves

\* Running a task claims no version.
LEMMA FreshTask ==
  ASSUME CallsOK, runTask PROVE FreshAreOK /\ FreshSaves
<1> DEFINE c == Call("task", "ask", Settings(subject), "doc", 0, Seeing(draft.made, FormVisible))
<1>1. Send(c)
  BY DEF runTask
<1>2. c.op = "task" /\ c.kind = "ask" /\ c.at = "sent"
  BY NewCall
<1> HIDE DEF c
<1>3. \A i \in DOMAIN calls' \ DOMAIN calls : calls'[i] = c
  BY <1>1 DEF Send, With
<1> QED BY <1>2, <1>3 DEF FreshAreOK, FreshSaves, CasOK, SavingOK

\* A copy with other content is of the same settings.
LEMMA EditedCopy ==
  ASSUME IsDraft(draft), NEW x PROVE SameCopy(draft, [draft EXCEPT !.content = x])
BY DEF IsDraft, SameCopy

\* The steps of the page of the settings.
LEMMA SettingsStepKeeps ==
  ASSUME Base, home = "settings", CacheOK, ServerOK, SettingsOK, page = "settings", SettingsStep,
         CallsMove, CacheMoves, ServerMoves
  PROVE  FreshAreOK /\ FreshSaves /\ CopyOK'
<1>0. SessionOK /\ CallsOK /\ IsDraft(draft)
  BY DEF Base, SettingsOK, DraftOK
<1>1. ASSUME Leisure, FreshAreOK /\ FreshSaves, \A i \in DOMAIN calls' \ DOMAIN calls : calls'[i].op # "save"
      PROVE  FreshAreOK /\ FreshSaves /\ CopyOK'
  BY <1>0, <1>1, LeisureStill, StillKeeps
<1>2. ASSUME Leisure, CallsCarried PROVE FreshAreOK /\ FreshSaves /\ CopyOK'
  BY <1>1, <1>2, CarriedHasNoFresh DEF CallsCarried, Carries
<1>3. ASSUME NEW p \in Packages, selectPackage(p) PROVE FreshAreOK /\ FreshSaves /\ CopyOK'
  BY <1>0, <1>3, SelectKeeps, CallsSame, CarriedHasNoFresh DEF selectPackage
<1>4. ASSUME NEW c, edit(c) PROVE FreshAreOK /\ FreshSaves /\ CopyOK'
  BY <1>0, <1>2, <1>4, CallsSame DEF edit, Leisure
<1>5. CASE save
  <2>1. Saving(draft) /\ UNCHANGED <<draftless, cache>> /\ SameCopy(draft, draft) /\ page' = page
    BY <1>0, <1>5 DEF save, SameCopy, draftless, sessionVars
  <2> QED BY <1>0, <2>1, SavingKeeps, FreshSave
<1>6. CASE resetDefaults
  <2>1. CASE Busy("save")
    BY <1>0, <1>2, <1>6, <2>1, CallsSame DEF resetDefaults, Leisure
  <2>2. CASE ~Busy("save")
    <3>1. Saving([draft EXCEPT !.content = "changed"]) /\ UNCHANGED <<draftless, cache>> /\ page' = page
      BY <1>6, <2>2 DEF resetDefaults, draftless, sessionVars
    <3>2. SameCopy(draft, [draft EXCEPT !.content = "changed"])
      BY <1>0, EditedCopy
    <3> QED BY <1>0, <3>1, <3>2, SavingKeeps, FreshSave
  <2> QED BY <2>1, <2>2
<1>7. CASE runTask
  <2>1. \A i \in DOMAIN calls' \ DOMAIN calls : calls'[i].op # "save"
    BY <1>7, NewCall DEF runTask, Send, With
  <2> QED BY <1>0, <1>1, <1>7, <2>1, FreshTask DEF Leisure
<1>8. ASSUME NEW i \in DOMAIN calls, SaveConflict(i) \/ TaskReturns(i) PROVE FreshAreOK /\ FreshSaves /\ CopyOK'
  BY <1>0, <1>2, <1>8, OverCarries, AwaitCarries DEF SaveConflict, TaskReturns, Leisure
<1>9. ASSUME NEW i \in DOMAIN calls, SaveReturns(i) PROVE FreshAreOK /\ FreshSaves /\ CopyOK'
  BY <1>0, <1>9, ReturnKeeps, AwaitCarries, CarriedHasNoFresh DEF SaveReturns
<1> QED BY <1>3, <1>4, <1>5, <1>6, <1>7, <1>8, <1>9 DEF SettingsStep

\* On these two pages only their own handlers send anything.
LEMMA NoFreshElsewhere ==
  ASSUME Base, home \in {"settings", "keys"}, AtHome, ~SettingsStep \/ page # "settings", ~KeysStep \/ page # "keys"
  PROVE  DOMAIN calls' \subseteq DOMAIN calls
<1>0. CallsOK
  BY DEF Base
<1>1. CASE UNCHANGED clientVars
  BY <1>1 DEF clientVars, handlers
<1>2. CASE (EnterPage /\ Route = home) \/ LeavePage
  <2>1. calls' = Orphans
    BY <1>2 DEF EnterPage, LeavePage, Mount
  <2> QED BY <1>0, <2>1, OrphansCarry DEF Carries
<1>3. CASE ClientStep
  BY <1>0, <1>3, ClientCalls DEF CallsCarried, Carries, Advances
<1>4. CASE CloseDialog
  BY <1>4 DEF CloseDialog, handlers
<1> QED BY <1>1, <1>2, <1>3, <1>4 DEF AtHome

\* Every step keeps the invariant of the settings.
LEMMA SettingsKept ==
  ASSUME Base, CacheOK, ServerOK, SettingsOK, home = "settings", home' = home, Next
  PROVE  SettingsOK' /\ FreshAreOK
<1>1. AtHome /\ CacheMoves /\ ServerMoves /\ SessionOK /\ CallsOK /\ (CallsMove \/ Abandons)
  BY NextAtHome, NextCache, NextServerMoves, NextCalls DEF Base
<1>2. SettingQueries'
  BY <1>1, SettingQueriesKept DEF SettingsOK
<1>3. subject' \in Packages
  BY <1>1, NextSubject DEF SettingsOK
<1>4. FreshAreOK /\ FreshSaves /\ CopyOK'
  <2>1. CASE page = "settings" /\ SettingsStep
    <3>1. CallsMove
      BY <1>1, <2>1, SettingsCalls
    <3> QED BY <1>1, <1>2, <2>1, <3>1, SettingsStepKeeps
  <2>2. CASE ~(page = "settings" /\ SettingsStep)
    <3>1. page # "keys"
      BY <1>1 DEF SessionOK
    <3>2. DOMAIN calls' \subseteq DOMAIN calls
      BY <1>1, <2>2, <3>1, NoFreshElsewhere
    <3>3. FreshAreOK /\ FreshSaves
      BY <3>2 DEF FreshAreOK, FreshSaves
    <3>4. Still => CopyOK'
      BY <1>1, <1>2, <3>2, StillKeeps
    <3>5. CASE SessionStep /\ UNCHANGED <<clientVars, pageVars>>
      BY <3>3, <3>4, <3>5, SessionStill
    <3>6. CASE (EnterPage /\ page \in {"none", "login"} /\ Route = home) \/ LeavePage
      BY <1>1, <3>3, <3>6, MountKeeps
    <3>7. CASE (ClientStep \/ CloseDialog) /\ Watching
      BY <1>1, <3>3, <3>4, <3>7, ClientStill
    <3> QED BY <1>1, <2>2, <3>1, <3>5, <3>6, <3>7 DEF AtHome
  <2> QED BY <2>1, <2>2
<1>5. SavesOK'
  BY <1>1, <1>2, <1>4, SavesKept DEF SettingsOK
<1> QED BY <1>2, <1>3, <1>4, <1>5 DEF SettingsOK, CopyOK

\* The other pages claim no version.
LEMMA FreshElsewhere ==
  ASSUME SessionOK, CallsOK, CallsMove \/ Abandons, home \notin {"settings", "keys"}
  PROVE  FreshAreOK
<1>1. page \notin {"settings", "keys"}
  BY DEF SessionOK
<1>2. Query(1, "all").kind = "ask"
  BY QueryCall
<1>3. ASSUME NEW i \in DOMAIN calls' \ DOMAIN calls PROVE calls'[i].kind \notin {"cas", "clear"}
  BY <1>1, <1>2, CallsGoOn DEF Sends
<1> QED BY <1>3 DEF FreshAreOK, CasOK

-----------------------------------------------------------------------------
(* The invariant *)

\* Which versions the cache, the copies and the requests may be of.
Sighted ==
  /\ CacheOK /\ ServerOK /\ CasAreOK
  /\ home = "keys" => KeysOK
  /\ home = "settings" => SettingsOK

\* The inductive invariant of the console.
IInv == Base /\ Sighted

\* Sighted holds at first.
LEMMA SightedInit == Init => Sighted
<1> SUFFICES ASSUME Init PROVE Sighted
  OBVIOUS
<1>1. /\ home \in Pages /\ page = "none" /\ calls = <<>> /\ dialog = NoDialog /\ subject = "a" /\ frozen = "a" /\ draft = NoDraft
      /\ server = [l \in Lists |-> [x \in Items[l] |-> Revisions[l][x]]] /\ clock = 20 /\ cache = [l \in Lists |-> NoQuery]
  BY DEF Init, SessionInit, ClientInit
<1>2. DOMAIN calls = {}
  BY <1>1
<1>3. ServerOK
  <2>1. \A l \in Lists : \A x \in Items[l] : server[l][x] = Revisions[l][x] /\ Revisions[l][x] \in 0..20
    BY <1>1, RevisionsAssumption DEF Lists
  <2>2. ASSUME NEW l \in Lists, NEW m \in Lists, NEW x \in Items[l], NEW y \in Items[m], l # m, server[l][x] = server[m][y]
        PROVE  server[l][x] = 0
    BY <1>1, <2>1, <2>2, RevisionsAssumption DEF Lists
  <2>3. server = [l \in Lists |-> [x \in Items[l] |-> server[l][x]]]
    BY <1>1
  <2> QED BY <1>1, <2>1, <2>2, <2>3 DEF ServerOK
<1>4. /\ cache = [l \in Lists |-> cache[l]]
      /\ \A l \in Lists : IsQuery(cache[l]) /\ cache[l].fetch = "idle" /\ cache[l].data = None
  BY <1>1 DEF NoQuery, IsQuery
<1>5. CacheOK /\ CasAreOK
  BY <1>2, <1>4 DEF CacheOK, CasAreOK
<1>6. ASSUME home = "keys" PROVE KeysOK
  <2>1. dialog.kind # "editKey"
    BY <1>1 DEF NoDialog
  <2> QED BY <1>1, <1>4, <2>1, PackagesAssumption DEF KeysOK, KeyQueries, EditOK
<1>7. ASSUME home = "settings" PROVE SettingsOK
  <2>1. page # "settings"
    BY <1>1
  <2>2. Started /\ SavesOK /\ DraftOK /\ SubmittedOK
    BY <1>1, <1>2, <2>1, EmptyDraft DEF Started, SavesOK, DraftOK, Placed, SubmittedOK
  <2> QED BY <1>1, <1>4, <2>2, PackagesAssumption DEF SettingsOK, SettingQueries
<1> QED BY <1>3, <1>5, <1>6, <1>7 DEF Sighted

\* Sighted holds after a stutter.
LEMMA SightedStays == Sighted /\ UNCHANGED vars => Sighted'
<1> SUFFICES ASSUME Sighted, UNCHANGED vars PROVE Sighted'
  OBVIOUS
<1>1. UNCHANGED <<home, page, calls, dialog, subject, frozen, draft, server, clock, cache>>
  BY DEF vars, sessionVars, clientVars, handlers
<1>2. Lists' = Lists /\ Selected' = Selected /\ Shown' = Shown
  BY <1>1 DEF Lists, Selected, Shown
<1>3. \A l, x, r : Stale(l, x, r)' <=> Stale(l, x, r)
  BY <1>1, <1>2 DEF Stale
<1>4. \A l, r : Owned(l, r)' <=> Owned(l, r)
  BY <1>1, <1>2 DEF Owned
<1>5. CacheOK' /\ ServerOK'
  BY <1>1, <1>2, ServerKept, CacheSame, CacheKept DEF Sighted, ServerMoves
<1>6. CasAreOK'
  BY <1>1, <1>3 DEF Sighted, CasAreOK, CasOK, Good
<1>7. KeysOK => KeysOK'
  BY <1>1, <1>2, <1>4 DEF KeysOK, KeyQueries, OwnRows, EditOK
<1>8. SettingsOK => SettingsOK'
  <2>1. SettingQueries => SettingQueries'
    BY <1>1, <1>2 DEF SettingQueries, Held, NotNewer
  <2>2. SavesOK => SavesOK'
    BY <1>1, <1>2, <1>4 DEF SavesOK, SavingOK
  <2>3. DraftOK => DraftOK'
    BY <1>1, <1>2, <1>3 DEF DraftOK, Placed, Copied, Ahead, Waiter
  <2>4. Started /\ SubmittedOK => Started' /\ SubmittedOK'
    BY <1>1, <1>2 DEF Started, SubmittedOK
  <2> QED BY <1>1, <2>1, <2>2, <2>3, <2>4 DEF SettingsOK
<1> QED BY <1>1, <1>5, <1>6, <1>7, <1>8 DEF Sighted

\* Every step keeps Sighted.
LEMMA SightedKept == Base /\ Sighted /\ [Next]_vars => Sighted'
<1> SUFFICES ASSUME Base, Sighted, Next PROVE Sighted'
  BY SightedStays
<1>1. /\ SessionOK /\ CallsOK /\ CacheMoves /\ ServerMoves /\ (CallsMove \/ Abandons)
  BY NextCache, NextServerMoves, NextCalls DEF Base, Sighted
<1>2. home' = home
  BY NextSession, StayingPage DEF EnterPage, LeavePage
<1>3. CacheOK' /\ ServerOK'
  BY <1>1, <1>2, CacheKept, ServerKept DEF Sighted
<1>4. home = "keys" => KeysOK' /\ FreshAreOK
  <2> HAVE home = "keys"
  <2>1. KeysOK'
    BY <1>2, KeysKept DEF Sighted
  <2>2. CASE page = "keys" /\ KeysStep
    BY <2>1, <2>2, FreshKeys DEF Sighted
  <2>3. CASE ~(page = "keys" /\ KeysStep)
    <3>1. page # "settings" /\ AtHome
      BY <1>1, NextAtHome DEF SessionOK
    <3>2. DOMAIN calls' \subseteq DOMAIN calls
      BY <2>3, <3>1, NoFreshElsewhere
    <3> QED BY <2>1, <3>2 DEF FreshAreOK
  <2> QED BY <2>2, <2>3
<1>5. home = "settings" => SettingsOK' /\ FreshAreOK
  BY <1>2, SettingsKept DEF Sighted
<1>6. home \notin {"settings", "keys"} => FreshAreOK
  BY <1>1, FreshElsewhere
<1>7. CasAreOK'
  BY <1>1, <1>2, <1>4, <1>5, <1>6, CasKept DEF Sighted
<1> QED BY <1>2, <1>3, <1>4, <1>5, <1>7 DEF Sighted

\* Every state of the console satisfies the invariant: what the cache holds, what a form
\* copied and what a save claims are versions that the server had.
THEOREM SightedHolds == Spec => []IInv
<1>1. Init => IInv
  BY BaseInit, SightedInit DEF IInv
<1>2. IInv /\ [Next]_vars => IInv'
  BY BaseKept, SightedKept DEF IInv
<1> QED BY <1>1, <1>2, PTL DEF Spec

\* Every variable of the console has its type: pages, requests, queries of the cache and copies.
THEOREM ConsoleIsTyped == Spec => []TypeOK
<1>1. IInv => TypeOK
  BY BaseIsTyped DEF IInv, Sighted
<1> QED BY <1>1, SightedHolds, PTL

\* A save that the server accepts claims the version that the admin was shown.
THEOREM NothingIsOverwrittenBlindly == Spec => []NoBlindOverwrite
<1>1. IInv => NoBlindOverwrite
  BY CasIsSighted DEF IInv, Sighted
<1> QED BY <1>1, SightedHolds, PTL

\* A copy on the settings page is of the package selected there, and of the revision the cache
\* has of it or the one its own save returned, later or 0.
THEOREM CopyIsOfSelection == Spec => []CopyFollowsSelection
<1>1. IInv => CopyFollowsSelection
  <2> SUFFICES ASSUME IInv, page = "settings", draft.loaded, Shown # None
               PROVE  draft.made.list = Settings(subject) /\ Copied(draft, Shown[1].rows["doc"])
    BY DEF CopyFollowsSelection, Copied
  <2>1. home = "settings"
    BY PagesAssumption DEF IInv, Base, SessionOK
  <2> QED BY <2>1 DEF IInv, Sighted, SettingsOK, DraftOK, Placed, Selected
<1> QED BY <1>1, SightedHolds, PTL

-----------------------------------------------------------------------------
(* The screen *)

\* The dialog of the members, or the question over it, is open.
OfMembers == dialog.kind \in {"members", "removeMember"}

\* It was open before, for the same group, and the question is the same.
StaysOpen ==
  /\ OfMembers /\ subject' = subject
  /\ dialog'.kind = "removeMember" => dialog.kind = "removeMember" /\ dialog'.seen = dialog.seen

\* Who changes what is on the screen.
LEMMA NextScreen ==
  ASSUME Next
  PROVE  \/ UNCHANGED <<page, subject, frozen>> \/ EnterPage \/ LeavePage
         \/ (\E p \in Packages : page \in {"settings", "keys"} /\ selectPackage(p))
         \/ (\E g \in Items[Groups] : page = "models" /\ openMembers(g))
<1>1. CASE SessionStep /\ UNCHANGED <<clientVars, pageVars>>
  BY <1>1, StayingPage DEF PageStays, clientVars
<1>2. CASE ClientStep \/ CloseDialog
  <2>1. UNCHANGED <<subject, frozen, page>>
    BY <1>2 DEF ClientStep, Read, Deliver, FetchDenied, FetchFails, GiveUp, FetchAgain, OtherWrites, Focus, Check, Serve,
                Lose, Denied, OrphanReturns, HandlerFails, CloseDialog, sessionVars
  <2> QED BY <2>1
<1>3. CASE page = "settings" /\ SettingsStep
  BY <1>3 DEF SettingsStep, edit, save, resetDefaults, runTask, SaveConflict, SaveReturns, TaskReturns, draftless, sessionVars
<1>4. CASE page = "keys" /\ KeysStep
  BY <1>4 DEF KeysStep, openEditKey, askRemoveKey, Open, renameKey, openAdd, saveEditKey, submitAdd, confirmRemoveKey,
              KeyReturns, draftRest, sessionVars
<1>5. CASE page = "models" /\ ModelsStep
  BY <1>5 DEF ModelsStep, openCreate, openGroup, saveGroup, runTest, runCheck, confirmDelete, addMember, toggleMember,
              askRemoveMember, confirmDeleteMember, runDiscover, CheckReturns, GroupReturns, DiscoverReturns,
              DiscoverGoesOn, MemberReturns, RemovalGoesOn, queriesIdle, modelsRest, sessionVars
<1>6. CASE PackagesStep
  BY <1>6 DEF PackagesStep, onFileChosen, FileReturns, openUrl, typeUrl, inspectUrl, UrlReturns, confirmInstall,
              InstallReturns, toggleEnabled, ToggleReturns, askRemove, confirmRemove, RemoveReturns, pkgRest, sessionVars
<1>7. CASE ListStep
  BY <1>7 DEF ListStep, setFilter, query, QueryReturns, openDetail, DetailReturns, openCreateSub, openEvict, openForm,
              SendFor, submitCreate, syncSub, removeSub, submitEvict, testTransport, SubReturns, TransportReturns,
              refreshAll, tableless, listRest, sessionVars
<1> QED BY <1>1, <1>2, <1>3, <1>4, <1>5, <1>6, <1>7 DEF Next

\* No dialog is of no kind the pages know, and is so whatever it is opened as.
LEMMA NoneOpen == NoDialog.kind = "none" /\ \A k, x : [NoDialog EXCEPT !.kind = k].kind = k /\ [NoDialog EXCEPT !.kind = k, !.item = x].kind = k
BY DEF NoDialog

\* A dialog that was not that of the members does not become it by a change of another field.
LEMMA OtherField ==
  ASSUME IsDialog(dialog), OfMembers', subject' = subject, NEW x,
         dialog' = [dialog EXCEPT !.item = x] \/ dialog' = [dialog EXCEPT !.result = x]
  PROVE  StaysOpen
BY DEF IsDialog, OfMembers, StaysOpen

\* A dialog of another kind is opened.
LEMMA OtherDialog ==
  ASSUME NEW k, k \notin {"members", "removeMember"}, NEW x, NEW y, Open(k, x, y) \/ Confirm(x, y)
  PROVE  ~OfMembers'
<1>1. CASE Open(k, x, y)
  BY <1>1 DEF Open, OfMembers
<1>2. CASE Confirm(x, y)
  BY <1>2 DEF Confirm, OfMembers
<1> QED BY <1>1, <1>2

\* The dialog of the members on its page: opened, asked from, or as it was.
LEMMA ModelsMembers ==
  ASSUME IsDialog(dialog), ModelsStep, OfMembers'
  PROVE  \/ \E g \in Items[Groups] : openMembers(g)
         \/ \E m \in Items[Members(subject)] : askRemoveMember(m)
         \/ StaysOpen
<1>0. UNCHANGED <<dialog, subject>> => StaysOpen
  BY DEF OfMembers, StaysOpen
<1>1. dialog' = NoDialog => FALSE
  BY NoneOpen DEF OfMembers
<1>2. CASE openCreate
  BY <1>2 DEF openCreate, OpenDialog, OfMembers
<1>3. CASE saveGroup \/ confirmDelete \/ confirmDeleteMember
  BY <1>0, <1>3 DEF saveGroup, confirmDelete, confirmDeleteMember, queriesIdle, modelsRest
<1>4. ASSUME NEW kind \in Checks \cup {"group", "discover", "removeGroup"}, NEW g, openGroup(kind, g) PROVE FALSE
  BY <1>4, ChecksAssumption DEF openGroup, OpenDialog, OfMembers
<1>5. ASSUME NEW g, runTest(g) PROVE StaysOpen
  BY <1>0, <1>5 DEF runTest, queriesIdle, modelsRest
<1>6. ASSUME NEW op, runCheck(op) PROVE StaysOpen
  BY <1>0, <1>6 DEF runCheck, queriesIdle, modelsRest
<1>7. ASSUME NEW m, addMember(m) \/ toggleMember(m) PROVE StaysOpen
  BY <1>0, <1>7 DEF addMember, toggleMember, queriesIdle, modelsRest
<1>8. ASSUME NEW apply, runDiscover(apply) PROVE StaysOpen
  BY <1>0, <1>8, OtherField DEF runDiscover, queriesIdle, modelsRest
<1>9. ASSUME NEW i, CheckReturns(i) \/ DiscoverReturns(i) PROVE StaysOpen
  BY <1>0, <1>9, OtherField DEF CheckReturns, DiscoverReturns, queriesIdle, modelsRest
<1>10. ASSUME NEW i, GroupReturns(i) \/ DiscoverGoesOn(i) \/ RemovalGoesOn(i) PROVE StaysOpen
  BY <1>0, <1>1, <1>10 DEF GroupReturns, DiscoverGoesOn, RemovalGoesOn, queriesIdle, modelsRest
<1>11. ASSUME NEW i, MemberReturns(i) PROVE StaysOpen
  <2>1. CASE dialog' = [dialog EXCEPT !.kind = "members", !.result = "", !.seen = <<>>] /\ dialog.kind = "removeMember"
    BY <1>11, <2>1 DEF MemberReturns, modelsRest, OfMembers, StaysOpen, IsDialog
  <2> QED BY <1>0, <1>11, <2>1 DEF MemberReturns, modelsRest
<1> QED BY <1>2, <1>3, <1>4, <1>5, <1>6, <1>7, <1>8, <1>9, <1>10, <1>11 DEF ModelsStep

\* The same for every step.
LEMMA MembersDialog ==
  ASSUME IsDialog(dialog), Next, OfMembers'
  PROVE  \/ page = "models" /\ \E g \in Items[Groups] : openMembers(g)
         \/ page = "models" /\ \E m \in Items[Members(subject)] : askRemoveMember(m)
         \/ StaysOpen
<1>0. UNCHANGED <<dialog, subject>> => StaysOpen
  BY DEF OfMembers, StaysOpen
<1>1. dialog' = NoDialog => FALSE
  BY NoneOpen DEF OfMembers
<1>2. CASE SessionStep /\ UNCHANGED <<clientVars, pageVars>>
  BY <1>0, <1>2 DEF clientVars
<1>3. CASE EnterPage \/ LeavePage
  BY <1>0, <1>1, <1>3 DEF EnterPage, Mount, LeavePage
<1>4. CASE ClientStep
  BY <1>0, <1>4 DEF ClientStep, Read, Deliver, FetchDenied, FetchFails, GiveUp, FetchAgain, OtherWrites, Focus, Check, Serve,
                    Lose, Denied, OrphanReturns, HandlerFails
<1>5. CASE CloseDialog
  <2>1. CASE dialog.kind = "removeMember" /\ dialog' = [dialog EXCEPT !.kind = "members", !.result = "", !.seen = <<>>]
    BY <1>5, <2>1 DEF CloseDialog, OfMembers, StaysOpen, IsDialog
  <2> QED BY <1>1, <1>5, <2>1 DEF CloseDialog
<1>6. ASSUME NEW p, selectPackage(p) PROVE FALSE
  BY <1>1, <1>6 DEF selectPackage
<1>7. CASE SettingsStep
  BY <1>0, <1>6, <1>7 DEF SettingsStep, edit, save, resetDefaults, runTask, SaveConflict, SaveReturns, TaskReturns, draftless
<1>8. CASE KeysStep
  <2>1. ASSUME NEW k, openEditKey(k) \/ askRemoveKey(k) \/ openAdd PROVE FALSE
    BY <2>1, OtherDialog DEF openEditKey, askRemoveKey, openAdd
  <2>2. ASSUME NEW k, renameKey(k) PROVE StaysOpen
    BY <2>2, OtherField DEF renameKey, draftRest
  <2>3. CASE saveEditKey \/ submitAdd \/ confirmRemoveKey
    BY <1>0, <2>3 DEF saveEditKey, submitAdd, confirmRemoveKey, draftRest
  <2>4. ASSUME NEW i, KeyReturns(i) PROVE StaysOpen
    BY <1>0, <1>1, <2>4 DEF KeyReturns
  <2> QED BY <1>6, <1>8, <2>1, <2>2, <2>3, <2>4 DEF KeysStep
<1>9. CASE PackagesStep
  <2>1. ASSUME NEW p, askRemove(p) PROVE FALSE
    BY <2>1, NoneOpen DEF askRemove, OfMembers
  <2>2. CASE openUrl
    BY <2>2, NoneOpen DEF openUrl, OfMembers
  <2>3. ASSUME NEW i, FileReturns(i) \/ UrlReturns(i) PROVE FALSE
    <3>1. \E p, what : Confirm(p, what)
      BY <2>3 DEF FileReturns, UrlReturns
    <3>2. "confirm" \notin {"members", "removeMember"}
      OBVIOUS
    <3> QED BY <3>1, <3>2, OtherDialog
  <2> QED BY <1>0, <1>1, <1>9, <2>1, <2>2, <2>3
          DEF PackagesStep, onFileChosen, typeUrl, inspectUrl, confirmInstall, InstallReturns, toggleEnabled,
              ToggleReturns, confirmRemove, RemoveReturns, pkgRest
<1>10. CASE ListStep
  <2>1. ASSUME NEW x, openCreateSub \/ openEvict(x) PROVE FALSE
    BY <2>1, NoneOpen DEF openCreateSub, openEvict, openForm, OfMembers
  <2> QED BY <1>0, <1>1, <1>10, <2>1
          DEF ListStep, setFilter, query, QueryReturns, openDetail, DetailReturns, SendFor, submitCreate, syncSub,
              removeSub, submitEvict, testTransport, SubReturns, TransportReturns, refreshAll, tableless, listRest
<1> QED BY <1>2, <1>3, <1>4, <1>5, <1>7, <1>8, <1>9, <1>10, ModelsMembers DEF Next

-----------------------------------------------------------------------------
(* What the queries are of *)

\* A query of l is of l itself, or of the keys of another package.
Of(l, of) == of \in Lists /\ of[1] = l[1] /\ (home # "keys" => of = l)

\* What it asks for and what it holds; at rest and without error they are the same.
QueriesOK ==
  \A l \in Lists :
    LET q == cache[l] IN
    /\ q.fetch # "idle" => Of(l, q.of)
    /\ q.data # None => Of(l, q.data[1].of)
    /\ q.fetch = "answered" => q.answer[1].of = q.of
    /\ q.fetch = "idle" /\ q.data # None /\ ~q.error => q.data[1].of = q.of

\* Every step leaves them so.
LEMMA QueriesKept ==
  ASSUME SessionOK, home' = home, CacheOK, CacheMoves, QueriesOK, home = "keys" => subject' \in Packages
  PROVE  QueriesOK'
<1>0. Lists' = Lists /\ \A l, of : Of(l, of)' <=> Of(l, of)
  BY DEF Lists, Of
<1>1. ASSUME NEW l \in Lists, NEW of, AsksOK(l, of) PROVE Of(l, of)
  <2>1. CASE home = "keys"
    <3>1. Lists = {KeysOf(p) : p \in Packages}
      BY <2>1, PagesAssumption, PackagesAssumption DEF SessionOK, Lists
    <3>2. of \in Lists
      BY <1>1, <2>1, <3>1 DEF AsksOK
    <3>3. \A m \in Lists : m[1] = "keys"
      BY <3>1 DEF KeysOf
    <3> QED BY <2>1, <3>2, <3>3 DEF Of
  <2>2. CASE home # "keys"
    BY <1>1, <2>2 DEF AsksOK, Of
  <2> QED BY <2>1, <2>2
<1>2. ASSUME NEW l \in Lists
      PROVE  LET q == cache'[l] IN
             /\ q.fetch # "idle" => Of(l, q.of)
             /\ q.data # None => Of(l, q.data[1].of)
             /\ q.fetch = "answered" => q.answer[1].of = q.of
             /\ q.fetch = "idle" /\ q.data # None /\ ~q.error => q.data[1].of = q.of
  <2>1. Moved(l, cache[l], cache'[l])
    BY DEF CacheMoves
  <2>2. LET q == cache[l] IN
        /\ q.fetch # "idle" => Of(l, q.of)
        /\ q.data # None => Of(l, q.data[1].of)
        /\ q.fetch = "answered" => q.answer[1].of = q.of
        /\ q.fetch = "idle" /\ q.data # None /\ ~q.error => q.data[1].of = q.of
    BY DEF QueriesOK
  <2> QED BY <1>1, <2>1, <2>2 DEF Moved, Kept, Begun, Got, Came, Gone, Again
<1> QED BY <1>0, <1>2 DEF QueriesOK

-----------------------------------------------------------------------------
(* What a handler writes, and what it fetches again *)

\* The handlers that write, each with the kind of the list it writes to.
Refetched ==
  {<<"save", "settings">>, <<"editKey", "keys">>, <<"addKey", "keys">>, <<"removeKey", "keys">>,
   <<"group", "groups">>, <<"removeGroup", "groups">>, <<"addMember", "members">>, <<"toggle", "members">>,
   <<"removeMember", "members">>, <<"discover", "members">>, <<"install", "packages">>, <<"enable", "packages">>,
   <<"removePackage", "packages">>, <<"createSub", "subscriptions">>, <<"sync", "subscriptions">>,
   <<"removeSub", "subscriptions">>}

\* A request only asks, or is of one of these handlers, or of one whose page was left.
CallOK(c) ==
  /\ c.kind = "ask" \/ c.op = "orphan" \/ <<c.op, c.list[1]>> \in Refetched
  /\ c.kind # "ask" /\ c.list[1] = "groups" => c.list = Groups /\ c.kind \in {"create", "set", "remove"}
  /\ c.at = "checked" => c.kind \in Locked

CallsFit == \A i \in DOMAIN calls : CallOK(calls[i])

\* A new request is of these; one that makes a group is from its drawer, for an id never given.
Fits(c) ==
  /\ CallOK(c)
  /\ c.kind = "create" /\ c.list = Groups => dialog'.kind = "group" /\ server[Groups][c.item] = 0 /\ ~Given(Groups, c.item)
FreshFit == \A i \in DOMAIN calls' \ DOMAIN calls : Fits(calls'[i])

\* A request that is sent is new.
LEMMA SentFits ==
  ASSUME NEW op, NEW kind, NEW list, NEW item, NEW base, NEW seen, Send(Call(op, kind, list, item, base, seen)),
         kind = "ask" \/ <<op, list[1]>> \in Refetched,
         kind # "ask" /\ list[1] = "groups" => list = Groups /\ kind \in {"create", "set", "remove"},
         kind = "create" /\ list[1] = "groups" => dialog'.kind = "group" /\ server[Groups][item] = 0 /\ ~Given(Groups, item)
  PROVE  FreshFit
<1> DEFINE c == Call(op, kind, list, item, base, seen)
<1>1. Fits(c)
  <2>1. Groups[1] = "groups"
    BY DEF Groups
  <2> QED BY <2>1, NewCall DEF Fits, CallOK
<1> HIDE DEF c
<1>2. calls' = With(calls, c)
  BY DEF Send, c
<1> QED BY <1>1, <1>2 DEF With, FreshFit

\* A request that only asks fits.
LEMMA AskFits ==
  ASSUME NEW op, NEW list, NEW item, NEW base, NEW seen, Send(Call(op, "ask", list, item, base, seen)) PROVE FreshFit
BY SentFits

\* Calls that go on are not new.
LEMMA NoNewCall ==
  ASSUME CallsOK, UNCHANGED handlers \/ (\E i : Over(i)) \/ (\E i, l : Await(i, l)) PROVE FreshFit
BY CallsSame, OverCarries, AwaitCarries DEF CallsCarried, Carries, FreshFit

\* The requests of the settings.
LEMMA SettingsFit == CallsOK /\ SettingsStep => FreshFit
<1> SUFFICES ASSUME CallsOK, SettingsStep PROVE FreshFit
  OBVIOUS
<1>0. \A p : Settings(p)[1] = "settings"
  BY DEF Settings
<1>1. ASSUME NEW d, Saving(d) PROVE FreshFit
  <2>1. PICK kind : Send(Call("save", kind, Settings(subject), "doc", d.version, Seeing(d.made, FormVisible)))
    BY <1>1 DEF Saving
  <2>2. <<"save", Settings(subject)[1]>> \in Refetched
    BY <1>0 DEF Refetched
  <2> QED BY <1>0, <2>1, <2>2, SentFits
<1>2. CASE save \/ resetDefaults \/ runTask
  BY <1>1, <1>2, AskFits, NoNewCall DEF save, resetDefaults, runTask
<1>3. ASSUME NEW p, NEW c, selectPackage(p) \/ edit(c) PROVE FreshFit
  BY <1>3, NoNewCall DEF selectPackage, edit
<1>4. ASSUME NEW i, SaveConflict(i) \/ SaveReturns(i) \/ TaskReturns(i) PROVE FreshFit
  BY <1>4, NoNewCall DEF SaveConflict, SaveReturns, TaskReturns
<1> QED BY <1>2, <1>3, <1>4 DEF SettingsStep

\* The requests of the keys.
LEMMA KeysFit == CallsOK /\ KeysStep => FreshFit
<1> SUFFICES ASSUME CallsOK, KeysStep PROVE FreshFit
  OBVIOUS
<1>0. KeysOf(subject)[1] = "keys"
  BY DEF KeysOf
<1>1. ASSUME NEW op \in {"editKey", "addKey", "removeKey"}, NEW kind, NEW item, NEW base, NEW seen,
             Send(Call(op, kind, KeysOf(subject), item, base, seen))
      PROVE  FreshFit
  <2>1. <<op, KeysOf(subject)[1]>> \in Refetched
    BY <1>0 DEF Refetched
  <2> QED BY <1>0, <1>1, <2>1, SentFits
<1>2. CASE saveEditKey \/ submitAdd \/ confirmRemoveKey
  BY <1>1, <1>2 DEF saveEditKey, submitAdd, confirmRemoveKey
<1>3. ASSUME NEW k, selectPackage(k) \/ openEditKey(k) \/ askRemoveKey(k) \/ renameKey(k) \/ openAdd PROVE FreshFit
  BY <1>3, NoNewCall DEF selectPackage, openEditKey, askRemoveKey, renameKey, openAdd, Open
<1>4. ASSUME NEW i, KeyReturns(i) PROVE FreshFit
  BY <1>4, NoNewCall DEF KeyReturns
<1> QED BY <1>2, <1>3, <1>4 DEF KeysStep

\* The requests of the packages.
LEMMA PackagesFit == CallsOK /\ PackagesStep => FreshFit
<1> SUFFICES ASSUME CallsOK, PackagesStep PROVE FreshFit
  OBVIOUS
<1>0. PackageList[1] = "packages"
  BY DEF PackageList
<1>1. ASSUME NEW op \in {"install", "enable", "removePackage"}, NEW kind, NEW item,
             Send(Call(op, kind, PackageList, item, 0, <<>>))
      PROVE  FreshFit
  <2>1. <<op, PackageList[1]>> \in Refetched
    BY <1>0 DEF Refetched
  <2> QED BY <1>0, <1>1, <2>1, SentFits
<1>2. ASSUME NEW p, onFileChosen(p) \/ typeUrl(p) \/ toggleEnabled(p) \/ askRemove(p) PROVE FreshFit
  BY <1>1, <1>2, AskFits, NoNewCall DEF onFileChosen, typeUrl, toggleEnabled, askRemove, Inspect
<1>3. CASE openUrl \/ inspectUrl \/ confirmInstall \/ confirmRemove
  BY <1>1, <1>3, AskFits, NoNewCall DEF openUrl, inspectUrl, confirmInstall, confirmRemove, Inspect
<1>4. ASSUME NEW i, FileReturns(i) \/ UrlReturns(i) \/ InstallReturns(i) \/ ToggleReturns(i) \/ RemoveReturns(i)
      PROVE  FreshFit
  BY <1>4, NoNewCall DEF FileReturns, UrlReturns, InstallReturns, ToggleReturns, RemoveReturns
<1> QED BY <1>2, <1>3, <1>4 DEF PackagesStep

\* The requests of the lists.
LEMMA ListFit == CallsOK /\ ListStep => FreshFit
<1> SUFFICES ASSUME CallsOK, ListStep PROVE FreshFit
  OBVIOUS
<1>1. ASSUME NEW op, NEW kind, NEW x, kind = "ask" \/ (page = "subscriptions" /\ op \in {"createSub", "sync", "removeSub"}),
             SendFor(op, kind, x)
      PROVE  FreshFit
  <2>1. Send(Call(op, kind, Own, x, 0, <<>>))
    BY <1>1 DEF SendFor
  <2>2. CASE kind = "ask"
    BY <2>1, <2>2, AskFits
  <2>3. CASE page = "subscriptions" /\ op \in {"createSub", "sync", "removeSub"}
    <3>1. Own[1] = "subscriptions"
      BY <2>3 DEF Own
    <3>2. <<op, Own[1]>> \in Refetched
      BY <2>3, <3>1 DEF Refetched
    <3> QED BY <2>1, <3>1, <3>2, SentFits
  <2> QED BY <1>1, <2>2, <2>3
<1>2. CASE page = "subscriptions" /\ (openCreateSub \/ submitCreate)
  BY <1>1, <1>2, NoNewCall DEF openCreateSub, openForm, submitCreate
<1>3. ASSUME NEW x, syncSub(x) \/ removeSub(x) \/ openEvict(x) \/ testTransport(x) \/ submitEvict PROVE FreshFit
  BY <1>1, <1>3, AskFits, NoNewCall DEF syncSub, removeSub, openEvict, openForm, testTransport, submitEvict
<1>4. ASSUME NEW n, setFilter(n) \/ query(n) \/ openDetail(n) PROVE FreshFit
  BY <1>4, AskFits, NoNewCall DEF setFilter, query, Query, openDetail
<1>5. ASSUME NEW i, QueryReturns(i) \/ DetailReturns(i) \/ SubReturns(i) \/ TransportReturns(i) PROVE FreshFit
  BY <1>5, NoNewCall DEF QueryReturns, DetailReturns, SubReturns, TransportReturns
<1>6. CASE refreshAll
  BY <1>6, SettledLiveCarries DEF refreshAll, CallsCarried, Carries, FreshFit
<1>7. openCreateSub \/ submitCreate => page = "subscriptions"
  BY DEF openCreateSub, submitCreate
<1> QED BY <1>2, <1>3, <1>4, <1>5, <1>6, <1>7 DEF ListStep

\* The dialog of the members is of a group there is, and a member's removal of the list it was read from.
MembersOpen ==
  OfMembers => /\ home = "models" /\ subject \in Items[Groups]
               /\ dialog.kind = "removeMember" => dialog.seen[1] = "members"

\* The lists of the page of the groups.
LEMMA ModelsLists ==
  ASSUME SessionOK, home = "models"
  PROVE  /\ Groups \in Lists /\ \A g \in Items[Groups] : Members(g) \in Lists
         /\ \A l \in Lists : l = Groups \/ l[1] = "members"
BY GroupsAssumption DEF SessionOK, Lists, Members

\* What the dialog of the members shows is of members.
LEMMA ShownMembers ==
  ASSUME SessionOK, QueriesOK, MembersOpen, OfMembers, cache[Members(subject)].data # None
  PROVE  cache[Members(subject)].data[1].of = Members(subject)
<1>1. Members(subject) \in Lists /\ home # "keys"
  BY ModelsLists DEF MembersOpen
<1> QED BY <1>1 DEF QueriesOK, Of

\* The requests of the page of the groups.
LEMMA ModelsFit == SessionOK /\ CallsOK /\ QueriesOK /\ MembersOpen /\ ModelsStep => FreshFit
<1> SUFFICES ASSUME SessionOK, CallsOK, QueriesOK, MembersOpen, ModelsStep PROVE FreshFit
  OBVIOUS
<1>0. Groups[1] = "groups" /\ \A g : Members(g)[1] = "members"
  BY DEF Groups, Members
<1>1. ASSUME NEW op \in {"addMember", "toggle", "removeMember", "discover"}, NEW kind, NEW list, NEW item, list[1] = "members",
             Send(Call(op, kind, list, item, 0, <<>>))
      PROVE  FreshFit
  <2>1. <<op, list[1]>> \in Refetched
    BY <1>0, <1>1 DEF Refetched
  <2> QED BY <1>1, <2>1, SentFits
<1>2. CASE saveGroup
  <2>1. <<"group", Groups[1]>> \in Refetched /\ dialog' = dialog
    BY <1>0, <1>2 DEF Refetched, saveGroup
  <2> QED BY <1>2, <2>1, SentFits DEF saveGroup
<1>3. CASE confirmDelete
  <2>1. <<"removeGroup", Groups[1]>> \in Refetched
    BY <1>0 DEF Refetched
  <2> QED BY <1>3, <2>1, SentFits DEF confirmDelete
<1>4. CASE confirmDeleteMember
  BY <1>1, <1>4 DEF confirmDeleteMember, MembersOpen, OfMembers
<1>5. ASSUME NEW m, addMember(m) PROVE FreshFit
  BY <1>0, <1>1, <1>5 DEF addMember
<1>6. ASSUME NEW m, toggleMember(m) PROVE FreshFit
  <2>1. OfMembers /\ cache[Members(subject)].data # None
    BY <1>6 DEF toggleMember, OfMembers, Listed
  <2>2. cache[Members(subject)].data[1].of[1] = "members"
    BY <1>0, <2>1, ShownMembers
  <2> QED BY <1>1, <1>6, <2>2 DEF toggleMember
<1>7. ASSUME NEW apply, runDiscover(apply) PROVE FreshFit
  BY <1>0, <1>1, <1>7, AskFits, NoNewCall DEF runDiscover, handlers
<1>8. ASSUME NEW g, NEW m, openCreate \/ openMembers(g) \/ askRemoveMember(m) PROVE FreshFit
  BY <1>8, NoNewCall DEF openCreate, openMembers, OpenDialog, askRemoveMember
<1>9. ASSUME NEW kind, NEW g, runTest(g) \/ runCheck(g) \/ openGroup(kind, g) PROVE FreshFit
  BY <1>9, AskFits, NoNewCall DEF runTest, AskGroup, runCheck, openGroup, OpenDialog
<1>10. ASSUME NEW i, \/ CheckReturns(i) \/ GroupReturns(i) \/ DiscoverReturns(i) \/ DiscoverGoesOn(i)
                     \/ MemberReturns(i) \/ RemovalGoesOn(i)
      PROVE  FreshFit
  BY <1>10, NoNewCall DEF CheckReturns, GroupReturns, DiscoverReturns, DiscoverGoesOn, MemberReturns, RemovalGoesOn
<1> QED BY <1>2, <1>3, <1>4, <1>5, <1>6, <1>7, <1>8, <1>9, <1>10 DEF ModelsStep

\* The requests of every step.
LEMMA NextFit == SessionOK /\ CallsOK /\ QueriesOK /\ MembersOpen /\ Next => FreshFit
<1> SUFFICES ASSUME SessionOK, CallsOK, QueriesOK, MembersOpen, Next PROVE FreshFit
  OBVIOUS
<1>1. CASE SessionStep /\ UNCHANGED <<clientVars, pageVars>>
  BY <1>1, NoNewCall DEF clientVars
<1>2. CASE CloseDialog
  BY <1>2, NoNewCall DEF CloseDialog
<1>3. CASE ClientStep
  BY <1>3, ClientCalls DEF CallsCarried, Carries, Advances, FreshFit
<1>4. CASE EnterPage \/ LeavePage
  <2>1. DOMAIN Orphans \subseteq DOMAIN calls
    BY OrphansCarry DEF Carries
  <2>2. Fits(Query(1, "all"))
    <3>1. Query(1, "all").kind = "ask" /\ Query(1, "all").at = "sent"
      BY QueryCall
    <3> QED BY <3>1 DEF Fits, CallOK
  <2>3. calls' = Orphans \/ calls' = With(Orphans, Query(1, "all"))
    BY <1>4 DEF EnterPage, Mount, LeavePage
  <2> QED BY <2>1, <2>2, <2>3 DEF With, FreshFit
<1> QED BY <1>1, <1>2, <1>3, <1>4, SettingsFit, KeysFit, ModelsFit, PackagesFit, ListFit DEF Next

\* The requests are of these after every step.
LEMMA FitKept ==
  ASSUME CallsOK, CallsMove \/ Abandons, CallsFit, FreshFit PROVE CallsFit'
<1>1. ASSUME NEW i \in DOMAIN calls' PROVE CallOK(calls'[i])
  <2>1. CASE i \in DOMAIN calls /\ Continues(calls[i], calls'[i])
    BY <2>1 DEF CallsFit, CallOK, Continues, Same
  <2>2. CASE i \in DOMAIN calls /\ Advances(i)
    <3>1. Same(calls[i], calls'[i]) /\ IsCall(calls'[i]) /\ IsCall(calls[i]) /\ CallOK(calls[i])
      BY <2>2 DEF Advances, Same, CallsOK, CallsFit
    <3>2. \/ Check(i) /\ calls'[i].at \in {"checked", "refused"} /\ calls[i].kind \in Locked
          \/ calls'[i].at \in {"ok", "refused"}
      <4>1. CASE Check(i)
        <5>1. calls'[i] = [calls[i] EXCEPT !.at = IF Accepts(calls[i]) THEN "checked" ELSE "refused"] /\ calls[i].kind \in Locked
          BY <4>1 DEF Check
        <5> QED BY <3>1, <4>1, <5>1 DEF IsCall
      <4>2. CASE Serve(i)
        <5>1. \/ \E r : calls'[i] = [calls[i] EXCEPT !.at = "ok", !.rev = r]
              \/ calls'[i] = [calls[i] EXCEPT !.at = "refused"]
          BY <4>2 DEF Serve
        <5> QED BY <3>1, <5>1 DEF IsCall
      <4> QED BY <2>2, <4>1, <4>2 DEF Advances
    <3> QED BY <3>1, <3>2 DEF CallOK, Same
  <2>3. CASE i \notin DOMAIN calls
    BY <2>3 DEF FreshFit, Fits
  <2> QED BY <2>1, <2>2, <2>3, CallsGoOn
<1> QED BY <1>1 DEF CallsFit, CallOK

\* The dialog of the members stays what it is after every step.
LEMMA MembersKept ==
  ASSUME SessionOK, home' = home, IsDialog(dialog), QueriesOK, MembersOpen, Next PROVE MembersOpen'
<1> SUFFICES ASSUME OfMembers' PROVE MembersOpen'
  BY DEF MembersOpen
<1>0. page = "models" => home = "models"
  BY PagesAssumption DEF SessionOK
<1>1. ASSUME NEW g \in Items[Groups], page = "models", openMembers(g) PROVE MembersOpen'
  <2>1. dialog'.kind = "members" /\ subject' = g
    BY <1>1 DEF openMembers, OpenDialog
  <2> QED BY <1>0, <1>1, <2>1 DEF MembersOpen
<1>2. ASSUME NEW m, page = "models", askRemoveMember(m) PROVE MembersOpen'
  <2>1. OfMembers /\ cache[Members(subject)].data # None /\ subject' = subject
        /\ dialog' = [dialog EXCEPT !.kind = "removeMember", !.result = m, !.seen = cache[Members(subject)].data[1].of]
    BY <1>2 DEF askRemoveMember, Listed, OfMembers, queriesIdle, modelsRest
  <2>2. dialog'.seen = Members(subject)
    BY <2>1, ShownMembers DEF IsDialog
  <2>3. dialog'.seen[1] = "members"
    BY <2>2 DEF Members
  <2> QED BY <1>0, <1>2, <2>1, <2>3 DEF MembersOpen
<1>3. CASE StaysOpen
  BY <1>3 DEF StaysOpen, MembersOpen
<1> QED BY <1>1, <1>2, <1>3, MembersDialog

-----------------------------------------------------------------------------
(* Groups that are made *)

\* A request makes group g.
Creates(c, g) == c.kind = "create" /\ c.list = Groups /\ c.item = g /\ c.at = "sent"
Rebirth(g) == \E i \in DOMAIN calls : Creates(calls[i], g)

\* It is the only one, and the group is not there yet.
CreatesOK ==
  home = "models" =>
    \A g \in Items[Groups] : \A i, j \in DOMAIN calls :
      Creates(calls[i], g) /\ Creates(calls[j], g) => i = j /\ server[Groups][g] = 0

\* A group that comes to be was made by such a request, which is through.
LEMMA Born ==
  ASSUME SessionOK, home = "models", ServerOK, CallsOK, CallsFit, Next,
         NEW g \in Items[Groups], server[Groups][g] = 0, server'[Groups][g] # 0
  PROVE  \E i \in DOMAIN calls : Creates(calls[i], g) /\ i \in DOMAIN calls' /\ calls'[i].at # "sent"
<1>0. Groups \in Lists
  BY ModelsLists
<1>1. Written
  BY NextServer
<1>2. ASSUME NEW l \in Lists, NEW x \in Items[l], OtherWrites(l, x) PROVE FALSE
  <2>1. server' = [server EXCEPT ![l][x] = clock + 1] /\ server[l][x] # 0
    BY <1>2 DEF OtherWrites
  <2>2. server'[Groups][g] = IF Groups = l /\ g = x THEN clock + 1 ELSE server[Groups][g]
    BY <1>0, <2>1 DEF ServerOK
  <2> QED BY <2>1, <2>2
<1>3. ASSUME NEW i \in DOMAIN calls, Serve(i) \/ Lose(i)
      PROVE  Creates(calls[i], g) /\ i \in DOMAIN calls' /\ calls'[i].at # "sent"
  <2> DEFINE c == calls[i]
  <2>1. IsCall(c) /\ CallOK(c)
    BY DEF CallsOK, CallsFit
  <2>2. /\ server' = After(c) /\ Writes(c) /\ (c.at = "checked" \/ Accepts(c)) /\ c.at \in {"sent", "checked"}
        /\ (calls' = [calls EXCEPT ![i].at = "ok", ![i].rev = Returned(c)]
            \/ calls' = [calls EXCEPT ![i].at = "failed"])
    BY <1>3 DEF Serve, Lose
  <2>3. i \in DOMAIN calls' /\ calls'[i].at # "sent"
    BY <2>1, <2>2 DEF IsCall
  <2>4. c.list = Groups /\ (g = c.item \/ c.kind = "import") /\ c.kind \notin {"remove", "drop"}
    <3>1. Groups # <<"members", c.item>>
      BY DEF Groups
    <3> QED BY <1>0, <2>2, <3>1 DEF After
  <2>5. c.kind \in {"create", "set"} /\ g = c.item /\ c.at = "sent"
    <3>1. Groups[1] = "groups"
      BY DEF Groups
    <3> QED BY <2>1, <2>2, <2>4, <3>1 DEF CallOK, Writes, Locked
  <2>6. c.kind # "set"
    <3> SUFFICES ASSUME c.kind = "set" PROVE FALSE
      OBVIOUS
    <3>1. Accepts(c)
      BY <2>2, <2>5
    <3> QED BY <2>4, <2>5, <3>1 DEF Accepts, Locked
  <2> QED BY <2>3, <2>4, <2>5, <2>6 DEF Creates
<1> QED BY <1>1, <1>2, <1>3 DEF Written

\* A request that makes a group was out before, or is new.
LEMMA CreatesBack ==
  ASSUME CallsOK, CallsMove \/ Abandons, FreshFit, NEW i \in DOMAIN calls', NEW g, Creates(calls'[i], g)
  PROVE  \/ i \in DOMAIN calls /\ Creates(calls[i], g)
         \/ i \notin DOMAIN calls /\ dialog'.kind = "group" /\ server[Groups][g] = 0 /\ ~Rebirth(g)
<1>1. CASE i \in DOMAIN calls /\ Continues(calls[i], calls'[i])
  BY <1>1 DEF Creates, Continues, Same
<1>2. CASE i \in DOMAIN calls /\ Advances(i)
  <2>1. Same(calls[i], calls'[i]) /\ IsCall(calls'[i]) /\ IsCall(calls[i])
    BY <1>2 DEF Advances, Same, CallsOK
  <2>2. CASE Check(i)
    <3>1. calls[i].kind \in Locked
      BY <2>2 DEF Check
    <3> QED BY <2>1, <3>1 DEF Same, Creates, Locked
  <2>3. CASE Serve(i)
    <3>1. \/ \E r : calls'[i] = [calls[i] EXCEPT !.at = "ok", !.rev = r]
          \/ calls'[i] = [calls[i] EXCEPT !.at = "refused"]
      BY <2>3 DEF Serve
    <3> QED BY <2>1, <3>1 DEF IsCall, Creates
  <2> QED BY <1>2, <2>2, <2>3 DEF Advances
<1>3. CASE i \notin DOMAIN calls
  BY <1>3 DEF FreshFit, Fits, Creates, Rebirth, Given
<1> QED BY <1>1, <1>2, <1>3, CallsGoOn

\* Every step leaves at most one such request for a group.
LEMMA CreatesKept ==
  ASSUME SessionOK, home' = home, ServerOK, CallsOK, CallsMove \/ Abandons, CallsFit, FreshFit, CreatesOK, Next
  PROVE  CreatesOK'
<1> SUFFICES ASSUME home = "models", NEW g \in Items[Groups], NEW i \in DOMAIN calls', NEW j \in DOMAIN calls',
                    Creates(calls'[i], g), Creates(calls'[j], g)
             PROVE  i = j /\ server'[Groups][g] = 0
  BY DEF CreatesOK, Creates
<1>1. ASSUME NEW k \in DOMAIN calls', Creates(calls'[k], g)
      PROVE  \/ k \in DOMAIN calls /\ Creates(calls[k], g)
             \/ k = sent + 1 /\ server[Groups][g] = 0 /\ ~Rebirth(g)
  BY <1>1, CreatesBack, FreshNumber
<1>2. server[Groups][g] = 0
  BY <1>1 DEF CreatesOK
<1>3. i = j
  BY <1>1 DEF CreatesOK, Rebirth
<1>4. server'[Groups][g] = 0
  <2> SUFFICES ASSUME server'[Groups][g] # 0 PROVE FALSE
    OBVIOUS
  <2>1. PICK k \in DOMAIN calls : Creates(calls[k], g) /\ k \in DOMAIN calls' /\ calls'[k].at # "sent"
    BY <1>2, Born
  <2>2. i = k
    BY <1>1, <2>1 DEF CreatesOK, Rebirth
  <2> QED BY <2>1, <2>2 DEF Creates
<1> QED BY <1>3, <1>4

-----------------------------------------------------------------------------
(* Fetches that are owed *)

\* What a query holds is about to be replaced, or is not promised to be what the server has.
Fresh(q) == q.fetch = "asked" \/ q.excused \/ q.joined

\* A handler has written to the list and will fetch it again: its page will, an import will in
\* its second fetch, and one whose page was left will fetch the list it was to fetch.
Owes(c, l) ==
  /\ c.kind # "ask"
  /\ \/ /\ c.at = "ok"
        /\ c.op = "orphan" => c.waits = l
        /\ c.op = "discover" => c.list = l
        /\ c.op \notin {"orphan", "discover"} => c.list[1] = l[1]
     \/ c.op = "discover" /\ c.at \in {"refetching", "settled"} /\ c.waits = Groups /\ c.list = l
Owed(l) == \E i \in DOMAIN calls : Owes(calls[i], l)

\* Handler j still owes the list its fetch, or it is fetched.
Pays(j, l) == Fresh(cache'[l]) \/ (j \in DOMAIN calls' /\ Owes(calls'[j], l))

\* What is on the screen is the one list of its kind.
LEMMA ScreenLists ==
  ASSUME NEW l \in Observed
  PROVE  /\ l[1] = "settings" => l = Settings(subject)
         /\ l[1] = "keys" => l = KeysOf(frozen)
         /\ l[1] = "groups" => l = Groups
         /\ l[1] = "members" => l = Members(subject)
         /\ l[1] = "packages" => l = PackageList
         /\ l[1] = "subscriptions" => l = <<"subscriptions", "">>
<1>1. \/ l = <<"settings", subject>> \/ l = <<"keys", frozen>> \/ l = <<"groups", "">> \/ l = <<"members", subject>>
      \/ l = <<"live", "">> \/ l = <<"series", "">> \/ l = <<"transports", "">> \/ l = <<"packages", "">>
      \/ l = <<"subscriptions", "">>
  <2>1. CASE page \in {"packages", "subscriptions", "transports"}
    <3>1. l = <<page, "">>
      BY <2>1 DEF Observed
    <3> QED BY <2>1, <3>1
  <2>2. CASE page \notin {"packages", "subscriptions", "transports"}
    BY <2>2 DEF Observed
  <2> QED BY <2>1, <2>2
<1> DEFINE Own_(k, x) == /\ (k \in {"settings", "members"} => x = subject) /\ (k = "keys" => x = frozen)
                         /\ k \in {"groups", "packages", "subscriptions"} => x = ""
           Goal == /\ l[1] = "settings" => l = Settings(subject)
                   /\ l[1] = "keys" => l = KeysOf(frozen)
                   /\ l[1] = "groups" => l = Groups
                   /\ l[1] = "members" => l = Members(subject)
                   /\ l[1] = "packages" => l = PackageList
                   /\ l[1] = "subscriptions" => l = <<"subscriptions", "">>
<1>2. ASSUME NEW k, NEW x, l = <<k, x>>, Own_(k, x) PROVE Goal
  <2>1. l[1] = k
    BY <1>2
  <2> QED BY <1>2, <2>1 DEF Settings, KeysOf, Groups, Members, PackageList
<1>3. /\ Own_("settings", subject) /\ Own_("keys", frozen) /\ Own_("groups", "") /\ Own_("members", subject)
      /\ Own_("live", "") /\ Own_("series", "") /\ Own_("transports", "") /\ Own_("packages", "") /\ Own_("subscriptions", "")
  OBVIOUS
<1> HIDE DEF Own_, Goal
<1>4. Goal
  BY <1>1, <1>2, <1>3
<1> QED BY <1>4 DEF Goal

\* A query that is joined or fetched again is fresh.
LEMMA FetchIsFresh ==
  ASSUME NEW q, IsQuery(q), q.fetch \in {"idle", "asked", "answered"}, NEW of
  PROVE  Fresh(Join(q, of)) /\ Fresh(Refetch(q, of))
<1>1. q.fetch = "idle" \/ q.data # None => Fresh(Start(q, of))
  BY StartIs DEF Begun, Fresh
<1>2. q.fetch # "idle" => Fresh(Joined(q))
  BY JoinedIs DEF Kept, Fresh
<1> QED BY <1>1, <1>2 DEF Join, Refetch

\* So is the one a handler awaits.
LEMMA AwaitIsFresh ==
  ASSUME CacheOK, NEW i, NEW l \in Lists, Await(i, l) PROVE Fresh(cache'[l])
<1>1. cache'[l] = Refetch(cache[l], Asks(l, subject)) /\ IsQuery(cache[l]) /\ cache[l].fetch \in {"idle", "asked", "answered"}
  BY DEF Await, CacheOK
<1> QED BY <1>1, FetchIsFresh

\* One that owes is not through.
LEMMA OwesIsOn ==
  ASSUME NEW c, NEW l, Owes(c, l) PROVE c.at \in {"ok", "refetching", "settled"} /\ (c.at = "ok" \/ c.op = "discover")
BY DEF Owes

\* It owes a list of the kind it writes to.
LEMMA OwesItsKind ==
  ASSUME NEW c, CallOK(c), NEW l, Owes(c, l), c.op # "orphan" PROVE <<c.op, l[1]>> \in Refetched
BY DEF CallOK, Owes

\* A fetch that is over leaves it owing.
LEMMA SettledOwes ==
  ASSUME NEW j \in DOMAIN calls, IsCall(calls[j]), NEW l, Owes(calls[j], l), NEW ls
  PROVE  j \in DOMAIN Settled(calls, ls) /\ Owes(Settled(calls, ls)[j], l)
<1> DEFINE c == calls[j]
           d == Settled(calls, ls)[j]
<1>1. j \in DOMAIN Settled(calls, ls)
  BY DEF Settled
<1>2. CASE c.at = "refetching" /\ c.waits \in ls
  <2>1. c.op = "discover"
    BY <1>2 DEF Owes
  <2>2. d = [c EXCEPT !.at = "settled"]
    BY <1>2, <2>1 DEF Settled, Chained
  <2>3. d.at = "settled" /\ d.op = c.op /\ d.kind = c.kind /\ d.list = c.list /\ d.waits = c.waits
    BY <2>2 DEF IsCall
  <2> HIDE DEF d
  <2>4. Owes(d, l)
    BY <1>2, <2>1, <2>3 DEF Owes
  <2> QED BY <1>1, <2>4 DEF d
<1>3. CASE ~(c.at = "refetching" /\ c.waits \in ls)
  BY <1>1, <1>3 DEF Settled
<1> QED BY <1>2, <1>3

\* So do the end and the fetch of another handler.
LEMMA OthersOwe ==
  ASSUME CallsOK, NEW j \in DOMAIN calls, NEW l, Owes(calls[j], l), NEW i, i # j, Over(i) \/ \E m : Await(i, m)
  PROVE  Pays(j, l)
<1>1. ASSUME NEW cs, j \in DOMAIN cs, Owes(cs[j], l), NEW ds, DOMAIN ds = DOMAIN cs, ds[j] = cs[j], calls' = Live(ds)
      PROVE  Pays(j, l)
  <2>1. ds[j].at # "done"
    BY <1>1, OwesIsOn
  <2> QED BY <1>1, <2>1, LiveKeeps DEF Pays
<1>2. CASE Over(i)
  <2> DEFINE ds == [calls EXCEPT ![i].at = "done"]
  <2>1. DOMAIN ds = DOMAIN calls /\ ds[j] = calls[j] /\ calls' = Live(ds)
    BY <1>2 DEF Over
  <2> HIDE DEF ds
  <2> QED BY <1>1, <2>1
<1>3. ASSUME NEW m, Await(i, m) PROVE Pays(j, l)
  <2> DEFINE cs == IF cache[m].data # None THEN Settled(calls, {m}) ELSE calls
             ds == [cs EXCEPT ![i].at = "refetching", ![i].waits = m]
  <2>1. j \in DOMAIN cs /\ Owes(cs[j], l)
    BY SettledOwes DEF CallsOK
  <2> HIDE DEF cs
  <2>2. DOMAIN ds = DOMAIN cs /\ ds[j] = cs[j]
    BY <2>1
  <2>3. calls' = Live(ds)
    BY <1>3 DEF Await, cs
  <2> HIDE DEF ds
  <2> QED BY <1>1, <2>1, <2>2, <2>3
<1> QED BY <1>2, <1>3

\* A handler that awaits the list it owes pays.
LEMMA AwaitPays ==
  ASSUME CallsOK, CacheOK, NEW j \in DOMAIN calls, NEW l \in Lists, Owes(calls[j], l), NEW i, NEW m, Await(i, m),
         i = j => l = m
  PROVE  Pays(j, l)
BY OthersOwe, AwaitIsFresh DEF Pays

\* What is sent or settled, and what leaves the handlers alone, changes nothing of it.
LEMMA SteadyPays ==
  ASSUME CallsOK, NEW j \in DOMAIN calls, NEW l, Owes(calls[j], l),
         UNCHANGED handlers \/ (\E c : Send(c)) \/ (\E ls : calls' = Live(Settled(calls, ls)))
  PROVE  Pays(j, l)
<1>1. CASE UNCHANGED handlers
  BY <1>1 DEF handlers, Pays
<1>2. ASSUME NEW c, Send(c) PROVE Pays(j, l)
  BY <1>2 DEF Send, With, Pays
<1>3. ASSUME NEW ls, calls' = Live(Settled(calls, ls)) PROVE Pays(j, l)
  <2>1. j \in DOMAIN Settled(calls, ls) /\ Owes(Settled(calls, ls)[j], l) /\ Settled(calls, ls)[j].at # "done"
    BY SettledOwes, OwesIsOn DEF CallsOK
  <2> QED BY <1>3, <2>1, LiveKeeps DEF Pays
<1> QED BY <1>1, <1>2, <1>3

\* The kind each handler writes to; those that only ask write to none.
LEMMA KindOf ==
  ASSUME NEW op, NEW k, <<op, k>> \in Refetched
  PROVE  /\ op = "save" => k = "settings"
         /\ op \in {"editKey", "addKey", "removeKey"} => k = "keys"
         /\ op \in {"group", "removeGroup"} => k = "groups"
         /\ op \in {"addMember", "toggle", "removeMember", "discover"} => k = "members"
         /\ op \in {"install", "enable", "removePackage"} => k = "packages"
         /\ op \in {"createSub", "sync", "removeSub"} => k = "subscriptions"
         /\ op \notin {"task", "chat", "check", "preview", "test", "file", "url", "query", "detail", "evict", "transport"}
BY DEF Refetched

\* Handler j owes a list on the screen.
Owing(j, l) ==
  /\ j \in DOMAIN calls /\ Owes(calls[j], l) /\ CallOK(calls[j])
  /\ l \in Lists /\ l \in Observed /\ (l[1] = "members" => OfMembers')

\* A handler that fetches what its page shows of the kind it wrote pays.
LEMMA ReturnPays ==
  ASSUME CallsOK, CacheOK, NEW j, NEW l, Owing(j, l), NEW i, calls[i].op # "orphan", NEW m, Await(i, m),
         <<calls[i].op, l[1]>> \in Refetched /\ Owes(calls[i], l) => l = m
  PROVE  Pays(j, l)
<1>1. i = j => l = m
  BY OwesItsKind DEF Owing
<1> QED BY <1>1, AwaitPays DEF Owing

\* One that only asked ends without owing anything, and so does one that was refused.
LEMMA EndPays ==
  ASSUME CallsOK, NEW j, NEW l, Owing(j, l), NEW i, Over(i), calls[i].op # "orphan",
         \/ calls[i].op \in {"task", "chat", "check", "preview", "test", "file", "url", "query", "detail", "evict", "transport"}
         \/ calls[i].at \in {"refused", "failed"}
  PROVE  Pays(j, l)
<1>1. CASE calls[i].at \in {"refused", "failed"}
  <2>1. i # j
    BY <1>1, OwesIsOn DEF Owing
  <2> QED BY <2>1, OthersOwe DEF Owing
<1>2. CASE i = j /\ calls[i].at \notin {"refused", "failed"}
  <2>1. <<calls[i].op, l[1]>> \in Refetched
    BY <1>2, OwesItsKind DEF Owing
  <2>2. calls[i].op \notin {"task", "chat", "check", "preview", "test", "file", "url", "query", "detail", "evict", "transport"}
    BY <2>1, KindOf
  <2> QED BY <1>2, <2>2
<1>3. CASE i # j
  BY <1>3, OthersOwe DEF Owing
<1> QED BY <1>1, <1>2, <1>3

\* The network, the server and the focus.
LEMMA ClientPays ==
  ASSUME CallsOK, CacheOK, NEW j, NEW l, Owing(j, l), ClientStep PROVE Pays(j, l)
<1> USE DEF Owing
<1>1. CASE \E m \in Lists : Read(m) \/ FetchAgain(m) \/ \E x \in Items[m] : OtherWrites(m, x)
  BY <1>1, SteadyPays DEF Read, FetchAgain, OtherWrites
<1>2. CASE \E m \in Lists : Deliver(m) \/ FetchDenied(m) \/ FetchFails(m)
  BY <1>2, SteadyPays DEF Deliver, FetchDenied, FetchFails, GiveUp
<1>3. CASE Focus
  BY <1>3, SteadyPays DEF Focus
<1>4. ASSUME NEW i \in DOMAIN calls, Check(i) \/ Serve(i) \/ Lose(i) \/ Denied(i) PROVE Pays(j, l)
  <2>1. calls[i].at \in {"sent", "checked"} /\ DOMAIN calls' = DOMAIN calls /\ \A k \in DOMAIN calls : k # i => calls'[k] = calls[k]
    BY <1>4 DEF Check, Serve, Lose, Denied
  <2>2. i # j
    BY <2>1, OwesIsOn
  <2> QED BY <2>1, <2>2 DEF Pays
<1>5. ASSUME NEW i \in DOMAIN calls, HandlerFails(i) PROVE Pays(j, l)
  BY <1>5, EndPays DEF HandlerFails
<1>6. ASSUME NEW i \in DOMAIN calls, OrphanReturns(i) PROVE Pays(j, l)
  <2>1. CASE i = j
    <3>1. calls[i].op = "orphan" /\ calls[i].at = "ok" /\ calls[i].kind # "ask" /\ calls[i].waits = l
      BY <1>6, <2>1, OwesIsOn DEF OrphanReturns, Owes
    <3>2. cache'[l] = Refetch(cache[l], l) /\ IsQuery(cache[l]) /\ cache[l].fetch \in {"idle", "asked", "answered"}
      BY <1>6, <3>1 DEF OrphanReturns, CacheOK
    <3> QED BY <3>2, FetchIsFresh DEF Pays
  <2>2. CASE i # j
    BY <1>6, <2>2, OthersOwe DEF OrphanReturns
  <2> QED BY <2>1, <2>2
<1> QED BY <1>1, <1>2, <1>3, <1>4, <1>5, <1>6 DEF ClientStep

\* The pages of the settings and the keys.
LEMMA SettingsPays ==
  ASSUME CallsOK, CacheOK, NEW j, NEW l, Owing(j, l), SettingsStep \/ KeysStep PROVE Pays(j, l)
<1>0. /\ l[1] = "settings" => l = Settings(subject)
      /\ l[1] = "keys" => l = KeysOf(frozen)
  BY ScreenLists DEF Owing
<1>1. \/ UNCHANGED handlers \/ (\E c : Send(c))
      \/ \E i : SaveConflict(i) \/ SaveReturns(i) \/ TaskReturns(i) \/ KeyReturns(i)
  BY DEF SettingsStep, KeysStep, selectPackage, edit, save, resetDefaults, Saving, runTask, openEditKey, askRemoveKey, renameKey,
         openAdd, Open, saveEditKey, submitAdd, confirmRemoveKey
<1>2. ASSUME NEW i, SaveConflict(i) PROVE Pays(j, l)
  <2>1. i # j
    BY <1>2, OwesIsOn DEF SaveConflict, Owing
  <2> QED BY <1>2, <2>1, OthersOwe DEF SaveConflict, Owing
<1>3. ASSUME NEW i, SaveReturns(i) PROVE Pays(j, l)
  BY <1>0, <1>3, ReturnPays, KindOf DEF SaveReturns, Answered
<1>4. ASSUME NEW i, TaskReturns(i) PROVE Pays(j, l)
  BY <1>4, EndPays DEF TaskReturns, Answered
<1>5. ASSUME NEW i, KeyReturns(i) PROVE Pays(j, l)
  BY <1>0, <1>5, ReturnPays, KindOf DEF KeyReturns, Answered
<1> QED BY <1>1, <1>2, <1>3, <1>4, <1>5, SteadyPays DEF Owing

\* The page of the packages.
LEMMA PackagesPays ==
  ASSUME CallsOK, CacheOK, NEW j, NEW l, Owing(j, l), PackagesStep PROVE Pays(j, l)
<1>0. l[1] = "packages" => l = PackageList
  BY ScreenLists DEF Owing
<1>1. \/ UNCHANGED handlers \/ (\E c : Send(c))
      \/ \E i : FileReturns(i) \/ UrlReturns(i) \/ InstallReturns(i) \/ ToggleReturns(i) \/ RemoveReturns(i)
  BY DEF PackagesStep, onFileChosen, typeUrl, toggleEnabled, askRemove, openUrl, inspectUrl, confirmInstall, confirmRemove
<1>2. ASSUME NEW i, FileReturns(i) \/ UrlReturns(i) PROVE Pays(j, l)
  BY <1>2, EndPays DEF FileReturns, UrlReturns, Answered
<1>3. ASSUME NEW i, InstallReturns(i) \/ ToggleReturns(i) \/ RemoveReturns(i) PROVE Pays(j, l)
  BY <1>0, <1>3, ReturnPays, KindOf DEF InstallReturns, ToggleReturns, RemoveReturns, Answered
<1> QED BY <1>1, <1>2, <1>3, SteadyPays DEF Owing

\* The pages of the lists.
LEMMA ListPays ==
  ASSUME CallsOK, CacheOK, NEW j, NEW l, Owing(j, l), ListStep PROVE Pays(j, l)
<1>0. l[1] = "subscriptions" => l = <<"subscriptions", "">>
  BY ScreenLists DEF Owing
<1>1. \/ UNCHANGED handlers \/ (\E c : Send(c)) \/ (\E ls : calls' = Live(Settled(calls, ls)))
      \/ \E i : QueryReturns(i) \/ DetailReturns(i) \/ SubReturns(i) \/ TransportReturns(i)
  BY DEF ListStep, setFilter, query, openDetail, openCreateSub, openEvict, openForm, submitCreate, submitEvict, SendFor,
         syncSub, removeSub, testTransport, refreshAll
<1>2. ASSUME NEW i, QueryReturns(i) \/ DetailReturns(i) \/ TransportReturns(i) PROVE Pays(j, l)
  BY <1>2, EndPays DEF QueryReturns, DetailReturns, TransportReturns, Answered
<1>3. ASSUME NEW i, SubReturns(i) PROVE Pays(j, l)
  BY <1>0, <1>3, ReturnPays, KindOf DEF SubReturns, Answered
<1> QED BY <1>1, <1>2, <1>3, SteadyPays DEF Owing

\* An import that comes back fetches the groups first and owes the members still.
LEMMA DiscoverOwes ==
  ASSUME CallsOK, CacheOK, NEW j, NEW l, Owing(j, l), NEW i, DiscoverReturns(i) PROVE Pays(j, l)
<1>1. Await(i, Groups) /\ calls[i].op = "discover" /\ calls[i].at = "ok" /\ i \in DOMAIN calls
  BY DEF DiscoverReturns, Answered
<1>2. CASE i # j
  BY <1>1, <1>2, OthersOwe DEF Owing
<1>3. CASE i = j
  <2> DEFINE cs == IF cache[Groups].data # None THEN Settled(calls, {Groups}) ELSE calls
             ds == [cs EXCEPT ![i].at = "refetching", ![i].waits = Groups]
  <2>1. i \in DOMAIN cs /\ cs[i] = calls[i] /\ calls' = Live(ds)
    BY <1>1 DEF Await, Settled
  <2>2. IsCall(calls[i]) /\ calls[i].kind # "ask" /\ calls[i].list = l
    BY <1>1, <1>3 DEF CallsOK, Owing, Owes
  <2> HIDE DEF cs
  <2>3. i \in DOMAIN ds /\ ds[i] = [calls[i] EXCEPT !.at = "refetching", !.waits = Groups]
    BY <2>1
  <2>4. ds[i].at = "refetching" /\ ds[i].waits = Groups /\ ds[i].op = "discover" /\ ds[i].kind = calls[i].kind /\ ds[i].list = l
    BY <1>1, <2>2, <2>3 DEF IsCall
  <2> HIDE DEF ds
  <2>5. i \in DOMAIN calls' /\ calls'[i] = ds[i]
    <3>1. ds[i].at # "done"
      BY <2>4
    <3> QED BY <2>1, <2>3, <3>1, LiveKeeps
  <2>6. Owes(calls'[i], l)
    BY <2>2, <2>4, <2>5 DEF Owes
  <2> QED BY <1>3, <2>5, <2>6 DEF Pays
<1> QED BY <1>2, <1>3

\* Then the members, if they are on the screen.
LEMMA DiscoverPays ==
  ASSUME CallsOK, CacheOK, NEW j, NEW l, Owing(j, l), NEW i, DiscoverGoesOn(i) PROVE Pays(j, l)
<1>1. i \in DOMAIN calls /\ calls[i].op = "discover" /\ calls[i].at = "settled"
  BY DEF DiscoverGoesOn
<1>2. CASE i # j
  BY <1>2, OthersOwe DEF Owing, DiscoverGoesOn
<1>3. CASE i = j
  <2>1. calls[i].waits = Groups /\ calls[i].list = l
    BY <1>1, <1>3 DEF Owing, Owes
  <2>2. l[1] = "members"
    BY <1>1, <1>3, OwesItsKind, KindOf DEF Owing
  <2>3. l = Members(subject) /\ OfMembers'
    BY <2>2, ScreenLists DEF Owing
  <2>4. dialog.kind # "discover"
    <3>1. dialog' \in {dialog, NoDialog}
      BY DEF DiscoverGoesOn
    <3> QED BY <2>3, <3>1, NoneOpen DEF OfMembers
  <2>5. Members(calls[i].list[2]) = l
    BY <2>1, <2>3 DEF Members
  <2>6. Await(i, l)
    BY <2>1, <2>3, <2>4, <2>5 DEF DiscoverGoesOn
  <2> QED BY <2>6, AwaitIsFresh DEF Pays, Owing
<1> QED BY <1>2, <1>3

\* The page of the groups.
LEMMA ModelsPays ==
  ASSUME CallsOK, CacheOK, NEW j, NEW l, Owing(j, l), ModelsStep PROVE Pays(j, l)
<1>0. /\ l[1] = "groups" => l = Groups
      /\ l[1] = "members" => l = Members(subject)
  BY ScreenLists DEF Owing
<1>1. \/ UNCHANGED handlers \/ (\E c : Send(c))
      \/ \E i : \/ CheckReturns(i) \/ GroupReturns(i) \/ DiscoverReturns(i) \/ DiscoverGoesOn(i)
                \/ MemberReturns(i) \/ RemovalGoesOn(i)
  BY DEF ModelsStep, openCreate, openGroup, openMembers, OpenDialog, saveGroup, runTest, AskGroup, runCheck, confirmDelete,
         addMember, toggleMember, askRemoveMember, confirmDeleteMember, runDiscover
<1>2. ASSUME NEW i, CheckReturns(i) PROVE Pays(j, l)
  BY <1>2, EndPays, ChecksAssumption DEF CheckReturns, Answered
<1>3. ASSUME NEW i, GroupReturns(i) PROVE Pays(j, l)
  BY <1>0, <1>3, ReturnPays, KindOf DEF GroupReturns, Answered
<1>4. ASSUME NEW i, MemberReturns(i) PROVE Pays(j, l)
  BY <1>0, <1>4, ReturnPays, KindOf DEF MemberReturns, Answered
<1>5. ASSUME NEW i, RemovalGoesOn(i) PROVE Pays(j, l)
  <2>1. i # j
    BY <1>5, OwesIsOn DEF RemovalGoesOn, Owing
  <2> QED BY <1>5, <2>1, OthersOwe DEF RemovalGoesOn, Owing
<1> QED BY <1>1, <1>2, <1>3, <1>4, <1>5, DiscoverOwes, DiscoverPays, SteadyPays DEF Owing

\* Every step that stays on the page.
LEMMA NextPays ==
  ASSUME CallsOK, CacheOK, NEW j, NEW l, Owing(j, l), Next, page' = page PROVE Pays(j, l)
<1>1. CASE SessionStep /\ UNCHANGED <<clientVars, pageVars>>
  BY <1>1, SteadyPays DEF clientVars, Owing
<1>2. CASE CloseDialog
  BY <1>2, SteadyPays DEF CloseDialog, Owing
<1>3. ~EnterPage /\ ~LeavePage
  BY DEF EnterPage, Mount, LeavePage, Enter, Guarding, ShowLogin
<1> QED BY <1>1, <1>2, <1>3, ClientPays, SettingsPays, PackagesPays, ModelsPays, ListPays DEF Next

-----------------------------------------------------------------------------
(* Lists on the screen catch up *)

\* A list is on the screen; a group whose members are shown is there, or is just being made.
OnIt(l) ==
  l \in Observed /\ (l[1] = "members" => OfMembers /\ (server[Groups][subject] # 0 \/ Rebirth(subject)))

\* What is fetched of a list, or shown of it at rest, is what the server has, or will be fetched anew.
Caught(l) ==
  LET q == cache[l] IN
  \/ Fresh(q) \/ Owed(l)
  \/ q.fetch = "answered" /\ q.answer[1].rows = server[q.of]
  \/ q.fetch = "idle" /\ (q.data = None \/ q.error \/ q.data[1].rows = server[q.of])

\* Entering a page fetches its lists; on the login page there are none.
LEMMA EntersFresh ==
  ASSUME SessionOK, CacheOK, EnterPage \/ LeavePage, NEW l \in Lists, OnIt(l)' PROVE Fresh(cache'[l])
<1>0. l \in Observed' /\ (l[1] = "members" => OfMembers') /\ Lists' = Lists
  BY DEF OnIt, Lists, EnterPage, LeavePage
<1>1. CASE LeavePage
  <2>1. page' = "login"
    BY <1>1 DEF LeavePage, ShowLogin
  <2> QED BY <1>0, <2>1 DEF Observed
<1>2. CASE EnterPage
  <2>1. page' = Route /\ subject' = subject /\ frozen' = subject
    BY <1>2 DEF EnterPage, Enter
  <2>2. CASE Route = "history"
    BY <1>0, <2>1, <2>2 DEF Observed
  <2>3. ASSUME NEW ls, Mount(Route, ls), l \in ls PROVE Fresh(cache'[l])
    <3>1. cache'[l] = Join(cache[l], Asks(l, subject')) /\ IsQuery(cache[l]) /\ cache[l].fetch \in {"idle", "asked", "answered"}
      BY <2>3 DEF Mount, CacheOK
    <3> QED BY <3>1, FetchIsFresh
  <2>4. CASE Route \in {"settings", "keys"}
    <3>1. Mount(Route, {<<Route, subject>>})
      BY <1>2, <2>4 DEF EnterPage
    <3>2. l = <<Route, subject>>
      BY <1>0, <2>1, <2>4 DEF Observed
    <3> QED BY <2>3, <3>1, <3>2
  <2>5. CASE Route = "models"
    <3>1. Mount(Route, {Groups})
      BY <1>2, <2>5 DEF EnterPage
    <3>2. l = Groups \/ l = Members(subject)
      BY <1>0, <2>1, <2>5 DEF Observed, Groups, Members
    <3>3. Members(subject)[1] = "members"
      BY DEF Members
    <3>4. ~OfMembers'
      BY <3>1, NoneOpen DEF Mount, OfMembers
    <3> QED BY <1>0, <2>3, <3>1, <3>2, <3>3, <3>4
  <2>6. CASE Route = "monitor"
    <3> DEFINE ls == {<<"live", "">>, <<"series", "">>, <<"transports", "">>}
    <3>1. Mount(Route, ls)
      BY <1>2, <2>6 DEF EnterPage
    <3>2. l \in ls
      BY <1>0, <2>1, <2>6 DEF Observed
    <3> HIDE DEF ls
    <3> QED BY <2>3, <3>1, <3>2
  <2>7. CASE Route \notin {"settings", "keys", "models", "monitor", "history"}
    <3> DEFINE ls == {m \in Lists : m = <<Route, "">>}
    <3>1. Mount(Route, ls)
      BY <1>2, <2>7 DEF EnterPage
    <3>2. l \in ls
      BY <1>0, <2>1, <2>7 DEF Observed
    <3> HIDE DEF ls
    <3> QED BY <2>3, <3>1, <3>2
  <2> QED BY <2>2, <2>4, <2>5, <2>6, <2>7
<1> QED BY <1>1, <1>2

\* The group whose members are shown was there before, or was being made.
LEMMA GroupBefore ==
  ASSUME SessionOK, home = "models", subject \in Items[Groups], subject' = subject, ServerOK, CallsOK, CallsFit,
         CallsMove \/ Abandons, FreshFit, Next, OfMembers', server'[Groups][subject] # 0 \/ Rebirth(subject)'
  PROVE  server[Groups][subject] # 0 \/ Rebirth(subject)
<1>1. CASE server'[Groups][subject] # 0
  BY <1>1, Born DEF Rebirth
<1>2. CASE Rebirth(subject)'
  <2>1. PICK i \in DOMAIN calls' : Creates(calls'[i], subject)
    BY <1>2 DEF Rebirth, Creates
  <2>2. dialog'.kind # "group"
    BY DEF OfMembers
  <2> QED BY <2>1, <2>2, CreatesBack DEF Rebirth
<1> QED BY <1>1, <1>2

\* A list comes on the screen with a fetch.
LEMMA OnItBefore ==
  ASSUME SessionOK, home' = home, page' = page, IsDialog(dialog), CacheOK, ServerOK, CallsOK, CallsFit, MembersOpen,
         MembersOpen', CallsMove \/ Abandons, FreshFit, Next, NEW l \in Lists, OnIt(l)', ~Fresh(cache'[l])
  PROVE  OnIt(l)
<1>0. /\ Lists' = Lists /\ l \in Observed'
      /\ l[1] = "members" => (OfMembers /\ (server[Groups][subject] # 0 \/ Rebirth(subject)))'
  BY DEF Lists, OnIt
<1>1. ~EnterPage /\ ~LeavePage
  BY DEF EnterPage, Mount, LeavePage, Enter, Guarding, ShowLogin
<1>2. DOMAIN cache = Lists /\ \A m \in Lists : IsQuery(cache[m]) /\ cache[m].fetch \in {"idle", "asked", "answered"}
  BY DEF CacheOK
<1>3. ASSUME NEW g, openMembers(g), l = Members(g) PROVE FALSE
  <2>1. cache'[l] = Refetch(cache[l], Members(g))
    BY <1>2, <1>3 DEF openMembers
  <2> QED BY <1>2, <2>1, FetchIsFresh
<1>4. CASE UNCHANGED <<page, subject, frozen>>
  <2>1. l \in Observed
    BY <1>0, <1>4 DEF Observed, Lists
  <2>2. ASSUME l[1] = "members" PROVE OfMembers /\ (server[Groups][subject] # 0 \/ Rebirth(subject))
    <3>1. l = Members(subject)
      BY <2>1, <2>2, ScreenLists
    <3>2. OfMembers
      <4>1. ASSUME NEW g, openMembers(g) PROVE FALSE
        <5>1. subject' = g
          BY <4>1 DEF openMembers
        <5> QED BY <1>3, <1>4, <3>1, <4>1, <5>1
      <4>2. ASSUME NEW m, askRemoveMember(m) PROVE OfMembers
        BY <4>2 DEF askRemoveMember, OfMembers
      <4> QED BY <1>0, <2>2, <4>1, <4>2, MembersDialog DEF StaysOpen
    <3>3. home = "models" /\ subject \in Items[Groups]
      BY <3>2 DEF MembersOpen
    <3>4. server'[Groups][subject] # 0 \/ Rebirth(subject)'
      BY <1>0, <1>4, <2>2 DEF Rebirth
    <3> QED BY <1>0, <1>4, <2>2, <3>2, <3>3, <3>4, GroupBefore
  <2> QED BY <2>1, <2>2 DEF OnIt
<1>5. ASSUME NEW p, page \in {"settings", "keys"}, selectPackage(p) PROVE OnIt(l)
  <2>1. subject' = p /\ frozen' = frozen
    BY <1>5 DEF selectPackage
  <2>2. CASE page = "settings"
    <3>1. l = Settings(p)
      BY <1>0, <2>1, <2>2 DEF Observed, Settings
    <3>2. cache'[l] = Join(cache[l], Settings(p))
      BY <1>2, <1>5, <2>2, <3>1 DEF selectPackage
    <3> QED BY <1>2, <3>2, FetchIsFresh
  <2>3. CASE page = "keys"
    <3>1. l = <<"keys", frozen>>
      BY <1>0, <2>1, <2>3 DEF Observed
    <3>2. l \in Observed /\ l[1] # "members"
      BY <2>3, <3>1 DEF Observed
    <3> QED BY <3>2 DEF OnIt
  <2> QED BY <1>5, <2>2, <2>3
<1>6. ASSUME NEW g, page = "models", openMembers(g) PROVE OnIt(l)
  <2>1. subject' = g
    BY <1>6 DEF openMembers
  <2>2. l = Groups \/ l = Members(g)
    BY <1>0, <1>6, <2>1 DEF Observed, Groups, Members
  <2>3. l = Groups
    BY <1>3, <1>6, <2>2
  <2>4. l \in Observed /\ l[1] # "members"
    BY <1>6, <2>3 DEF Observed, Groups
  <2> QED BY <2>4 DEF OnIt
<1> QED BY <1>1, <1>4, <1>5, <1>6, NextScreen

\* A query that goes on as it was shows what it showed, while its rows are as they were.
LEMMA KeptCaught ==
  ASSUME NEW l \in Lists, Caught(l), QueriesOK, Kept(cache[l], cache'[l]), Owed(l) => Fresh(cache'[l]) \/ Owed(l)',
         Of(l, cache[l].of) => server'[cache[l].of] = server[cache[l].of]
  PROVE  Caught(l)'
<1> DEFINE q == cache[l]
           r == cache'[l]
<1>1. /\ r.fetch = q.fetch /\ r.of = q.of /\ r.data = q.data /\ r.answer = q.answer /\ r.error = q.error
      /\ (q.excused => r.excused) /\ (q.joined => r.joined)
  BY DEF Kept
<1>2. /\ q.fetch # "idle" => Of(l, q.of)
      /\ q.data # None => Of(l, q.data[1].of)
      /\ q.fetch = "idle" /\ q.data # None /\ ~q.error => q.data[1].of = q.of
  BY DEF QueriesOK
<1>3. CASE Fresh(q)
  <2>1. Fresh(r)
    BY <1>1, <1>3 DEF Fresh
  <2> QED BY <2>1 DEF Caught, Fresh
<1>4. CASE Owed(l)
  BY <1>4 DEF Caught, Fresh
<1>5. CASE q.fetch = "answered" /\ q.answer[1].rows = server[q.of]
  <2>1. Of(l, q.of)
    BY <1>2, <1>5
  <2>2. r.fetch = "answered" /\ r.answer[1].rows = server'[r.of]
    BY <1>1, <1>5, <2>1
  <2> QED BY <2>2 DEF Caught
<1>6. CASE q.fetch = "idle" /\ (q.data = None \/ q.error \/ q.data[1].rows = server[q.of])
  <2>1. CASE q.data = None \/ q.error
    <3>1. r.fetch = "idle" /\ (r.data = None \/ r.error)
      BY <1>1, <1>6, <2>1
    <3> QED BY <3>1 DEF Caught
  <2>2. CASE q.data # None /\ ~q.error
    <3>1. Of(l, q.of) /\ q.data[1].rows = server[q.of]
      BY <1>2, <1>6, <2>2
    <3>2. r.fetch = "idle" /\ r.data[1].rows = server'[r.of]
      BY <1>1, <1>6, <3>1
    <3> QED BY <3>2 DEF Caught
  <2> QED BY <2>1, <2>2
<1> QED BY <1>3, <1>4, <1>5, <1>6 DEF Caught

\* While nobody writes, a query that is asked, answered or shown stays right.
LEMMA SteadyCaught ==
  ASSUME NEW l \in Lists, Caught(l), QueriesOK, Moved(l, cache[l], cache'[l]), server' = server,
         Owed(l) => Fresh(cache'[l]) \/ Owed(l)'
  PROVE  Caught(l)'
<1> DEFINE q == cache[l]
           r == cache'[l]
<1>1. CASE Kept(q, r)
  BY <1>1, KeptCaught
<1>2. CASE Begun(q, r) \/ Again(q, r)
  <2>1. r.fetch = "asked"
    BY <1>2 DEF Begun, Again
  <2> QED BY <2>1 DEF Caught, Fresh
<1>3. CASE Got(q, r)
  <2>1. r.fetch = "answered" /\ r.of = q.of /\ r.answer = <<[of |-> q.of, rows |-> server[q.of]]>>
    BY <1>3 DEF Got
  <2>2. r.answer[1].rows = server'[r.of]
    BY <2>1
  <2> QED BY <2>1, <2>2 DEF Caught
<1>4. CASE Gone(q, r)
  <2>1. r.fetch = "idle" /\ r.error
    BY <1>4 DEF Gone
  <2> QED BY <2>1 DEF Caught
<1>5. CASE Came(q, r)
  <2>1. q.fetch = "answered" /\ r.fetch = "idle" /\ r.of = q.of /\ r.data = q.answer
        /\ (q.excused => r.excused) /\ (q.joined => r.joined)
    BY <1>5 DEF Came
  <2>2. CASE q.excused \/ q.joined
    BY <2>1, <2>2 DEF Caught, Fresh
  <2>3. CASE Owed(l)
    BY <2>3 DEF Caught, Fresh
  <2>4. CASE q.answer[1].rows = server[q.of]
    <3>1. r.data[1].rows = server'[r.of]
      BY <2>1, <2>4
    <3> QED BY <2>1, <3>1 DEF Caught
  <2> QED BY <2>1, <2>2, <2>3, <2>4 DEF Caught, Fresh
<1> QED BY <1>1, <1>2, <1>3, <1>4, <1>5 DEF Moved

\* What writing for a call changes: its own list, and the members of a group it removes.
LEMMA AfterChanges ==
  ASSUME ServerOK, NEW c, NEW of \in Lists, After(c)[of] # server[of]
  PROVE  of = c.list \/ (c.kind = "remove" /\ c.list[1] = "groups" /\ of = Members(c.item))
<1> SUFFICES ASSUME of # c.list, ~(c.kind = "remove" /\ c.list[1] = "groups" /\ of = Members(c.item)) PROVE FALSE
  OBVIOUS
<1>1. After(c)[of] = [x \in Items[of] |-> server[of][x]]
  BY DEF After, Members
<1>2. server[of] = [x \in Items[of] |-> server[of][x]]
  BY DEF ServerOK
<1> QED BY <1>1, <1>2

\* The members of a group that is removed are not on the screen any more.
LEMMA RemovedIsOff ==
  ASSUME SessionOK, home' = home, ServerOK, CallsOK, CallsFit, CreatesOK, MembersOpen', subject' = subject,
         NEW i \in DOMAIN calls, Serve(i), server' = After(calls[i]), server' # server, calls[i].kind = "remove", calls[i].list[1] = "groups",
         NEW l \in Lists, l = Members(calls[i].item), OnIt(l)'
  PROVE  FALSE
<1> DEFINE c == calls[i]
           g == calls[i].item
<1>1. CallOK(c) /\ c.list = Groups /\ c.at # "checked"
  BY DEF CallsFit, CallOK, Locked
<1>2. Accepts(c) /\ DOMAIN calls' = DOMAIN calls /\ (\A k \in DOMAIN calls : k # i => calls'[k] = calls[k]) /\ calls'[i].at # "sent"
  <2>1. IsCall(c) /\ c.at # "checked"
    BY <1>1 DEF CallsOK
  <2>2. CASE Accepts(c)
    <3>1. calls' = [calls EXCEPT ![i].at = "ok", ![i].rev = Returned(c)]
      BY <2>2 DEF Serve
    <3>2. calls'[i].at = "ok"
      BY <2>1, <3>1 DEF IsCall
    <3> QED BY <2>2, <3>1, <3>2
  <2>3. CASE ~Accepts(c)
    <3>1. server' = server
      BY <2>1, <2>3 DEF Serve
    <3> QED BY <3>1
  <2> QED BY <2>2, <2>3
<1>3. l \in Observed' /\ l[1] = "members" /\ OfMembers' /\ (server[Groups][subject] # 0 \/ Rebirth(subject))'
  BY DEF OnIt, Members
<1>4. home = "models" /\ subject \in Items[Groups]
  BY <1>3 DEF MembersOpen
<1>5. g = subject
  <2>1. l = Members(subject')
    <3>1. \/ l = <<"members", subject'>> \/ l = <<"settings", subject'>> \/ l = <<"keys", frozen'>> \/ l = <<"groups", "">>
          \/ l = <<"live", "">> \/ l = <<"series", "">> \/ l = <<"transports", "">> \/ \E p : l = <<p, "">> /\ p \in {"packages", "subscriptions", "transports"}
      BY <1>3 DEF Observed
    <3> QED BY <1>3, <3>1 DEF Members
  <2>2. Members(g)[2] = Members(subject)[2]
    BY <2>1
  <2> QED BY <2>2 DEF Members
<1>6. server[Groups][g] # 0
  BY <1>1, <1>2 DEF Accepts, Locked
<1>7. server'[Groups][subject] = 0
  BY <1>1, <1>4, <1>5, ModelsLists DEF After
<1>8. PICK k \in DOMAIN calls' : Creates(calls'[k], subject)
  BY <1>3, <1>7 DEF Rebirth, Creates
<1>9. k \in DOMAIN calls /\ Creates(calls[k], subject)
  BY <1>2, <1>8 DEF Creates
<1> QED BY <1>4, <1>5, <1>6, <1>9 DEF CreatesOK

\* A write of a handler is owed a fetch by it, or excuses the list.
LEMMA ServedIsOwed ==
  ASSUME SessionOK, home' = home, ServerOK, CallsOK, CallsFit, CacheOK, CreatesOK, MembersOpen',
         NEW i \in DOMAIN calls, Serve(i), NEW l \in Lists, OnIt(l)', NEW of, of = cache[l].of, Of(l, of), server'[of] # server[of]
  PROVE  Fresh(cache'[l]) \/ Owed(l)'
<1> DEFINE c == calls[i]
<1>1. IsCall(c) /\ CallOK(c)
  BY DEF CallsOK, CallsFit
<1>2. /\ c.at = "checked" \/ Accepts(c)
      /\ Writes(c) /\ server' = After(c)
      /\ calls' = [calls EXCEPT ![i].at = "ok", ![i].rev = Returned(c)]
      /\ cache' = IF c.op = "orphan" /\ Writes(c) THEN [Excused({c.list}) EXCEPT ![c.waits] = cache[c.waits]] ELSE cache
      /\ subject' = subject
  BY DEF Serve
<1>3. of = c.list
  <2>1. of \in Lists
    BY DEF Of
  <2>2. of = c.list \/ (c.kind = "remove" /\ c.list[1] = "groups" /\ of = Members(c.item))
    BY <1>2, <2>1, AfterChanges
  <2> SUFFICES ASSUME c.kind = "remove", c.list[1] = "groups", of = Members(c.item) PROVE FALSE
    BY <2>2
  <2>3. l = Members(c.item)
    <3>1. home # "keys"
      <4> SUFFICES ASSUME home = "keys" PROVE FALSE
        OBVIOUS
      <4>1. Lists = {KeysOf(p) : p \in Packages}
        BY PagesAssumption, PackagesAssumption DEF SessionOK, Lists
      <4>2. of[1] = "keys"
        BY <2>1, <4>1 DEF KeysOf
      <4> QED BY <4>2 DEF Members
    <3> QED BY <3>1 DEF Of
  <2> QED BY <1>2, <2>3, RemovedIsOff
<1>4. i \in DOMAIN calls' /\ calls'[i].at = "ok" /\ calls'[i].op = c.op /\ calls'[i].kind = c.kind
      /\ calls'[i].list = c.list /\ calls'[i].waits = c.waits
  <2>1. calls'[i] = [c EXCEPT !.at = "ok", !.rev = Returned(c)]
    BY <1>2
  <2> HIDE DEF c
  <2> QED BY <1>1, <1>2, <2>1 DEF IsCall, c
<1>5. c.kind # "ask"
  BY <1>2 DEF Writes
<1>6. Owes(calls'[i], l) => Owed(l)'
  BY <1>4 DEF Owed, Owes
<1>7. CASE c.op = "orphan"
  <2>1. CASE l = c.waits
    BY <1>4, <1>5, <1>6, <1>7, <2>1 DEF Owes
  <2>2. CASE l # c.waits
    <3>1. cache'[l] = Excused({c.list})[l] /\ IsQuery(cache[l])
      BY <1>2, <1>7, <2>2 DEF Excused, CacheOK
    <3>2. cache'[l] = [cache[l] EXCEPT !.excused = TRUE]
      BY <1>3, <3>1 DEF Excused
    <3> QED BY <3>1, <3>2 DEF Fresh, IsQuery
  <2> QED BY <2>1, <2>2
<1>8. CASE c.op # "orphan"
  <2>1. <<c.op, c.list[1]>> \in Refetched
    BY <1>1, <1>5, <1>8 DEF CallOK
  <2>2. c.list[1] = l[1] /\ c.list \in Lists
    BY <1>3 DEF Of
  <2>3. c.op = "discover" => c.list = l
    <3> SUFFICES ASSUME c.op = "discover" PROVE c.list = l
      OBVIOUS
    <3>1. c.list[1] = "members"
      BY <2>1, KindOf
    <3>2. home # "keys"
      <4> SUFFICES ASSUME home = "keys" PROVE FALSE
        OBVIOUS
      <4>1. Lists = {KeysOf(p) : p \in Packages}
        BY PagesAssumption, PackagesAssumption DEF SessionOK, Lists
      <4>2. c.list[1] = "keys"
        BY <2>2, <4>1 DEF KeysOf
      <4> QED BY <3>1, <4>2
    <3> QED BY <1>3, <3>2 DEF Of
  <2>4. Owes(calls'[i], l)
    BY <1>4, <1>5, <1>8, <2>2, <2>3 DEF Owes
  <2> QED BY <1>6, <2>4
<1> QED BY <1>7, <1>8

\* A write leaves what is on the screen excused, owed a fetch, or as it was.
LEMMA WrittenCaught ==
  ASSUME SessionOK, home' = home, ServerOK, CallsOK, CallsFit, CacheOK, QueriesOK, CreatesOK, MembersOpen',
         Written, NEW l \in Lists, OnIt(l)', Caught(l), Moved(l, cache[l], cache'[l]), Owed(l) => Fresh(cache'[l]) \/ Owed(l)'
  PROVE  Caught(l)'
<1>0. Fresh(cache'[l]) \/ Owed(l)' => Caught(l)'
  BY DEF Caught, Fresh
<1>1. IsQuery(cache[l]) /\ Kept(cache[l], cache[l])
  BY DEF CacheOK, Kept
<1>2. ASSUME NEW ls, cache' = Excused(ls), Of(l, cache[l].of) => server'[cache[l].of] = server[cache[l].of] \/ cache[l].of \in ls
      PROVE  Caught(l)'
  <2>1. CASE cache[l].of \in ls
    <3>1. cache'[l] = [cache[l] EXCEPT !.excused = TRUE]
      BY <1>2, <2>1 DEF Excused
    <3>2. Fresh(cache'[l])
      BY <1>1, <3>1 DEF IsQuery, Fresh
    <3> QED BY <1>0, <3>2
  <2>2. CASE cache[l].of \notin ls
    <3>1. cache'[l] = cache[l]
      BY <1>2, <2>2 DEF Excused
    <3>2. Kept(cache[l], cache'[l])
      BY <1>1, <3>1
    <3> QED BY <1>2, <2>2, <3>2, KeptCaught
  <2> QED BY <2>1, <2>2
<1>3. ASSUME NEW m \in Lists, NEW x \in Items[m], OtherWrites(m, x) PROVE Caught(l)'
  <2>1. cache' = Excused({m}) /\ server' = [server EXCEPT ![m][x] = clock + 1]
    BY <1>3 DEF OtherWrites
  <2>2. \A of : of # m => server'[of] = server[of]
    BY <2>1
  <2> QED BY <1>2, <2>1, <2>2
<1>4. ASSUME NEW i \in DOMAIN calls, Lose(i) PROVE Caught(l)'
  <2>1. CASE server' = server
    BY <2>1, SteadyCaught
  <2>2. CASE cache' = Excused({m \in Lists : server'[m] # server[m]})
    BY <1>2, <2>2 DEF Of
  <2> QED BY <1>4, <2>1, <2>2 DEF Lose
<1>5. ASSUME NEW i \in DOMAIN calls, Serve(i) PROVE Caught(l)'
  <2>1. CASE Of(l, cache[l].of) /\ server'[cache[l].of] # server[cache[l].of]
    BY <1>0, <1>5, <2>1, ServedIsOwed
  <2>2. CASE Of(l, cache[l].of) => server'[cache[l].of] = server[cache[l].of]
    <3>1. CASE Kept(cache[l], cache'[l])
      BY <2>2, <3>1, KeptCaught
    <3>2. CASE ~Kept(cache[l], cache'[l])
      <4>1. cache' \in {cache, [Excused({calls[i].list}) EXCEPT ![calls[i].waits] = cache[calls[i].waits]]}
        BY <1>5 DEF Serve
      <4>2. cache'[l] \in {cache[l], [cache[l] EXCEPT !.excused = TRUE]}
        BY <4>1 DEF Excused
      <4> QED BY <1>1, <3>2, <4>2, ExcusedIs
    <3> QED BY <3>1, <3>2
  <2> QED BY <2>1, <2>2
<1> QED BY <1>3, <1>4, <1>5 DEF Written

\* What the queries and the handlers are, and that what is on the screen catches up.
CatchUp ==
  /\ QueriesOK /\ CallsFit /\ CreatesOK /\ MembersOpen
  /\ \A l \in Lists : OnIt(l) => Caught(l)

\* It holds at first: there is no page, no request and no dialog.
LEMMA CatchUpInit == Init => CatchUp
<1> SUFFICES ASSUME Init PROVE CatchUp
  OBVIOUS
<1>1. page = "none" /\ calls = <<>> /\ dialog = NoDialog /\ cache = [l \in Lists |-> NoQuery]
  BY DEF Init, SessionInit, ClientInit
<1>2. DOMAIN calls = {} /\ Observed = {} /\ ~OfMembers
  BY <1>1, NoneOpen DEF Observed, OfMembers
<1>3. \A l \in Lists : cache[l].fetch = "idle" /\ cache[l].data = None
  BY <1>1 DEF NoQuery
<1> QED BY <1>2, <1>3 DEF CatchUp, QueriesOK, CallsFit, CreatesOK, MembersOpen, OnIt

\* Every step keeps it.
LEMMA CatchUpKept == IInv /\ IInv' /\ CatchUp /\ [Next]_vars => CatchUp'
<1> SUFFICES ASSUME IInv, IInv', CatchUp, [Next]_vars PROVE CatchUp'
  OBVIOUS
<1>1. CASE UNCHANGED vars
  <2>1. UNCHANGED <<home, page, calls, dialog, subject, frozen, server, cache>>
    BY <1>1 DEF vars, sessionVars, clientVars, handlers
  <2>2. Lists' = Lists /\ Observed' = Observed
    BY <2>1 DEF Lists, Observed
  <2>3. QueriesOK' /\ CallsFit' /\ CreatesOK' /\ MembersOpen'
    BY <2>1, <2>2 DEF CatchUp, QueriesOK, Of, CallsFit, CallOK, CreatesOK, Creates, MembersOpen, OfMembers
  <2>4. ASSUME NEW l \in Lists, OnIt(l)' PROVE Caught(l)'
    <3>1. OnIt(l)
      BY <2>1, <2>2, <2>4 DEF OnIt, OfMembers, Rebirth, Creates
    <3> QED BY <2>1, <3>1 DEF CatchUp, Caught, Owed, Owes, Fresh
  <2> QED BY <2>2, <2>3, <2>4 DEF CatchUp
<1>2. CASE Next
  <2>1. /\ SessionOK /\ CallsOK /\ CacheOK /\ ServerOK /\ IsDialog(dialog) /\ CacheMoves /\ (CallsMove \/ Abandons)
    BY <1>2, NextCache, NextCalls DEF IInv, Base, Sighted, DialogOK
  <2>2. home' = home /\ Lists' = Lists
    BY <1>2, NextSession, StayingPage DEF EnterPage, LeavePage, Lists
  <2>3. home = "keys" => subject' \in Packages
    BY <2>2 DEF IInv, Sighted, KeysOK
  <2>4. FreshFit /\ QueriesOK' /\ MembersOpen'
    BY <1>2, <2>1, <2>2, <2>3, NextFit, QueriesKept, MembersKept DEF CatchUp
  <2>5. CallsFit' /\ CreatesOK'
    BY <1>2, <2>1, <2>2, <2>4, FitKept, CreatesKept DEF CatchUp
  <2>6. ASSUME NEW l \in Lists, OnIt(l)' PROVE Caught(l)'
    <3>1. CASE Fresh(cache'[l])
      BY <3>1 DEF Caught, Fresh
    <3>2. CASE ~Fresh(cache'[l])
      <4>1. page' = page
        BY <1>2, <2>1, <2>6, <3>2, NextSession, StayingPage, EntersFresh
      <4>2. OnIt(l) /\ Caught(l)
        BY <1>2, <2>1, <2>2, <2>4, <2>6, <3>2, <4>1, OnItBefore DEF CatchUp
      <4>3. Owed(l) => Owed(l)'
        <5> SUFFICES ASSUME NEW j \in DOMAIN calls, Owes(calls[j], l) PROVE Owed(l)'
          BY DEF Owed
        <5>1. Owing(j, l)
          BY <2>6, <4>2 DEF Owing, OnIt, CatchUp, CallsFit
        <5>2. Pays(j, l)
          BY <1>2, <2>1, <4>1, <5>1, NextPays
        <5> QED BY <3>2, <5>2 DEF Pays, Owed, Owes
      <4>4. Moved(l, cache[l], cache'[l])
        BY <2>1 DEF CacheMoves
      <4>5. CASE UNCHANGED <<server, clock>>
        BY <4>2, <4>3, <4>4, <4>5, SteadyCaught DEF CatchUp
      <4>6. CASE Written
        BY <2>1, <2>2, <2>4, <2>6, <4>2, <4>3, <4>4, <4>6, WrittenCaught DEF CatchUp
      <4> QED BY <1>2, <4>5, <4>6, NextServer
    <3> QED BY <3>1, <3>2
  <2> QED BY <2>2, <2>4, <2>5, <2>6 DEF CatchUp
<1> QED BY <1>1, <1>2

\* Once the handlers are through and nothing is being fetched, a list on the screen shows what
\* the server has, unless its fetch failed, someone else wrote, or the fetch it is of had read
\* already when it was joined, as a handler's own refetch joins a first one: every handler
\* fetches again what it wrote, even one that runs on when its page was left.
THEOREM ListsOnScreenCatchUp == Spec => []ListsCatchUp
<1>1. Init => CatchUp
  BY CatchUpInit
<1>2. IInv /\ IInv' /\ CatchUp /\ [Next]_vars => CatchUp'
  BY CatchUpKept
<1>3. CatchUp => ListsCatchUp
  <2> SUFFICES ASSUME CatchUp, NEW l \in Lists, OnScreen(l), cache[l].fetch = "idle", cache[l].data # None,
                      ~cache[l].error, ~cache[l].excused, ~cache[l].joined, DOMAIN calls = {}
               PROVE  cache[l].data[1].rows = server[cache[l].data[1].of]
    BY DEF ListsCatchUp
  <2>1. OnIt(l) /\ ~Owed(l)
    BY DEF OnScreen, OnIt, OfMembers, Owed
  <2>2. cache[l].data[1].rows = server[cache[l].of]
    BY <2>1 DEF CatchUp, Caught, Fresh
  <2>3. cache[l].data[1].of = cache[l].of
    BY DEF CatchUp, QueriesOK
  <2> QED BY <2>2, <2>3
<1> QED BY <1>1, <1>2, <1>3, SightedHolds, PTL DEF Spec

=============================================================================
