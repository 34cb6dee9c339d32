------------------------------ MODULE Session ------------------------------
(***************************************************************************)
(* The admin's session in the browser: the cookie at the server, what the    *)
(* auth store knows of it, the route, and the way back in.                   *)
(* web/src/services/http.ts, stores/auth.ts, router/index.ts, LoginPage.vue  *)
(* and AdminLayout.vue.                                                      *)
(*                                                                          *)
(* The route is the chain of redirects it carries: <<"login", "models">> is  *)
(* #/login?redirect=/models.  An admin uses one page, his home; it stands    *)
(* for the page a login without redirect leads to.                           *)
(***************************************************************************)
EXTENDS Naturals, Sequences

CONSTANTS Pages,      \* the pages behind the login
          Ending,     \* those of them whose admin may lose the session or sign out
          MaxHash,    \* how deep redirects nest
          MaxFaults,  \* how often something outside the page goes wrong
          Faulty      \* the pages where it does

ASSUME PagesAssumption == Pages \cap {"none", "login"} = {}

VARIABLES
  home,        \* the page of this admin
  cookie,      \* the server knows the session
  principal,   \* auth.ts: principal.value is set
  probe,       \* the cached question /me: "none", "asked", "in", "out" or "lost"
  hash,        \* location.hash: the route and the redirects nested in it
  page,        \* the component mounted: "none", "login" or a page
  signing,     \* submit or signOut under way, and what came of it
  faults       \* the faults so far

sessionVars == <<home, cookie, principal, probe, hash, page, signing>>

SessionInit ==
  /\ home \in Pages /\ cookie \in (IF home \in Ending THEN BOOLEAN ELSE {TRUE}) /\ principal = FALSE /\ probe = "none"
  /\ hash = <<home>> /\ page = "none" /\ signing = "no" /\ faults = 0

Route == Head(hash)
Fault == home \in Faulty /\ faults < MaxFaults /\ faults' = faults + 1

\* reset of auth.ts.
Reset == principal' = FALSE /\ probe' = "none"

\* request on an answer 401: forget the principal, go to the login page and
\* carry the route of now, be it the login page itself, as its redirect.
Unauthorized ==
  /\ Reset
  /\ hash' = IF Len(hash) < MaxHash THEN <<"login">> \o hash ELSE hash

-----------------------------------------------------------------------------
(* router.beforeEach and load *)

Guarding == Route \in Pages /\ page # Route

\* load asks /me once and caches the promise.
Load ==
  /\ Guarding /\ ~principal /\ probe = "none"
  /\ probe' = "asked"
  /\ UNCHANGED <<home, cookie, principal, hash, page, signing, faults>>

ProbeAnswered ==
  /\ probe = "asked"
  /\ probe' = IF cookie THEN "in" ELSE "out"
  /\ principal' = cookie
  /\ UNCHANGED <<home, cookie, hash, page, signing, faults>>

\* A fetch that fails counts as signed out, and that is cached too.
ProbeLost ==
  /\ probe = "asked" /\ Fault
  /\ probe' = "lost"
  /\ UNCHANGED <<home, cookie, principal, hash, page, signing>>

TurnBack ==
  /\ Guarding /\ ~principal /\ probe \in {"out", "lost"}
  /\ hash' = <<"login">> \o hash
  /\ UNCHANGED <<home, cookie, principal, probe, page, signing, faults>>

\* The guard lets the admin in: the page is mounted.
Enter == Guarding /\ principal /\ page' = Route

\* The login page is public; the page before it is unmounted.
ShowLogin == Route = "login" /\ page # "login" /\ page' = "login"

-----------------------------------------------------------------------------
(* LoginPage.submit and AdminLayout.signOut *)

submit ==
  /\ page = "login" /\ Route = "login" /\ signing = "no"
  /\ signing' = "sent"
  /\ UNCHANGED <<home, cookie, principal, probe, hash, page, faults>>

SignIn ==
  /\ signing = "sent"
  /\ \/ cookie' = TRUE /\ signing' = "ok"
     \/ cookie' = cookie /\ signing' = "no"
  /\ UNCHANGED <<home, principal, probe, hash, page, faults>>

\* router.push(redirect ?? monitor).
Onward == IF Len(hash) > 1 THEN Tail(hash) ELSE <<home>>

\* A plausible slip: the principal is left to the next probe.
SignedInUnknown ==
  /\ signing = "ok" /\ signing' = "no"
  /\ hash' = Onward
  /\ UNCHANGED <<home, cookie, principal, probe, page, faults>>

\* login sets the principal, then the admin is sent on.
SignedIn ==
  /\ signing = "ok" /\ signing' = "no"
  /\ principal' = TRUE /\ hash' = Onward
  /\ UNCHANGED <<home, cookie, probe, page, faults>>

signOut ==
  /\ page \in Ending /\ signing = "no"
  /\ signing' = "leaving"
  /\ UNCHANGED <<home, cookie, principal, probe, hash, page, faults>>

\* The server ends the session whatever the cookie says; a request that fails
\* leaves the console as it is.
SignOff ==
  /\ signing = "leaving"
  /\ \/ cookie' = FALSE /\ signing' = "left" /\ UNCHANGED faults
     \/ Fault /\ signing' = "no" /\ cookie' \in {cookie, FALSE}
  /\ UNCHANGED <<home, principal, probe, hash, page>>

SignedOut ==
  /\ signing = "left" /\ signing' = "no"
  /\ Reset /\ hash' = <<"login">>
  /\ UNCHANGED <<home, cookie, page, faults>>

\* The session ends at the server: its time is over, or it restarted.
Expire ==
  /\ cookie /\ home \in Ending /\ Fault
  /\ cookie' = FALSE
  /\ UNCHANGED <<home, principal, probe, hash, page, signing>>

\* What the session does without the page that is mounted.
SessionStep ==
  \/ Load \/ ProbeAnswered \/ ProbeLost \/ TurnBack
  \/ submit \/ SignIn \/ SignedIn \/ signOut \/ SignOff \/ SignedOut \/ Expire

=============================================================================
