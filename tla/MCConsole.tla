------------------------------ MODULE MCConsole ------------------------------
EXTENDS Console, TLC

MCItems ==
  [l \in {<<"settings", "a">>, <<"settings", "b">>} |-> {"doc"}]
  @@ [l \in {<<"keys", "a">>, <<"keys", "b">>} |-> {"k1", "k2"}]
  @@ (<<"groups", "">> :> {"g1", "g2"})
  @@ [l \in {<<"members", "g1">>, <<"members", "g2">>} |-> {"m1"}]
  @@ (<<"packages", "">> :> {"p1", "p2"})
  @@ [l \in {<<"subscriptions", "">>, <<"transports", "">>, <<"live", "">>, <<"series", "">>} |-> {"s1"}]

\* The first item of every list is there; package b was never configured, and
\* there is one group.
MCRevisions ==
  LET first == [doc |-> 1, k1 |-> 2, g1 |-> 3, m1 |-> 5, p1 |-> 6, s1 |-> 7]
  IN [l \in DOMAIN MCItems |->
       [x \in MCItems[l] |-> IF l \in {<<"settings", "b">>, <<"members", "g2">>} \/ x \notin DOMAIN first THEN 0
                             ELSE first[x] + (CASE l[2] = "b" -> 10 [] l[1] = "live" -> 1 [] l[1] = "series" -> 2 [] OTHER -> 0)]]

MCKinds ==
  [settings |-> {"settings"}, keys |-> {"keys"}, models |-> {"groups", "members"}, packages |-> {"packages"},
   history |-> {}, subscriptions |-> {"subscriptions"}, transports |-> {"transports"},
   monitor |-> {"live", "series", "transports"}]
MCPageLists == [p \in DOMAIN MCKinds |-> {l \in DOMAIN MCItems : l[1] \in MCKinds[p]}]
MCCalls == [p \in DOMAIN MCKinds |-> IF p = "history" THEN 3 ELSE 2]
MCEntries == [all |-> 3, errors |-> 1]

=============================================================================
