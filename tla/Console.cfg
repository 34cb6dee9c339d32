SPECIFICATION Spec
CONSTANTS
  Pages = {"settings", "keys", "models", "packages", "history", "subscriptions", "transports", "monitor"}
  Ending = {"subscriptions", "transports"}
  Mixing = {"packages", "history"}
  Faulty = {"settings", "packages", "history", "transports", "monitor"}
  Packages = {"a", "b"}
  PageSize = 2
  Checks = {"check"}
  MaxHash = 3
  MaxFaults = 1
  MaxCalls <- MCCalls
  Items <- MCItems
  Revisions <- MCRevisions
  Entries <- MCEntries
  PageLists <- MCPageLists
CHECK_DEADLOCK FALSE
INVARIANTS
  NoBlindOverwrite
  ListsCatchUp
  CopyFollowsSelection
  SummaryIsOfPending
  PageMatchesRows
PROPERTIES
  SentBackOnlySignedOut
