SPECIFICATION Spec
CONSTANTS
  Pages = {"keys"}
  Ending = {}
  Mixing = {}
  Faulty = {}
  Packages = {"a", "b"}
  PageSize = 2
  Checks = {"check"}
  MaxHash = 3
  MaxFaults = 1
  MaxCalls <- MCCalls
  Items <- MCItems
  Revisions <- MCRevisions
  Entries <- MCEntries
  PageLists <- MCPageLists
CHECK_DEADLOCK FALSE
INVARIANT ActsOnWhatIsShown
