\* One filter, a channel of one frame, so that the reader has to wait.
CONSTANTS
  Entries <- MCEntries
  Answers <- MCAnswers
  Filters = 1
  EventsCap = 1
SPECIFICATION FairSpec
CHECK_DEADLOCK FALSE
INVARIANTS
  RequestIsFaithful
  NoFrameLost
  StreamAgreesWithWhole
  UsageAddsUp
PROPERTIES
  StreamsEnd
