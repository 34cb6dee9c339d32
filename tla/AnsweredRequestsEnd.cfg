CONSTANTS
  Entries <- MCEntries
  Answers <- MCAnswers
  Filters = 1
  EventsCap = 1
SPECIFICATION FairSpec
CHECK_DEADLOCK FALSE
PROPERTIES
  AnsweredRequestsEnd
