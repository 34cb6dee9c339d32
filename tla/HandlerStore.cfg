\* Two executions and two slots: s1 is accessed with locks only, s2 in every way
\* and by external writers. Each can wait for a slot the other holds.
CONSTANTS
  Execs = {e1, e2}
  Slots = {s1, s2}
  Values = {v1}
  TokenSlots = {s1}
  Untouched = Untouched
  Deleted = Deleted
  Absent = Absent
  NoSlot = NoSlot
  Outdated = Outdated
SPECIFICATION FairSpec
INVARIANTS
  RegistryMatchesLocks
  NoLeakedLock
  HolderSeesLatest
  RefreshesSurvive
PROPERTIES
  EveryExecutionEnds
