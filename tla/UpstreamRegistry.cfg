\* Two operations at a time on two groups, two members, two prefixes and
\* two names, with restarts at any point.
CONSTANTS
  Ops = {o1, o2}
  Prefix = {pa, pb}
  Names = {n1, n2}
  None = None
  MaxGroups = 2
  MaxMembers = 2
  MaxStrays = 1
SPECIFICATION Spec
SYMMETRY Symmetric
INVARIANTS
  IndexMatchesDB
  NoAmbiguousPrefix
  OrderMatchesMembers
  RoundsAreCleaned
