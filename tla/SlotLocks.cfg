\* Four concurrent calls on one slot or on two: an owner with a queue of up to
\* three, so grants, timeouts and hand-overs overlap. No symmetry, since
\* liveness and refinement are checked on the same graph.
CONSTANTS
  Calls = {c1, c2, c3, c4}
  Slots = {s1, s2}
  NoCall = NoCall
SPECIFICATION FairSpec
CHECK_DEADLOCK FALSE
INVARIANTS
  OneHolder
  NoLostGrant
  NoForgottenWaiter
PROPERTIES
  FifoService
  LocksMoveOn
