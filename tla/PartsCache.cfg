\* Three requests; one installation or saving (of settings or the group) and the
\* deletion of the group.
CONSTANTS
  Reqs = {q1, q2, q3}
  None = None
  MaxChanges = 1
SPECIFICATION Spec
SYMMETRY ReqSymmetry
CHECK_DEADLOCK FALSE
INVARIANTS
  RefsExact
  HeldPartsStayOpen
  ServedCurrent
