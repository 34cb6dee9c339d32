\* Two executions on one instance, up to three writes before the terminal one,
\* and one deferred call.
CONSTANTS
  Execs = {e1, e2}
  Nobody = Nobody
  MaxWire = 3
  MaxJobs = 1
SPECIFICATION ReplySpec
SYMMETRY ExecSymmetry
CHECK_DEADLOCK FALSE
INVARIANTS
  ReplyStateMatchesWire
  FailureIsTold
PROPERTIES
  NothingAfterTerminal
