SPECIFICATION Spec
CONSTANTS
  Tests = {a, m}
  Manual = {m}
  Trust <- MCTrust
  Verdicts <- MCVerdicts
  Clients = {c1, c2}
  MaxRequests = 3
  None = None
SYMMETRY ClientSymmetry
INVARIANTS
  TypeOK
  OperationalIsClean
PROPERTIES
  AloneAgrees
  AloneSummarizes
CHECK_DEADLOCK FALSE
