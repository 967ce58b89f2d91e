SPECIFICATION FairSpec
CONSTANTS
  Callers = {c1}
  Requests = {q1, q2}
  Targets <- MCTargets
  Hosts <- MCHosts
  Keys <- MCTargets
  Key <- MCKey
  MaxScans = 2
  Workers = 2
  MaxTries = 2
  MaxStrays = 1
  None = None
INVARIANTS
  TypeOK
  KillReaches
  TrackedIsServed
PROPERTIES
  ImplementsExclusivePool
  CallsEnd
