SPECIFICATION Spec
CONSTANTS
  MaxLaunch = 2
  FailThreshold = 1
  MaxWaits = 1
  Links = {"tcp"}
  MaxFlips = 0
  Clients = {c1, c2}
  Requests = {"start","flag","resume","complete","review","update"}
  Tiers <- SingleManual
  KnownPorts = TRUE
  Faults = FALSE
  MaxCrashes = 0
CHECK_DEADLOCK FALSE
INVARIANTS
  SettledUnlessRaced
SYMMETRY ClientSymmetry
