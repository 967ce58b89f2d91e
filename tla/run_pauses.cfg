SPECIFICATION Spec
CONSTANTS
  MaxLaunch = 1
  FailThreshold = 2
  MaxWaits = 2
  Links = {"down", "tcp"}
  MaxFlips = 2
  Clients = {c1, c2}
  Requests = {"start","cancel","pause","resume","interface"}
  Tiers <- SingleHost
  KnownPorts = TRUE
  Faults = TRUE
  MaxCrashes = 0
CHECK_DEADLOCK FALSE
INVARIANTS
  TypeOK
  BlockedMeansWatched
SYMMETRY ClientSymmetry
