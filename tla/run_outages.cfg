SPECIFICATION FairSpec
CONSTANTS
  MaxLaunch = 2
  FailThreshold = 1
  MaxWaits = 1
  Links = {"down", "icmp", "tcp"}
  MaxFlips = 1
  Clients = {c1}
  Requests = {"start","discover","cancel"}
  Tiers <- SingleAuto
  KnownPorts = TRUE
  Faults = FALSE
  MaxCrashes = 1
CHECK_DEADLOCK FALSE
INVARIANTS
  HandlerReachable
  NoOrphanedStatus
PROPERTIES
  EngineEnds
