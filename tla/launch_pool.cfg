SPECIFICATION FairPoolSpec
CONSTANTS
  Runs = {r1, r2, r3}
  Tasks = {t1, t2, t3}
  MaxConcurrent <- MCSlots
  Nobody = Nobody
INVARIANTS
  PoolTypeOK
  ConcurrencyBound
  RegistryTracksLive
  OneTaskPerRun
PROPERTIES
  NoStarvation
  SlotsAreExclusive
