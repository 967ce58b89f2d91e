SPECIFICATION FairSpec
CONSTANTS
  Runs = {r1, r2}
  MaxCrashes = 1
  Schedules = {d1}
  Limits <- MCLimits
  NoSchedule = NoSchedule
INVARIANTS
  TypeOK
  CountsLaunches
  LaunchesBounded
PROPERTIES
  DueIsServed
CHECK_DEADLOCK FALSE
