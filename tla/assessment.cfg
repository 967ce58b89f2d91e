SPECIFICATION Spec
CONSTANTS
  Devices <- MCDevices
  Entries <- MCEntries
  Profiles <- MCProfiles
  MaxLaunches = 2
  MaxOutages = 2
INVARIANTS
  TypeOK
  NoFalseAlarm
  PassIsEarned
  SkipsAreGrounded
CHECK_DEADLOCK FALSE
