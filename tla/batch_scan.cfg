SPECIFICATION FairSpec
CONSTANTS
  Runs = {r1, r2}
  MaxCrashes = 1
  Scans = {s1}
  Starters = {c1, c2}
  NoScan = NoScan
INVARIANTS
  TypeOK
  OneAttendant
  ScanningIsAttended
PROPERTIES
  CompleteWhenSettled
  BatchEnds
CHECK_DEADLOCK FALSE
