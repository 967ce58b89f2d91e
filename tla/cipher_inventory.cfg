SPECIFICATION Spec
CONSTANTS
  Devices <- MCDevices
  Entries <- MCEntries
  Profiles <- MCProfiles
  MaxLaunches = 2
  MaxOutages = 2
INVARIANT
  WeakCiphersRejected
CHECK_DEADLOCK FALSE
