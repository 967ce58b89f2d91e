SPECIFICATION Spec
CONSTANTS
  Runs = {r1, r2}
  Profiles = 2
  MaxFaults = 1
SYMMETRY Symmetry
INVARIANT TypeOK
INVARIANT AdapterIsRestored
PROPERTY PassIsProven
