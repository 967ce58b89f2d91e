SPECIFICATION Spec
CONSTANTS
  Rows = {r1, r2}
  Ips = {1, 2}
  Macs = {m1}
  Modes = {"static", "dhcp"}
  Clients = {c1, c2}
  None = None
  Unset = Unset
SYMMETRY Symmetry
CHECK_DEADLOCK FALSE
INVARIANT TypeOK
PROPERTY TwinsAreExcused
PROPERTY ModeIsAddressed
