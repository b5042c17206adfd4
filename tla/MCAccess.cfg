SPECIFICATION Spec
CONSTANTS
  Client = {c1, c2}
  Name = {n1, n2}
  Device = {d1}
  MaxFailures = 1
  Window = 1
  Lockout = 1
  MaxKeys = 1
  SessionAge = 2
  DeviceAge = 1
  ElevationTTL = 1
  MaxToken = 2
  MaxTime = 1
  Null = Null
SYMMETRY Symmetry
CHECK_DEADLOCK FALSE
INVARIANTS
  SignInHolds
PROPERTIES
  ImplementsTokenLife
