CONSTANTS
  Sessions = {s1, s2}
  Lineages = {l1, l2}
  Contents = {c1, c2}
  MaxSerial = 1
  MaxLocks = 2
  MaxInFlight = 2
  AccessChanges = {{}, {"read"}, {"read", "publish"}}
  Nobody = Nobody
SYMMETRY Symmetry
SPECIFICATION Spec
CONSTRAINT Within
INVARIANTS
  AcknowledgedIsStored
  LockIsExclusive
PROPERTY ImplementsRegister
