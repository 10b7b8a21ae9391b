SPECIFICATION Spec
CONSTANTS
  Client = {c1, c2}
  Device = {d1}
  Token = {t1, t2}
  Life = {l1, l2}
  None = None
  Transport = {}
  MaxConnects = 0
  MaxInbox = 1
  MaxRemovals = 0
SYMMETRY Symmetry
CHECK_DEADLOCK FALSE
INVARIANTS
  DeadReaderTakesOwnLifetime
