SPECIFICATION Spec
CONSTANTS
  Client = {c1}
  Device = {d1}
  Token = {t1, t2}
  Life = {l1, l2}
  None = None
  Transport = {"ws", "wt"}
  MaxConnects = 2
  MaxInbox = 1
  MaxRemovals = 1
SYMMETRY Symmetry
\* The instance comes to rest once every token is drawn and the client is gone.
CHECK_DEADLOCK FALSE
INVARIANTS
  CapabilityAuthority
PROPERTIES
  RevokedConnectionHarmless
