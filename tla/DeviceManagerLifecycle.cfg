SPECIFICATION Spec
CONSTANTS
  Client = {c1, c2}
  Device = {d1}
  Token = {t1, t2, t3}
  Life = {l1, l2}
  None = None
  Transport = {"ws", "wt"}
  MaxConnects = 0
  MaxInbox = 1
  MaxRemovals = 1
SYMMETRY Symmetry
\* The instance comes to rest once every token is drawn and every client gone.
CHECK_DEADLOCK FALSE
INVARIANTS
  TypeOK
  SessionsMatchEntries
  NmBindingExact
  ReservationExclusive
  NonNmCount
  ThreadsFollowLifetimes
  DepartedOwnsNothing
PROPERTIES
  InvalidatedOpenPublishesNothing
  SessionIsolation
