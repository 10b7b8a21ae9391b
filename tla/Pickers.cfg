SPECIFICATION PickersSpec
CONSTANTS
  Place <- Places
  Modes = {"modal", "pageAction", "window", "privileged"}
  MaxReq = 2
  MaxUi = 2
  MaxDoc = 2
  k1 = k1
  k2 = k2
  Key = {k1, k2}
  MaxEntry = 2
INVARIANTS PendingIsLive PickersMatch DoorhangerServes
PROPERTY PickersEnd
CHECK_DEADLOCK FALSE
