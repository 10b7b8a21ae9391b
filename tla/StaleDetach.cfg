SPECIFICATION CarriersSpec
CONSTANTS
  Device = {d1}
  MaxDocs = 1
  MaxRequests <- BrokerRequests
  MaxReports = 0
  MaxPreOpen = 2
  MaxConnections = 3
  MaxWorkerRequests = 3
  c1 = c1
  c2 = c2
  Client = {c1, c2}
  Plans <- IoPlans
  None = None
  MaxLives = 2
  MaxAuths = 3
  MaxCommands = 2
  MaxQueue = 1
  MaxSink = 1
INVARIANT LossEndsThePlane
CHECK_DEADLOCK FALSE
