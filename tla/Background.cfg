SPECIFICATION BackgroundSpec
CONSTANTS
  Place <- TwoFrames
  Revoke = {1}
  MaxEndpoints = 2
  MaxTokens = 2
  MaxQueue = 1
  MaxId = 3
  MaxPorts = 2
  Timeout = 2
INVARIANTS GoneOwnsNothing RevocationHolds RequestsServed
PROPERTY EverySessionInCustody
