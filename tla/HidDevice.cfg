SPECIFICATION FairSpec
CONSTANTS
  d1 = d1
  d2 = d2
  Device = {d1, d2}
  MaxObjects = 2
  MaxCalls = 5
  Scenarios <- HidScenarios
INVARIANTS Agreement NothingDangles
PROPERTIES ForgottenForGood ImplementsLifecycle CallsSettle
CHECK_DEADLOCK FALSE
