SPECIFICATION FairSpec
CONSTANT Scenarios <- PlaneScenarios
INVARIANTS SendsAreServed NothingLeft ReadyIsCurrent
PROPERTIES ReadyUntilSuperseded PageIsServed
CHECK_DEADLOCK FALSE
