---------------------------- MODULE MCDataPlane ----------------------------
EXTENDS DataPlane

\* A scenario: the settings, and the limits that are not zero.
Plan(ss, limits) ==
  [settings |-> ss, limit |-> [f \in Bounded |-> IF f \in DOMAIN limits THEN limits[f] ELSE 0]]

PlaneScenarios ==
  { Plan({"nm"}, [open |-> 3, refusal |-> 2, slow |-> 1, loss |-> 2, report |-> 2]),
    Plan({"worker"}, [open |-> 2, refusal |-> 1, loss |-> 1, report |-> 2]),
    Plan({"worker"}, [open |-> 1, failure |-> 2, refusal |-> 1, loss |-> 1, report |-> 2]),
    Plan({"inpage"}, [open |-> 2, failure |-> 1, refusal |-> 1, loss |-> 1, report |-> 1]),
    Plan({"worker", "inpage"}, [open |-> 2, switch |-> 1, loss |-> 1, report |-> 1]),
    Plan({"worker", "inpage"}, [open |-> 2, switch |-> 1, slow |-> 1]),
    Plan({"worker", "inpage"}, [open |-> 1, switch |-> 1, failure |-> 1, report |-> 1]),
    Plan(Setting, [open |-> 1, switch |-> 1, refusal |-> 1, loss |-> 1, report |-> 1]) }
=============================================================================
