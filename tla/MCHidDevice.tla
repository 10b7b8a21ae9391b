---------------------------- MODULE MCHidDevice ----------------------------
EXTENDS HidDevice

CONSTANTS d1, d2

Calm == [f \in Faults |-> 0]
Only(f) == [Calm EXCEPT ![f] = 1]

Plan(ds, n, fs) ==
  [devices |-> ds, objects |-> Cardinality(ds), calls |-> n, faults |-> fs]

HidScenarios ==
  { Plan({d1}, 5, Only("revocation")),                          \* a long history, revoked once
    Plan({d1, d2}, 4, Calm),                                    \* a group of two
    Plan({d1, d2}, 3, Only("denial")),                          \* and a revocation cut short
    Plan({d1}, 4, [Calm EXCEPT !["denial"] = 2]),
    Plan({d1}, 3, [Only("loss") EXCEPT !["denial"] = 1]),
    Plan({d1}, 3, [Only("denial") EXCEPT !["timeout"] = 1]),
    Plan({d1}, 3, [Only("denial") EXCEPT !["revocation"] = 1]) }
=============================================================================
