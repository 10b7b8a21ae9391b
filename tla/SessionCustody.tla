---------------------------- MODULE SessionCustody ----------------------------
(***************************************************************************)
(* What the add-on promises about the sessions the daemon opens for it:    *)
(* a session is always on its way to a caller, held by one, or on its way  *)
(* to be closed, until the daemon has ended it.  None is ever abandoned    *)
(* with nobody left to close it.                                           *)
(***************************************************************************)
CONSTANT Token          \* names of daemon sessions

VARIABLE custody        \* who answers for a session

Custody == {"none", "granted", "held", "closing"}

Init == custody = [t \in Token |-> "none"]

Move(ts, from, to) ==
  /\ \A t \in ts : custody[t] \in from
  /\ custody' = [t \in Token |-> IF t \in ts THEN to ELSE custody[t]]

\* The daemon opens a session; its answer is on the way.
Grant(t) == Move({t}, {"none"}, "granted")

\* The answer reaches a caller that may use the session.
Hand(t) == Move({t}, {"granted"}, "held")

\* Closes are on their way: a holder asked, or nobody wants the sessions.
Release(ts) == Move(ts, {"granted", "held"}, "closing")

\* The daemon ends sessions: on a close, with the connection, with the device.
Ends ==
  \E gone \in SUBSET {t \in Token : custody[t] # "none"} :
    custody' = [t \in Token |-> IF t \in gone THEN "none" ELSE custody[t]]

Next ==
  \/ Ends
  \/ \E t \in Token : Grant(t) \/ Hand(t)
  \/ \E ts \in SUBSET Token : Release(ts)

Spec == Init /\ [][Next]_custody
===============================================================================
