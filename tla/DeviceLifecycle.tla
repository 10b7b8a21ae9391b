--------------------------- MODULE DeviceLifecycle ---------------------------
(***************************************************************************)
(* What HIDDevice promises to a page: docs/SPECIFICATION.md B7 to B13 and  *)
(* B64.  An object leaves "opening" by the answer of the very open() that  *)
(* entered it, by a close, a forget or the loss of the device; an open()   *)
(* resolves only at the step that makes the object opened; an object is    *)
(* forgotten for good.  The code keeps less of it after two faults, and    *)
(* those are the only exceptions: once a device was lost, an open() under  *)
(* way may take a later "opening" of its object for its own, and once a    *)
(* request was denied or timed out, a forget() that failed may close an    *)
(* object that has been forgotten meanwhile.                               *)
(***************************************************************************)
CONSTANTS Object, Call, NoCall

VARIABLES
  state,    \* connectionState of every object
  opener,   \* the open() whose promise the object holds
  outcome,  \* what became of every open(): "none", "pending", "ok", "failed"
  faults    \* what has happened of "loss", "denial", "timeout"

vars == <<state, opener, outcome, faults>>

Init ==
  /\ state = [o \in Object |-> "closed"]
  /\ opener = [o \in Object |-> NoCall]
  /\ outcome = [c \in Call |-> "none"]
  /\ faults = {}

\* A fault happens by itself or with a step.
MoreFaults == faults \subseteq faults' /\ faults' \subseteq {"loss", "denial", "timeout"}

Open(o, c) ==
  /\ state[o] = "closed" /\ outcome[c] = "none"
  /\ state' = [state EXCEPT ![o] = "opening"]
  /\ opener' = [opener EXCEPT ![o] = c]
  /\ outcome' = [outcome EXCEPT ![c] = "pending"]
  /\ MoreFaults

Release(c) == opener' = [o \in Object |-> IF opener[o] = c THEN NoCall ELSE opener[o]]

\* The opening the call entered, as far as it can tell.
Own(o, c) == state[o] = "opening" /\ (opener[o] = c \/ "loss" \in faults)

Opened(o, c) ==
  /\ Own(o, c) /\ outcome[c] = "pending"
  /\ state' = [state EXCEPT ![o] = "opened"]
  /\ outcome' = [outcome EXCEPT ![c] = "ok"]
  /\ Release(c) /\ MoreFaults

\* Only its own failure takes an object out of "opening".
OpenFails(c) ==
  /\ outcome[c] = "pending"
  /\ outcome' = [outcome EXCEPT ![c] = "failed"]
  /\ \E os \in SUBSET {o \in Object : Own(o, c)} :
       /\ \A o \in Object : state[o] = "opening" /\ opener[o] = c => o \in os
       /\ state' = [o \in Object |-> IF o \in os THEN "closed" ELSE state[o]]
  /\ Release(c) /\ MoreFaults

Close(o) ==
  /\ state[o] \in {"opening", "opened", "closing"}
  /\ state' = [state EXCEPT ![o] = "closing"]
  /\ UNCHANGED <<opener, outcome>> /\ MoreFaults

Moves(os, from, to) ==
  /\ \A o \in os : state[o] \in from
  /\ state' = [o \in Object |-> IF o \in os THEN to ELSE state[o]]
  /\ UNCHANGED <<opener, outcome>> /\ MoreFaults

NotForgotten == {"closed", "opening", "opened", "closing", "forgetting"}

Next ==
  \/ \E o \in Object : Close(o) \/ \E c \in Call : Open(o, c) \/ Opened(o, c)
  \/ \E c \in Call : OpenFails(c)
  \/ \E os \in SUBSET Object :
       \/ Moves(os, {"closing"}, "closed")
       \/ Moves(os, NotForgotten, "forgetting")
       \/ Moves(os, {"forgetting"}, "closed")
       \/ Moves(os, NotForgotten \cup {"forgotten"}, "forgotten")   \* forgotten, or revoked
       \/ Moves(os, NotForgotten, "closed")                         \* the device is gone
       \/ {"denial", "timeout"} \cap faults # {} /\ Moves(os, {"forgotten"}, "closed")
  \/ MoreFaults /\ UNCHANGED <<state, opener, outcome>>

Spec == Init /\ [][Next]_vars
==============================================================================
