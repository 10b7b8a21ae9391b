---------------------------- MODULE NativePicker ----------------------------
(***************************************************************************)
(* The privileged device picker: the doorhanger controller of one browser  *)
(* window (addon/experiments/webhidNativePicker/api.js) and the helper     *)
(* that feeds it (addon/js/background/native-picker.js).                   *)
(*                                                                         *)
(* Requests are named by a key (tab and request id).  A key may be used    *)
(* again once its request is over, so entries carry numbers of their own.  *)
(***************************************************************************)
EXTENDS Integers, Sequences, FiniteSets, Lists

CONSTANTS
  Key,       \* names of picker requests
  MaxEntry   \* bound: pickers shown

Entry == 1..MaxEntry
None == 0

VARIABLES
  key,       \* entry -> its key, in order of creation
  helper,    \* WebHidNativePickerHelper.requests: key -> entry
  asked,     \* entries whose enumeration is under way
  stale,     \* entries whose generation moved on
  requests,  \* NativeDoorhanger.#requests: key -> entry
  queue,     \* #queue
  active,    \* #active
  anchoring, \* entries whose pump awaits the page action's button
  shown,     \* entries whose notification is on screen
  list,      \* entry -> what the controller was told of the devices
  result,    \* entry -> how its promise was settled
  pumping,   \* a pump is waiting in the microtask queue
  destroyed

helperVars == <<helper, asked, stale>>
vars == <<key, helperVars, requests, queue, active, anchoring, shown, list, result,
          pumping, destroyed>>

Made == DOMAIN key

\* pump: the next request of the queue becomes the active one.
PumpFrom(q, act) ==
  IF act # None \/ q = <<>>
  THEN queue' = q /\ active' = act /\ UNCHANGED anchoring
  ELSE /\ queue' = Tail(q)
       /\ active' = Head(q)
       /\ anchoring' = anchoring \cup {Head(q)}

WakePump == pumping' = TRUE

\* (wrong variant) the settled request stays the active one.
SettleKeepsActive(n, how) ==
  /\ requests' = [requests EXCEPT ![key[n]] = None]
  /\ queue' = Without(queue, {n})
  /\ UNCHANGED active
  /\ result' = [result EXCEPT ![n] = how]
  /\ WakePump

\* settle: the promise is resolved and the queue goes on.
Settle(n, how) ==
  /\ requests' = [requests EXCEPT ![key[n]] = None]
  /\ queue' = Without(queue, {n})
  /\ active' = IF active = n THEN None ELSE active
  /\ result' = [result EXCEPT ![n] = how]
  /\ WakePump

\* show of helper and controller; the enumeration is started beside it.
Show(k) ==
  LET n == Len(key) + 1
  IN  /\ n \in Entry
      /\ ~destroyed
      /\ helper[k] = None
      /\ key' = Append(key, k)
      /\ helper' = [helper EXCEPT ![k] = n]
      /\ asked' = asked \cup {n}
      /\ requests' = [requests EXCEPT ![k] = n]
      /\ PumpFrom(Append(queue, n), active)
      /\ UNCHANGED <<stale, shown, list, result, pumping, destroyed>>

\* refreshDevices, after the enumeration, and the controller's update.
Enumerated(n, devices) ==
  /\ n \in asked
  /\ asked' = asked \ {n}
  /\ IF helper[key[n]] = n /\ n \notin stale /\ requests[key[n]] # None
     THEN list' = [list EXCEPT ![requests[key[n]]] = devices]
     ELSE UNCHANGED list
  /\ UNCHANGED <<key, helper, stale, requests, queue, active, anchoring, shown, result,
                 pumping, destroyed>>

\* (wrong variant) the request may have been settled meanwhile.
AnchorFoundAnyway(n) ==
  /\ n \in anchoring
  /\ anchoring' = anchoring \ {n}
  /\ shown' = shown \cup {n}
  /\ UNCHANGED <<key, helperVars, requests, queue, active, list, result, pumping, destroyed>>

\* pump, after the await; showing the notification may throw.
AnchorFound(n) ==
  /\ n \in anchoring
  /\ anchoring' = anchoring \ {n}
  /\ IF destroyed \/ active # n \/ requests[key[n]] = None
     THEN UNCHANGED <<requests, queue, active, shown, result, pumping>>
     ELSE \/ shown' = shown \cup {n} /\ UNCHANGED <<requests, queue, active, result, pumping>>
          \/ Settle(n, "error") /\ UNCHANGED shown
  /\ UNCHANGED <<key, helperVars, list, destroyed>>

\* The user connects, cancels, or the browser takes the notification away
\* (the tab went elsewhere): its callback settles the request.
Answered(n, how) ==
  /\ n \in shown
  /\ how = "selected" => list[n] = "groups"
  /\ shown' = shown \ {n}
  /\ IF requests[key[n]] # None
     THEN Settle(n, how)
     ELSE UNCHANGED <<requests, queue, active, result, pumping>>
  /\ UNCHANGED <<key, helperVars, anchoring, list, destroyed>>

\* cancel: the background withdraws the request.
CancelRequest(k) ==
  LET n == helper[k] m == requests[k]
  IN  /\ n # None /\ n \notin stale
      /\ stale' = stale \cup {n}
      /\ IF m # None THEN Settle(m, "cancelled") /\ shown' = shown \ {m}
                     ELSE UNCHANGED <<requests, queue, active, result, pumping, shown>>
      /\ UNCHANGED <<key, helper, asked, anchoring, list, destroyed>>

\* The window closes: every request is settled.
Destroy ==
  /\ ~destroyed /\ destroyed' = TRUE
  /\ LET left == {n \in Made : requests[key[n]] = n}
     IN  /\ result' = [n \in Entry |-> IF n \in left THEN "cancelled" ELSE result[n]]
         /\ active' = IF active \in left THEN None ELSE active
         /\ shown' = shown \ left
  /\ requests' = [k \in Key |-> None]
  /\ queue' = <<>>
  /\ pumping' = TRUE
  /\ UNCHANGED <<key, helperVars, anchoring, list>>

PumpRuns ==
  /\ pumping /\ pumping' = FALSE
  /\ IF destroyed THEN UNCHANGED <<queue, active, anchoring>> ELSE PumpFrom(queue, active)
  /\ UNCHANGED <<key, helperVars, requests, shown, list, result, destroyed>>

\* The helper's show, after the controller's answer.
HelperReturns(k) ==
  /\ helper[k] # None /\ result[helper[k]] # "none"
  /\ helper' = [helper EXCEPT ![k] = None]
  /\ stale' = stale \cup {helper[k]}
  /\ UNCHANGED <<key, asked, requests, queue, active, anchoring, shown, list, result,
                 pumping, destroyed>>

-----------------------------------------------------------------------------
Init ==
  /\ key = <<>>
  /\ helper = [k \in Key |-> None] /\ asked = {} /\ stale = {}
  /\ requests = [k \in Key |-> None]
  /\ queue = <<>> /\ active = None /\ anchoring = {} /\ shown = {}
  /\ list = [n \in Entry |-> "loading"]
  /\ result = [n \in Entry |-> "none"]
  /\ pumping = FALSE /\ destroyed = FALSE

UserAnswers(n) == \E how \in {"selected", "cancelled"} : Answered(n, how)

Next ==
  \/ \E k \in Key : Show(k) \/ CancelRequest(k) \/ HelperReturns(k)
  \/ \E n \in Made : Enumerated(n, "groups") \/ Enumerated(n, "error")
  \/ \E n \in Made : AnchorFound(n) \/ UserAnswers(n)
  \/ Destroy
  \/ PumpRuns

Spec == Init /\ [][Next]_vars

\* Promises resolve, the anchor is looked for 12 times at most, and the user
\* answers a notification in the end.
Progress ==
  \/ PumpRuns
  \/ \E n \in Made : AnchorFound(n) \/ UserAnswers(n)
  \/ \E k \in Key : HelperReturns(k)

FairSpec == Spec /\ WF_vars(Progress)

-----------------------------------------------------------------------------
(* Properties *)

\* Types of controller and helper (api.js:10-20, native-picker.js:3-9).
TypeOK ==
  /\ key \in Seq(Key)
  /\ helper \in [Key -> Made \cup {None}] /\ requests \in [Key -> Made \cup {None}]
  /\ asked \subseteq Made /\ stale \subseteq Made
  /\ queue \in Seq(Made) /\ active \in Made \cup {None}
  /\ anchoring \subseteq Made /\ shown \subseteq Made
  /\ list \in [Entry -> {"loading", "groups", "error"}]
  /\ result \in [Entry -> {"none", "selected", "cancelled", "error"}]
  /\ pumping \in BOOLEAN /\ destroyed \in BOOLEAN

\* A picker whose promise is open is known to the controller, under its own
\* key: no callback or cancel of an earlier picker with that key took its place.
OpenRequestIsKnown ==
  \A n \in Made : result[n] = "none" <=> requests[key[n]] = n

\* Two doorhangers are never on screen together, and the one that is belongs to
\* the active request (pump awaits the anchor while requests are cancelled).
OneDoorhanger == shown \subseteq {active} \ {None}

\* A request that waits will get its turn: someone is active, or a pump is due.
QueueIsServed == queue # <<>> => active # None \/ pumping

\* The controller serves what it was given, one after the other.
Served == TypeOK /\ OpenRequestIsKnown /\ OneDoorhanger /\ QueueIsServed

\* Every picker is answered in the end if users answer the ones they see.
PickerEnds == \A n \in Entry : n \in Made ~> n \in Made /\ helper[key[n]] # n
===============================================================================
