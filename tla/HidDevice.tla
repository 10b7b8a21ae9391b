------------------------------ MODULE HidDevice ------------------------------
(***************************************************************************)
(* HIDDevice objects of a page (addon/js/content/main/index.js), the       *)
(* bridge that serves their requests (content/isolated/bridge.js) and the  *)
(* sessions the background and the daemon keep for them.                   *)
(*                                                                         *)
(* open(), close() and forget() are calls, each a promise; a step is what  *)
(* one of them does up to its next await.  The bridge serves the page's    *)
(* requests concurrently; towards the background it has one request under  *)
(* way at a time.  Every port keeps the order of its messages.             *)
(* Promise continuations run before the next message: see Settled.         *)
(*                                                                         *)
(* The devices were granted together: they are one permission group.  A    *)
(* session is named by the call that asked for it, and so is the data      *)
(* plane generation that its open starts.                                  *)
(***************************************************************************)
EXTENDS Integers, SequencesExt

CONSTANTS
  Device,      \* the devices of the group
  MaxObjects,  \* bound: HIDDevice objects the page is given
  MaxCalls,    \* bound: calls of the page
  Scenarios    \* bounds of a behaviour: see Scenario

Object == 1..MaxObjects
Call == 1..MaxCalls
Faults == {"loss", "revocation", "denial", "timeout"}

\* What may happen at most: the devices there are, the objects and the calls the
\* page makes; how often a device is unplugged, the grant revoked from
\* elsewhere, a request denied, an answer waited for in vain.
Scenario ==
  [devices : SUBSET Device, objects : 0..MaxObjects, calls : 0..MaxCalls, faults : [Faults -> Nat]]

ASSUME ScenarioAssumption ==
  /\ IsFiniteSet(Device)
  /\ MaxObjects \in Nat /\ MaxCalls \in Nat
  /\ Scenarios \subseteq Scenario

None == 0

State == {"closed", "opening", "opened", "closing", "forgetting", "forgotten"}

VARIABLES
  dev,        \* devices of the objects made so far
  registry,   \* deviceRegistry: device -> object
  st,         \* connectionState
  was,        \* closingWasOpened
  port,       \* dataPort, by its generation
  reports,    \* reports the page awaits, at most one an object
  openBy,     \* openPromise, closePromise and forgetPromise, as calls
  closeBy,
  forgetBy,
  calls,      \* the calls made so far
  outbox,     \* requests on their way to the bridge
  reqs,       \* requests the bridge serves
  control,    \* controlQueue, its head is controlPending
  wire,       \* answers and events from the background
  events,     \* events the bridge passes on once the plane is down
  inbox,      \* answers and events from the bridge
  sess,       \* bridge: client.sessions
  plane,      \* bridge: the generation of the device's data plane
  granted,    \* the devices of the group the site is allowed
  revoking,   \* revocations under way: see Revocation
  alive,      \* sessions alive in the daemon
  orphans,    \* orphanCleanup: sessions whose close failed, to be closed again
  refused,    \* (history) sessions of which a close was answered with an error
  bound,      \* the scenario the behaviour stays in
  spent       \* how often each of its faults has happened

objVars == <<dev, registry, st, was, port, reports>>
promiseVars == <<openBy, closeBy, forgetBy>>
bridgeVars == <<sess, plane>>
backVars == <<granted, revoking, alive, orphans, refused>>
portVars == <<control, wire, inbox>>
faultVars == <<bound, spent>>
vars == <<objVars, promiseVars, calls, outbox, reqs, portVars, events, bridgeVars, backVars, faultVars>>

Made == DOMAIN dev
Spend(f) == spent[f] < bound.faults[f] /\ spent' = [spent EXCEPT ![f] = @ + 1] /\ UNCHANGED bound

-----------------------------------------------------------------------------
(* Objects *)

With(f, os, v) == [o \in Object |-> IF o \in os THEN v ELSE f[o]]

\* reconcileAuthoritativeLifetime, with abortDeviceReports and closeDataPort.
Reconcile(os, to) ==
  /\ st' = With(st, os, to)
  /\ was' = With(was, os, FALSE)
  /\ reports' = With(reports, os, FALSE)
  /\ port' = With(port, os, None)

\* closeDataPort alone: what performOpenDevice does when it fails.
CloseDataPort(o) == port' = [port EXCEPT ![o] = None]

Unregister(ds) == registry' = [d \in Device |-> IF d \in ds THEN None ELSE registry[d]]

\* permissionGroupStates
Group(o) == {o} \cup ({registry[d] : d \in Device} \ {None})

\* createHIDDevice through getDevices, requestDevice or a connect event.
GetOrCreateDevice(d) ==
  /\ d \in granted /\ registry[d] = None /\ Len(dev) < bound.objects
  /\ dev' = Append(dev, d)
  /\ registry' = [registry EXCEPT ![d] = Len(dev) + 1]
  /\ UNCHANGED <<st, was, port, reports, promiseVars, calls, outbox, portVars, reqs, events, bridgeVars, backVars,
                 faultVars>>

-----------------------------------------------------------------------------
(* Calls and their requests *)

Next1 == Len(calls) + 1          \* the call made next

Request(c, a, d) ==
  [c |-> c, a |-> a, d |-> d, at |-> "sent", tok |-> None]

NewCall(k, o, at) ==
  [k |-> k, o |-> o, at |-> at, res |-> "pending", on |-> {}, group |-> {}, opened |-> {},
   todo |-> <<>>]

Done(c) == calls[c].res # "pending"

\* The promise settles and the object lets go of it.
Settle(c, res) == [calls EXCEPT ![c].res = res, ![c].at = "done"]
LetGo(f, c) == [o \in Object |-> IF f[o] = c THEN None ELSE f[o]]

\* A continuation that runs before the next message.
Runnable(c) ==
  \/ calls[c].at = "await" /\ \A b \in calls[c].on : Done(b)
  \/ calls[c].at = "undo" /\ calls[c].k = "forget"

Settled == \A c \in DOMAIN calls : ~Runnable(c)

\* (wrong variant) a close in progress does not keep open() out.
OpenWhileClosing(o) ==
  /\ Settled /\ Next1 <= bound.calls
  /\ st[o] \in {"closed", "closing"}
  /\ st' = [st EXCEPT ![o] = "opening"]
  /\ openBy' = [openBy EXCEPT ![o] = Next1]
  /\ calls' = Append(calls, NewCall("open", o, "asked"))
  /\ outbox' = Append(outbox, Request(Next1, "open", dev[o]))
  /\ UNCHANGED <<dev, registry, was, port, reports, closeBy, forgetBy, portVars, reqs, events, bridgeVars, backVars,
                 faultVars>>

\* openDevice, performOpenDevice up to the answer.
Open(o) ==
  /\ Settled /\ Next1 <= bound.calls
  /\ st[o] = "closed"
  /\ st' = [st EXCEPT ![o] = "opening"]
  /\ openBy' = [openBy EXCEPT ![o] = Next1]
  /\ calls' = Append(calls, NewCall("open", o, "asked"))
  /\ outbox' = Append(outbox, Request(Next1, "open", dev[o]))
  /\ UNCHANGED <<dev, registry, was, port, reports, closeBy, forgetBy, portVars, reqs, events, bridgeVars, backVars,
                 faultVars>>

-----------------------------------------------------------------------------
(* The page hears of a request *)

\* (wrong variant) a failed open leaves the object in "opening".
OpenFailsOpening(c, backend) ==
  LET o == calls[c].o
      undo == backend /\ st[o] # "closing"
  IN  /\ CloseDataPort(o)
      /\ IF undo
         THEN /\ calls' = [calls EXCEPT ![c].at = "undoing"]
              /\ outbox' = Append(outbox, Request(c, "close", dev[o]))
              /\ UNCHANGED openBy
         ELSE /\ calls' = Settle(c, "failed")
              /\ openBy' = LetGo(openBy, c)
              /\ UNCHANGED outbox
      /\ UNCHANGED <<st, was, reports>>

\* The catch of performOpenDevice: `c` ends, or closes the session first.
OpenFails(c, backend) ==
  LET o == calls[c].o
      undo == backend /\ st[o] # "closing"
  IN  /\ CloseDataPort(o)
      /\ IF undo
         THEN /\ calls' = [calls EXCEPT ![c].at = "undoing"]
              /\ outbox' = Append(outbox, Request(c, "close", dev[o]))
              /\ UNCHANGED <<st, openBy>>
         ELSE /\ st' = IF st[o] = "opening" THEN [st EXCEPT ![o] = "closed"] ELSE st
              /\ calls' = Settle(c, "failed")
              /\ openBy' = LetGo(openBy, c)
              /\ UNCHANGED outbox
      /\ UNCHANGED <<was, reports>>

OpenHeard(c, ok) ==
  LET o == calls[c].o
  IN  IF ok /\ st[o] = "opening"
      THEN /\ port' = [port EXCEPT ![o] = c]                  \* wireDevicePort
           /\ calls' = [calls EXCEPT ![c].at = "waiting"]
           /\ outbox' = Append(outbox, Request(c, "wait", dev[o]))
           /\ UNCHANGED <<st, was, reports, openBy>>
      ELSE OpenFails(c, ok)

ReadyHeard(c, ok) ==
  LET o == calls[c].o
  IN  IF ok /\ st[o] = "opening"
      THEN /\ st' = [st EXCEPT ![o] = "opened"]
           /\ was' = [was EXCEPT ![o] = FALSE]
           /\ calls' = Settle(c, "ok")
           /\ openBy' = LetGo(openBy, c)
           /\ UNCHANGED outbox
           /\ UNCHANGED <<port, reports>>
      ELSE OpenFails(c, TRUE)

\* The close of a failed open is answered: its outcome does not matter.
UndoHeard(c) ==
  LET o == calls[c].o
  IN  /\ st' = IF st[o] = "opening" THEN [st EXCEPT ![o] = "closed"] ELSE st
      /\ calls' = Settle(c, "failed")
      /\ openBy' = LetGo(openBy, c)
      /\ UNCHANGED outbox
      /\ UNCHANGED <<was, port, reports>>

\* (wrong variant) the state is not looked at when the close is answered.
CloseHeardBlind(c, ok) ==
  LET o == calls[c].o
  IN  /\ IF ok
         THEN Reconcile({o}, "closed")
         ELSE UNCHANGED <<st, was, port, reports>>
      /\ calls' = Settle(c, IF ok THEN "ok" ELSE "failed")
      /\ UNCHANGED outbox

\* performCloseDevice, after the answer.
CloseHeard(c, ok) ==
  LET o == calls[c].o
  IN  /\ IF ok /\ st[o] = "closing"
         THEN Reconcile({o}, "closed")
         ELSE UNCHANGED <<st, was, port, reports>>
      /\ calls' = Settle(c, IF ok THEN "ok" ELSE "failed")
      /\ UNCHANGED outbox

Sorted(S) == [i \in 1..Cardinality(S) |-> CHOOSE x \in S : Cardinality({y \in S : y < x}) = i - 1]

\* forgetDevice, after the answer of unpairDevice.
UnpairHeard(c, ok) ==
  /\ IF ok
     THEN /\ Reconcile(calls[c].group, "forgotten")
          /\ Unregister({dev[o] : o \in calls[c].group})
          /\ calls' = Settle(c, "ok")
          /\ forgetBy' = LetGo(forgetBy, c)
     ELSE /\ calls' = [calls EXCEPT ![c].at = "undo", ![c].todo = Sorted(calls[c].group)]
          /\ UNCHANGED <<st, was, port, reports, registry, forgetBy>>
  /\ UNCHANGED outbox

\* forgetDevice failed: the next member, if it is still being forgotten, is
\* closed, after its session when it had one.
UndoForget(c) ==
  LET o == Head(calls[c].todo)
      left == Tail(calls[c].todo)
  IN  /\ calls[c].k = "forget" /\ calls[c].at = "undo"
      /\ IF calls[c].todo = <<>>
         THEN /\ calls' = Settle(c, "failed")
              /\ forgetBy' = LetGo(forgetBy, c)
              /\ UNCHANGED <<st, was, outbox>>
         ELSE IF st[o] # "forgetting"
         THEN /\ calls' = [calls EXCEPT ![c].todo = left]
              /\ UNCHANGED <<st, was, outbox, forgetBy>>
         ELSE IF o \in calls[c].opened
         THEN /\ calls' = [calls EXCEPT ![c].at = "undoing"]
              /\ outbox' = Append(outbox, Request(c, "close", dev[o]))
              /\ UNCHANGED <<st, was, forgetBy>>
         ELSE /\ st' = [st EXCEPT ![o] = "closed"]
              /\ was' = [was EXCEPT ![o] = FALSE]
              /\ calls' = [calls EXCEPT ![c].todo = left]
              /\ UNCHANGED <<outbox, forgetBy>>
      /\ UNCHANGED <<dev, registry, port, reports, openBy, closeBy, portVars, reqs, events, bridgeVars, backVars,
                     faultVars>>

\* Its close is answered: the member is closed, whatever it is by now.
MemberUndone(c) ==
  LET o == Head(calls[c].todo)
  IN  /\ st' = [st EXCEPT ![o] = "closed"]
      /\ was' = [was EXCEPT ![o] = FALSE]
      /\ calls' = [calls EXCEPT ![c].at = "undo", ![c].todo = Tail(@)]
      /\ UNCHANGED outbox
      /\ UNCHANGED <<port, reports>>

Heard(c, ok) ==
  \/ calls[c].at = "asked" /\ OpenHeard(c, ok) /\ UNCHANGED <<registry, closeBy, forgetBy>>
  \/ calls[c].at = "waiting" /\ ReadyHeard(c, ok) /\ UNCHANGED <<registry, closeBy, forgetBy>>
  \/ /\ calls[c].at = "undoing" /\ calls[c].k = "open"
     /\ UndoHeard(c) /\ UNCHANGED <<registry, closeBy, forgetBy>>
  \/ /\ calls[c].at = "closing"
     /\ CloseHeard(c, ok)
     /\ closeBy' = LetGo(closeBy, c) /\ UNCHANGED <<registry, openBy, forgetBy>>
  \/ calls[c].at = "unpairing" /\ UnpairHeard(c, ok) /\ UNCHANGED <<openBy, closeBy>>
  \/ /\ calls[c].at = "undoing" /\ calls[c].k = "forget"
     /\ MemberUndone(c) /\ UNCHANGED <<registry, promiseVars>>

\* The call still waits for this very request: its timer has not fired.
Heeded(r) ==
  LET call == calls[r.c]
  IN  CASE call.at = "asked" -> r.a = "open"
        [] call.at = "waiting" -> r.a = "wait"
        [] call.at = "unpairing" -> r.a = "unpair"
        [] call.at = "closing" -> r.a = "close"
        [] call.at = "undoing" ->
             r.a = "close" /\ (call.k = "forget" => r.d = dev[Head(call.todo)])
        [] OTHER -> FALSE

\* handleResponseMessage
ResponseArrives(m) ==
  /\ m.k = "answer"
  /\ IF Heeded(m.r)
     THEN Heard(m.r.c, m.ok)
     ELSE UNCHANGED <<registry, st, was, port, reports, promiseVars, calls, outbox>>

\* dispatchDeviceEvent and forceForgetDevice
DispatchDeviceEvent(m) ==
  /\ m.k \in {"revoked", "disconnect"}
  /\ IF registry[m.d] = None
     THEN UNCHANGED <<registry, st, was, port, reports>>
     ELSE /\ Reconcile({registry[m.d]}, IF m.k = "revoked" THEN "forgotten" ELSE "closed")
          /\ Unregister({m.d})
  /\ UNCHANGED <<promiseVars, calls, outbox>>

PageHears ==
  /\ Settled /\ inbox # <<>>
  /\ ResponseArrives(Head(inbox)) \/ DispatchDeviceEvent(Head(inbox))
  /\ inbox' = Tail(inbox)
  /\ UNCHANGED <<dev, control, wire, reqs, events, bridgeVars, backVars, faultVars>>

\* The timer of sendRequest: the call goes on with 504, the request too.
RequestTimesOut(c) ==
  /\ Settled /\ Spend("timeout")
  /\ Heard(c, FALSE)
  /\ UNCHANGED <<dev, portVars, reqs, events, bridgeVars, backVars>>

-----------------------------------------------------------------------------
(* What the page calls *)

\* closeDevice, up to the first await of performCloseDevice.
Close(o) ==
  /\ Settled /\ Next1 <= bound.calls
  /\ st[o] \in {"opening", "opened", "closing"}
  /\ ~(st[o] = "closing" /\ closeBy[o] # None)
  /\ st' = [st EXCEPT ![o] = "closing"]
  /\ was' = [was EXCEPT ![o] = st[o] = "opened" \/ @]
  /\ reports' = [reports EXCEPT ![o] = FALSE]
  /\ CloseDataPort(o)
  /\ closeBy' = [closeBy EXCEPT ![o] = Next1]
  /\ calls' = Append(calls, [NewCall("close", o, "await") EXCEPT !.on = {openBy[o]} \ {None}])
  /\ UNCHANGED <<dev, registry, openBy, forgetBy, outbox, portVars, reqs, events, bridgeVars, backVars, faultVars>>

\* forgetDevice, up to the first await.
Forget(o) ==
  LET group == Group(o)
  IN  /\ Settled /\ Next1 <= bound.calls
      /\ st[o] # "forgotten" /\ \A m \in group : forgetBy[m] = None
      /\ st' = With(st, group, "forgetting")
      /\ reports' = With(reports, group, FALSE)
      /\ port' = With(port, group, None)
      /\ forgetBy' = With(forgetBy, group, Next1)
      /\ calls' = Append(calls,
           [NewCall("forget", o, "await") EXCEPT
              !.on = ({openBy[m] : m \in group} \cup {closeBy[m] : m \in group}) \ {None},
              !.group = group,
              !.opened = {m \in group : st[m] \in {"opened", "closing"}}])
      /\ UNCHANGED <<dev, registry, was, openBy, closeBy, outbox, portVars, reqs, events, bridgeVars, backVars, faultVars>>

\* (wrong variant) a close does not wait for the open it ends.
ResumesAtOnce(c) ==
  /\ calls[c].at = "await"
  /\ IF calls[c].k = "close"
     THEN /\ calls' = [calls EXCEPT ![c].at = "closing"]
          /\ outbox' = Append(outbox, Request(c, "close", dev[calls[c].o]))
     ELSE /\ calls' = [calls EXCEPT ![c].at = "unpairing"]
          /\ outbox' = Append(outbox, Request(c, "unpair", dev[calls[c].o]))
  /\ UNCHANGED <<objVars, promiseVars, portVars, reqs, events, bridgeVars, backVars, faultVars>>

\* What the call waited for has settled: it asks the bridge.
Resumes(c) ==
  /\ calls[c].at = "await" /\ \A b \in calls[c].on : Done(b)
  /\ IF calls[c].k = "close"
     THEN /\ calls' = [calls EXCEPT ![c].at = "closing"]
          /\ outbox' = Append(outbox, Request(c, "close", dev[calls[c].o]))
     ELSE /\ calls' = [calls EXCEPT ![c].at = "unpairing"]
          /\ outbox' = Append(outbox, Request(c, "unpair", dev[calls[c].o]))
  /\ UNCHANGED <<objVars, promiseVars, portVars, reqs, events, bridgeVars, backVars, faultVars>>

\* sendReport, sendFeatureReport and receiveFeatureReport
MayReport(o) == Settled /\ st[o] = "opened"

\* sendDeviceRequest over the data port
SendReport(o) ==
  /\ MayReport(o) /\ port[o] # None
  /\ ~reports[o]
  /\ reports' = [reports EXCEPT ![o] = TRUE]
  /\ UNCHANGED <<dev, registry, st, was, port, promiseVars, calls, outbox, portVars, reqs, events, bridgeVars, backVars,
                 faultVars>>

\* handleReportResult, and handleDataPlaneUnavailable: the port answers.
ReportResult(o) ==
  /\ Settled /\ reports[o] /\ port[o] # None
  /\ reports' = [reports EXCEPT ![o] = FALSE]
  /\ UNCHANGED <<dev, registry, st, was, port, promiseVars, calls, outbox, portVars, reqs, events, bridgeVars, backVars,
                 faultVars>>

-----------------------------------------------------------------------------
(* The bridge *)

\* replyToPage
Reply(r, ok) == inbox' = Append(inbox, [k |-> "answer", r |-> r, ok |-> ok])

\* sendBackgroundRequest: a close takes the token along.
SendBackgroundRequest(r) ==
  control' = Append(control, [r EXCEPT !.tok = IF r.a = "close" THEN sess[r.d] ELSE None])

\* (wrong variant) a wait for a generation that has gone is not answered.
BridgeTakesUnanswered ==
  /\ outbox # <<>> /\ outbox' = Tail(outbox)
  /\ LET r == Head(outbox)
     IN  CASE r.a = "open" ->
                reqs' = reqs \cup {[r EXCEPT !.at = "checking"]} /\ UNCHANGED <<control, inbox>>
           [] r.a = "wait" /\ sess[r.d] # None /\ plane[r.d] = r.c ->
                reqs' = reqs \cup {[r EXCEPT !.at = "waiting"]} /\ UNCHANGED <<control, inbox>>
           [] r.a = "wait" /\ ~(sess[r.d] # None /\ plane[r.d] = r.c) ->
                UNCHANGED <<reqs, control, inbox>>
           [] OTHER -> SendBackgroundRequest(r) /\ UNCHANGED <<reqs, inbox>>
  /\ UNCHANGED <<objVars, promiseVars, calls, wire, events, bridgeVars, backVars, faultVars>>

\* handleGenericRequest and handlePlaneReadyRequest, up to the first await: an
\* open looks up the settings and the grant first.
BridgeTakes ==
  /\ outbox # <<>> /\ outbox' = Tail(outbox)
  /\ LET r == Head(outbox)
     IN  CASE r.a = "open" ->
                reqs' = reqs \cup {[r EXCEPT !.at = "checking"]} /\ UNCHANGED <<control, inbox>>
           [] r.a = "wait" /\ sess[r.d] # None /\ plane[r.d] = r.c ->
                reqs' = reqs \cup {[r EXCEPT !.at = "waiting"]} /\ UNCHANGED <<control, inbox>>
           [] r.a = "wait" /\ ~(sess[r.d] # None /\ plane[r.d] = r.c) ->
                Reply(r, FALSE) /\ UNCHANGED <<reqs, control>>
           [] OTHER -> SendBackgroundRequest(r) /\ UNCHANGED <<reqs, inbox>>
  /\ UNCHANGED <<objVars, promiseVars, calls, wire, events, bridgeVars, backVars, faultVars>>

\* isDeviceAllowed has answered.
OpenAllowed(r) ==
  /\ r.at = "checking"
  /\ reqs' = reqs \ {r}
  /\ IF r.d \in granted THEN SendBackgroundRequest(r) /\ UNCHANGED inbox
                      ELSE Reply(r, FALSE) /\ UNCHANGED control
  /\ UNCHANGED <<objVars, promiseVars, calls, outbox, wire, events, bridgeVars, backVars, faultVars>>

\* handleOpenSuccess: the session is the client's, a generation starts.
OpenAnswered(r, ok) ==
  /\ r.a = "open"
  /\ IF ok
     THEN /\ sess' = [sess EXCEPT ![r.d] = r.c]
          /\ plane' = [plane EXCEPT ![r.d] = r.c]
          /\ reqs' = reqs \cup {[r EXCEPT !.at = "spawning"]}
          /\ UNCHANGED inbox
     ELSE Reply(r, FALSE) /\ UNCHANGED <<bridgeVars, reqs>>

\* handleCloseSuccess, as far as despawnDataPlane, or the token put back.
CloseAnswered(r, ok) ==
  /\ r.a = "close"
  /\ IF ok
     THEN /\ sess' = [sess EXCEPT ![r.d] = None]
          /\ plane' = [plane EXCEPT ![r.d] = None]
          /\ reqs' = reqs \cup {[r EXCEPT !.at = "despawning"]}
          /\ UNCHANGED inbox
     ELSE /\ sess' = IF r.tok # None THEN [sess EXCEPT ![r.d] = r.tok] ELSE sess
          /\ Reply(r, FALSE)
          /\ UNCHANGED <<plane, reqs>>

\* reconcileFrameDevice: with a session, the plane is taken down first.
ReconcileFrameDevice(e) ==
  /\ e.k # "answer"
  /\ IF sess[e.d] # None
     THEN /\ sess' = [sess EXCEPT ![e.d] = None]
          /\ plane' = [plane EXCEPT ![e.d] = None]
          /\ events' = events \cup {e}
          /\ UNCHANGED inbox
     ELSE /\ inbox' = Append(inbox, e)
          /\ UNCHANGED <<events, bridgeVars>>

\* A failed open is cleaned up, or a forget answered.
OtherAnswered(r, ok) ==
  /\ r.a \in {"cleanup", "unpair"}
  /\ Reply([r EXCEPT !.a = IF @ = "cleanup" THEN "open" ELSE @], ok)
  /\ UNCHANGED <<bridgeVars, reqs>>

\* wireControlPort: the listener takes the next message; an answer lets the next
\* request leave.
BridgeHears ==
  /\ wire # <<>> /\ wire' = Tail(wire)
  /\ LET m == Head(wire)
     IN  \/ /\ m.k = "answer"
            /\ OpenAnswered(m.r, m.ok) \/ CloseAnswered(m.r, m.ok) \/ OtherAnswered(m.r, m.ok)
            /\ control' = Tail(control)
            /\ UNCHANGED events
         \/ ReconcileFrameDevice(m) /\ UNCHANGED <<control, reqs>>
  /\ UNCHANGED <<objVars, promiseVars, calls, outbox, backVars, faultVars>>

\* spawnDataPlane: it accepts, even when another generation has begun, or finds
\* no plane, and the session is given up.
PlaneSpawned(r) ==
  /\ r.at = "spawning"
  /\ reqs' = reqs \ {r}
  /\ \/ Reply(r, TRUE) /\ UNCHANGED <<control, bridgeVars, faultVars>>
     \/ /\ IF plane[r.d] # r.c THEN UNCHANGED faultVars ELSE Spend("denial")
        /\ sess' = [sess EXCEPT ![r.d] = None]
        /\ plane' = [plane EXCEPT ![r.d] = None]               \* despawnDataPlane
        /\ control' = Append(control, [r EXCEPT !.a = "cleanup"])
        /\ UNCHANGED inbox
  /\ UNCHANGED <<objVars, promiseVars, calls, outbox, wire, events, backVars>>

\* waitForPlaneReady: a plane that cannot become ready is taken down.
PlaneReady(r) ==
  /\ r.at = "waiting"
  /\ reqs' = reqs \ {r}
  /\ IF plane[r.d] # r.c
     THEN Reply(r, FALSE) /\ UNCHANGED <<plane, faultVars>>
     ELSE \/ Reply(r, TRUE) /\ UNCHANGED <<plane, faultVars>>
          \/ /\ Spend("denial")
             /\ plane' = [plane EXCEPT ![r.d] = None]
             /\ Reply(r, FALSE)
  /\ UNCHANGED <<objVars, promiseVars, calls, outbox, control, wire, events, sess, backVars>>

\* despawnDataPlane is done: the close is answered.
CloseReplies(r) ==
  /\ r.at = "despawning"
  /\ reqs' = reqs \ {r} /\ Reply(r, TRUE)
  /\ UNCHANGED <<objVars, promiseVars, calls, outbox, control, wire, events, bridgeVars, backVars, faultVars>>

\* despawnDataPlane is done: the page hears of the event.
EventPassed(e) ==
  /\ events' = events \ {e} /\ inbox' = Append(inbox, e)
  /\ UNCHANGED <<objVars, promiseVars, calls, outbox, reqs, control, wire, bridgeVars, backVars, faultVars>>

-----------------------------------------------------------------------------
(* The background and the daemon *)

Alive(d) == {t \in alive : dev[calls[t].o] = d}

\* The request under way, when it is not answered yet.
Pending(a) ==
  /\ control # <<>> /\ Head(control).a = a
  /\ \A i \in DOMAIN wire : wire[i].k # "answer"

Answer(ok) == [k |-> "answer", r |-> Head(control), ok |-> ok]
Post(m) == wire' = Append(wire, m)

backUnchanged == <<objVars, promiseVars, calls, outbox, reqs, events, inbox, bridgeVars>>

\* closeForCleanup: a session whose close fails is kept, to be closed again.
CloseForCleanup(t) ==
  \/ alive' = alive \ {t} /\ UNCHANGED <<orphans, faultVars>>
  \/ t \in alive /\ Spend("denial") /\ orphans' = orphans \cup {t} /\ UNCHANGED alive

\* handleOpen, as far as the daemon's answer.
DaemonOpens ==
  /\ Pending("open") /\ Head(control).at # "opened" /\ Head(control).d \in granted
  /\ alive' = alive \cup {Head(control).c}
  /\ control' = <<[Head(control) EXCEPT !.at = "opened"]>> \o Tail(control)
  /\ UNCHANGED <<backUnchanged, wire, granted, revoking, orphans, refused, faultVars>>

\* handleOpen, after it: the grant is read again, the answer is posted.
BackgroundOpens ==
  /\ Pending("open")
  /\ LET r == Head(control)
         allowed == r.d \in granted
     IN  IF r.at = "opened"
         THEN /\ Post(Answer(allowed))
              /\ IF allowed THEN UNCHANGED <<alive, orphans, faultVars>> ELSE CloseForCleanup(r.c)
         ELSE /\ IF allowed THEN Spend("denial") ELSE UNCHANGED faultVars
              /\ Post(Answer(FALSE)) /\ UNCHANGED <<alive, orphans>>
  /\ UNCHANGED <<backUnchanged, control, granted, revoking, refused>>

\* handleCleanupSession
BackgroundDrops ==
  /\ Pending("cleanup")
  /\ CloseForCleanup(Head(control).c)
  /\ Post(Answer(FALSE))
  /\ UNCHANGED <<backUnchanged, control, granted, revoking, refused>>

\* retryOrphanCleanup, every 30 s
OrphanRetried(t) ==
  /\ alive' = alive \ {t} /\ orphans' = orphans \ {t}
  /\ UNCHANGED <<backUnchanged, control, wire, granted, revoking, refused, faultVars>>

\* handleClose and the daemon's close: only a token closes a session.  A token
\* that died may be refused (nothing is open) or confirmed.  The close of a live
\* session may fail, or be done and its answer never come: an error either way.
BackgroundCloses ==
  /\ Pending("close")
  /\ LET t == Head(control).tok
     IN  \/ t # None /\ alive' = alive \ {t} /\ Post(Answer(TRUE)) /\ UNCHANGED <<refused, faultVars>>
         \/ /\ IF t \in alive THEN Spend("denial") /\ alive' \in {alive, alive \ {t}}
                              ELSE UNCHANGED <<alive, faultVars>>
            /\ refused' = refused \cup {t}
            /\ Post(Answer(FALSE))
  /\ UNCHANGED <<backUnchanged, control, granted, revoking, orphans>>

\* revokeDevices goes from device to device: `left` are those whose grant it has
\* yet to remove, `close` the sessions it has yet to close of the last one.
Revocation == [page : BOOLEAN, left : SUBSET Device, close : SUBSET DOMAIN calls]
Begins(page) == revoking' = revoking \cup {[page |-> page, left |-> bound.devices, close |-> {}]}

\* handleRevokeDevice, for forget() of the page
BackgroundUnpairs ==
  /\ Pending("unpair") /\ \A v \in revoking : ~v.page
  /\ Begins(TRUE)
  /\ UNCHANGED <<backUnchanged, control, wire, granted, alive, orphans, refused, faultVars>>

\* The popup, or another tab, revokes the site's grant.
RevokedElsewhere ==
  /\ granted # {} /\ \A v \in revoking : v.page
  /\ Spend("revocation") /\ Begins(FALSE)
  /\ UNCHANGED <<backUnchanged, control, wire, granted, alive, orphans, refused>>

\* A session whose open is not answered is not registered yet, one that waits for
\* its cleanup no more.
Registered(d) ==
  Alive(d) \ (orphans \cup (IF control # <<>> /\ Head(control).at = "opened" /\ Pending("open")
                            THEN {Head(control).c} ELSE {}))

\* removeAllowedDevice is done: the sessions of the device are collected.
GrantRemoved(v, d) ==
  /\ v.close = {} /\ d \in v.left
  /\ granted' = granted \ {d}
  /\ revoking' = (revoking \ {v}) \cup {[v EXCEPT !.left = @ \ {d}, !.close = Registered(d)]}
  /\ UNCHANGED <<backUnchanged, control, wire, alive, orphans, refused, faultVars>>

\* One of them is closed, or kept for its cleanup.
SessionRevoked(v, t) ==
  /\ t \in v.close
  /\ revoking' = (revoking \ {v}) \cup {[v EXCEPT !.close = @ \ {t}]}
  /\ CloseForCleanup(t)
  /\ UNCHANGED <<backUnchanged, control, wire, granted, refused>>

\* All is done: the pages are told, then the page that asked is answered.
RevocationEnds(v) ==
  /\ v.left = {} /\ v.close = {}
  /\ revoking' = revoking \ {v}
  /\ wire' = wire \o SetToSeq({[k |-> "revoked", d |-> d] : d \in bound.devices})
                  \o (IF v.page THEN <<Answer(TRUE)>> ELSE <<>>)
  /\ UNCHANGED <<backUnchanged, control, granted, alive, orphans, refused, faultVars>>

\* A store fails, or the frame that asked from elsewhere goes: no page is told, and
\* what was removed and closed stays so.
RevocationFails(v) ==
  /\ v.page => v.close = {}
  /\ Spend("denial")
  /\ revoking' = revoking \ {v}
  /\ wire' = IF v.page THEN Append(wire, Answer(FALSE)) ELSE wire
  /\ UNCHANGED <<backUnchanged, control, granted, alive, orphans, refused>>

\* The device is unplugged (and plugged in again): its sessions end.
DeviceLost(d) ==
  /\ d \in bound.devices /\ Spend("loss")
  /\ alive' = alive \ Alive(d)
  /\ Post([k |-> "disconnect", d |-> d])
  /\ UNCHANGED <<backUnchanged, control, granted, revoking, orphans, refused>>

-----------------------------------------------------------------------------
Init ==
  /\ bound \in Scenarios
  /\ dev = <<>>
  /\ registry = [d \in Device |-> None]
  /\ st = [o \in Object |-> "closed"]
  /\ was = [o \in Object |-> FALSE]
  /\ port = [o \in Object |-> None]
  /\ reports = [o \in Object |-> FALSE]
  /\ openBy = [o \in Object |-> None]
  /\ closeBy = [o \in Object |-> None]
  /\ forgetBy = [o \in Object |-> None]
  /\ calls = <<>>
  /\ outbox = <<>> /\ reqs = {} /\ events = {} /\ control = <<>> /\ wire = <<>> /\ inbox = <<>>
  /\ sess = [d \in Device |-> None]
  /\ plane = [d \in Device |-> None]
  /\ granted = bound.devices /\ revoking = {}
  /\ alive = {} /\ orphans = {} /\ refused = {}
  /\ spent = [f \in Faults |-> 0]

\* What goes on without the page: messages arrive, promises continue.
Progress ==
  \/ \E c \in DOMAIN calls : Resumes(c) \/ UndoForget(c)
  \/ BridgeTakes
  \/ \E r \in reqs : OpenAllowed(r) \/ PlaneSpawned(r) \/ PlaneReady(r) \/ CloseReplies(r)
  \/ BridgeHears \/ PageHears
  \/ DaemonOpens \/ BackgroundOpens \/ BackgroundDrops \/ BackgroundCloses \/ BackgroundUnpairs
  \/ \E v \in revoking : \/ \E d \in v.left : GrantRemoved(v, d)
                         \/ \E t \in v.close : SessionRevoked(v, t)
                         \/ RevocationEnds(v)
  \/ \E t \in orphans : OrphanRetried(t)
  \/ \E e \in events : EventPassed(e)

Next ==
  \/ Progress
  \/ \E d \in Device : GetOrCreateDevice(d) \/ DeviceLost(d)
  \/ \E o \in Made : Open(o) \/ Close(o) \/ Forget(o) \/ SendReport(o) \/ ReportResult(o)
  \/ \E c \in DOMAIN calls : RequestTimesOut(c)
  \/ RevokedElsewhere
  \/ \E v \in revoking : RevocationFails(v)

Spec == Init /\ [][Next]_vars

\* The event loops of page, bridge and background go on.
FairSpec == Spec /\ WF_vars(Progress)

-----------------------------------------------------------------------------
(* Properties *)

TypeOK ==
  /\ dev \in Seq(Device) /\ registry \in [Device -> Made \cup {None}]
  /\ st \in [Object -> State] /\ was \in [Object -> BOOLEAN] /\ reports \in [Object -> BOOLEAN]
  /\ port \in [Object -> (DOMAIN calls) \cup {None}]
  /\ \A f \in {openBy, closeBy, forgetBy} : f \in [Object -> (DOMAIN calls) \cup {None}]
  /\ sess \in [Device -> (DOMAIN calls) \cup {None}] /\ plane \in [Device -> (DOMAIN calls) \cup {None}]
  /\ granted \subseteq Device /\ revoking \subseteq Revocation
  /\ alive \cup orphans \subseteq DOMAIN calls
  /\ \A r \in reqs \cup Range(outbox) \cup Range(control) : r.c \in DOMAIN calls /\ r.d \in Device /\ r.tok \in (DOMAIN calls) \cup {None}

Quiet == outbox = <<>> /\ reqs = {} /\ events = {} /\ control = <<>> /\ wire = <<>> /\ inbox = <<>> /\ revoking = {} /\ \A c \in DOMAIN calls : Done(c)

Opened(d) == {o \in Made : dev[o] = d /\ st[o] = "opened"}

\* An open of the device was called after the one that made the session t.
ReopenedSince(d, t) == \E c \in DOMAIN calls : c > t /\ calls[c].k = "open" /\ dev[calls[c].o] = d

\* While no device is lost and no answer comes too late, when nothing is on its
\* way: the daemon holds the session of every opened object, and the bridge its
\* token and the plane the object is wired to, unless a revocation was cut short,
\* which takes sessions and tells no page.  Every session the daemon holds is an
\* opened object's, one the background will close again, or one of which it
\* refused a close: then the bridge has the token still, for the next close, or a
\* later open has taken its place.  And a plane without an object is one of a
\* refused close.  No interleaving of open, close, forget and revocation leaves
\* anything else behind.
Agreement ==
  Quiet /\ spent["loss"] = 0 /\ spent["timeout"] = 0 =>
    \A d \in Device :
      /\ \A o \in Opened(d) :
           \/ port[o] # None /\ port[o] \in Alive(d) /\ sess[d] = port[o] /\ plane[d] = port[o]
           \/ d \notin granted /\ spent["denial"] > 0
      /\ \A t \in Alive(d) :
           \/ \E o \in Opened(d) : port[o] = t
           \/ t \in orphans
           \/ t \in refused /\ (sess[d] = t \/ ReopenedSince(d, t))
      /\ Opened(d) = {} /\ plane[d] # None => plane[d] \in refused /\ spent["denial"] > 0

\* While no device is lost, a report the page awaits has a port that will answer
\* it: close, forget and revocation settle the reports with the port (B9 to B11).
\* After a loss an old open(), or a forget() that failed, may take the port of
\* the next lifetime away.
ReportsHavePort ==
  spent["loss"] = 0 => \A o \in Made : reports[o] => st[o] = "opened" /\ port[o] # None

\* When nothing is on its way, no object is half way between two states; only a
\* request that was denied or timed out may leave one closing, and the page's
\* close() was rejected then.
NothingHalfWay ==
  Quiet => \A o \in Made :
             /\ st[o] \notin {"opening", "forgetting"}
             /\ st[o] = "closing" =>
                  /\ \E f \in Faults : spent[f] > 0
                  /\ \E c \in DOMAIN calls : calls[c].k = "close" /\ calls[c].o = o /\ calls[c].res = "failed"

\* What a call leaves behind has its type, its port, and comes to rest.
NothingDangles == TypeOK /\ ReportsHavePort /\ NothingHalfWay

\* While every request is answered and none denied, a forgotten object is never
\* anything else again.
ForgottenForGood ==
  [][spent["denial"] + spent["timeout"] = 0 => \A o \in Object : st[o] = "forgotten" => st'[o] = "forgotten"]_st

\* Every open(), close() and forget() settles: none waits for another forever.
CallsSettle == \A c \in Call : c \in DOMAIN calls ~> (c \in DOMAIN calls /\ Done(c))

\* The calls and objects do what the interface promises.
Lifecycle ==
  INSTANCE DeviceLifecycle WITH
    NoCall <- None, state <- st, opener <- openBy, faults <- {f \in {"loss", "denial", "timeout"} : spent[f] > 0},
    outcome <- [c \in Call |->
                  IF c \notin DOMAIN calls \/ calls[c].k # "open" THEN "none" ELSE calls[c].res]

ImplementsLifecycle == Lifecycle!Spec
==============================================================================
