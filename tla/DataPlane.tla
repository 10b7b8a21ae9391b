------------------------------ MODULE DataPlane ------------------------------
(***************************************************************************)
(* The data plane of one device for one client: the generations the bridge *)
(* (addon/js/content/isolated/bridge.js) begins, spawns, retires and       *)
(* replaces, and what the page (content/main/index.js) wires to them.      *)
(*                                                                         *)
(* A plane is native messaging ("nm": the page's data port leads to the    *)
(* bridge and its runtime port), a worker of the page that the bridge      *)
(* drives through a control port, or an in-page WebTransport.              *)
(*                                                                         *)
(* The bridge's async functions are tasks: a step runs one from an await   *)
(* to the next.  Continuations run before the next message (Settled).      *)
(* Page and bridge talk over one port in each direction; requests to the   *)
(* background are answered in the order they were made.                    *)
(***************************************************************************)
EXTENDS Integers, Sequences, FiniteSets

CONSTANT Scenarios    \* bounds of a behaviour: see Scenario

Setting == {"nm", "worker", "inpage"}
Bounded == {"open", "switch", "failure", "refusal", "slow", "loss", "report"}

\* What the setting is changed to; how often at most the page opens the device,
\* the setting changes, a transport or worker fails, a request or a spawn is
\* refused, a timer fires before the answer, the device is lost, a report sent.
Scenario == [settings : SUBSET Setting, limit : [Bounded -> Nat]]

ASSUME ScenarioAssumption == Scenarios \subseteq Scenario

VARIABLES
  page,      \* the HIDDevice and the page's worker and in-page plane
  plane,     \* the bridge's tables for this client and device
  mode,      \* settings.dataPlane
  tasks,     \* async functions under way at the bridge, by number
  queue,     \* tasks with a request at the background, in order
  toPage,
  toBridge,
  bound,     \* the scenario the behaviour stays in
  spent      \* how often each bounded thing has happened

faultVars == <<bound, spent>>
vars == <<page, plane, mode, tasks, queue, toPage, toBridge, faultVars>>

Spend(f) == spent[f] < bound.limit[f] /\ spent' = [spent EXCEPT ![f] = @ + 1] /\ UNCHANGED bound

-----------------------------------------------------------------------------
(* Bridge: tables.  A table is transformed as a record; `out` gathers what  *)
(* is posted to the page meanwhile.                                         *)

Emit(p, m) == [p EXCEPT !.out = Append(@, m)]
Commit(p) ==
  /\ plane' = [p EXCEPT !.out = <<>>]
  /\ toPage' = toPage \o p.out

Gen(k, g) == [k |-> k, g |-> g]
Waited(ok) == [k |-> "waited", ok |-> ok]
Opened(ok, g) == [k |-> "opened", ok |-> ok, g |-> g]

\* beginPlaneGeneration
BeginPlaneGeneration(p) ==
  [p EXCEPT !.gen = @ + 1, !.ready = 0, !.local = FALSE, !.auth = FALSE, !.waiter = 0,
            !.out = IF p.waiter # 0 THEN Append(@, Waited(FALSE)) ELSE @]

\* markPlanePrerequisite, with notifyPlaneReady
MarkPlanePrerequisite(p, g, local, auth) ==
  LET q == [p EXCEPT !.local = @ \/ local, !.auth = @ \/ auth]
      announced == IF q.ready # g THEN Emit([q EXCEPT !.ready = g], Gen("ready", g)) ELSE q
  IN  IF p.gen # g THEN p
      ELSE IF ~(q.local /\ q.auth) THEN q
      ELSE IF q.waiter = g THEN Emit([announced EXCEPT !.waiter = 0], Waited(TRUE))
      ELSE announced

MarkPlaneReady(p, g) == MarkPlanePrerequisite(p, g, TRUE, TRUE)

\* maybeDisconnectRuntimeDataPort
MaybeDisconnect(p) == [p EXCEPT !.rport = @ /\ (p.nm \/ p.attempt)]

\* (wrong variant) the page is not told that the plane goes.
DespawnHeadSilent(p, notify) ==
  LET begun == BeginPlaneGeneration(p)
      q == IF p.inpage THEN Emit([begun EXCEPT !.inpage = FALSE], Gen("disconnect", p.gen)) ELSE begun
  IN  [q EXCEPT !.worker = 0, !.proxy = FALSE]

\* (wrong variant) the generation goes on.
DespawnHeadSameGeneration(p, notify) ==
  LET told == IF notify /\ p.gen # 0 THEN Emit(p, Gen("unavailable", p.gen)) ELSE p
      q == IF p.inpage THEN Emit([told EXCEPT !.inpage = FALSE], Gen("disconnect", p.gen)) ELSE told
  IN  [q EXCEPT !.worker = 0, !.proxy = FALSE]

\* despawnDataPlane up to the answer of the page
DespawnHead(p, notify) ==
  LET told == IF notify /\ p.gen # 0 THEN Emit(p, Gen("unavailable", p.gen)) ELSE p
      begun == BeginPlaneGeneration(told)
      q == IF p.inpage THEN Emit([begun EXCEPT !.inpage = FALSE], Gen("disconnect", p.gen)) ELSE begun
  IN  [q EXCEPT !.worker = 0, !.proxy = FALSE]

\* (wrong variant) the data ports are left open.
DespawnTailPortsLeft(p) ==
  MaybeDisconnect([p EXCEPT !.pend = {}, !.nm = FALSE, !.local = FALSE, !.auth = FALSE, !.ready = 0])

\* despawnDataPlane after it
DespawnTail(p) ==
  MaybeDisconnect([p EXCEPT !.ports = {}, !.pend = {}, !.nm = FALSE, !.local = FALSE,
                            !.auth = FALSE, !.ready = 0])

-----------------------------------------------------------------------------
(* Bridge: tasks *)

Task(k) == [k |-> k, g |-> 0, at |-> "asked", then |-> "", rewire |-> FALSE, mode |-> mode]
Over == [k |-> "over"]

Free == CHOOSE i \in 1..(Cardinality(DOMAIN tasks) + 1) : i \notin DOMAIN tasks
Put(i, t) ==
  IF t = Over THEN [j \in DOMAIN tasks \ {i} |-> tasks[j]]
  ELSE [j \in DOMAIN tasks \cup {i} |-> IF j = i THEN t ELSE tasks[j]]

\* One step of task i: tables p, the task becomes t.
Runs(i, p, t) == Commit(p) /\ tasks' = Put(i, t)
Asks(i) == queue' = Append(queue, i)

At(t, at) == [t EXCEPT !.at = at]

\* despawnDataPlane, then the task goes on at `then`.
Despawn(i, p, t, notify, then) ==
  IF p.worker # 0
  THEN Runs(i, Emit(DespawnHead(p, notify), [k |-> "terminate", g |-> p.worker, i |-> i]),
            [At(t, "terminating") EXCEPT !.then = then])
  ELSE Runs(i, DespawnTail(DespawnHead(p, notify)), At(t, then))

\* fallbackToNm up to the background's answer
Fallback(i, p, t) ==
  IF p.gen # t.g
  THEN Runs(i, p, At(t, "failed")) /\ UNCHANGED queue
  ELSE Runs(i, [p EXCEPT !.rport = TRUE], At(t, "nm")) /\ Asks(i)

\* What the caller does with a plane: handleOpenSuccess and handleGenericRequest,
\* waitForPlaneReady; recovery and switches drop it.
Accept(i, p, t, g) ==
  CASE t.k = "open" -> Runs(i, Emit([p EXCEPT !.attempt = FALSE], Opened(TRUE, g)), Over)
    [] t.k = "wait" ->
         IF p.ready = g THEN Runs(i, Emit(p, Waited(TRUE)), Over)
         ELSE IF p.gen # g THEN Runs(i, Emit(p, Waited(FALSE)), Over)
         ELSE Runs(i, [p EXCEPT !.waiter = g], [At(t, "timer") EXCEPT !.g = g])
    [] OTHER -> Runs(i, p, Over)

\* ... and without one.
GiveUp(i, p, t) ==
  CASE t.k = "open" -> Despawn(i, [p EXCEPT !.sess = FALSE], t, FALSE, "unopened")
    [] t.k = "wait" -> Runs(i, Emit(p, Waited(FALSE)), Over)
    [] OTHER -> Runs(i, p, Over)

\* spawnDataPlane: spawnWorker retires a previous worker first.
Spawn(i, p, t, kind) ==
  LET q == BeginPlaneGeneration(p)
      u == [t EXCEPT !.g = q.gen]
  IN  IF kind = "inpage"
      THEN Runs(i, q, At(u, "hash"))
      ELSE IF q.worker # 0
      THEN Runs(i, Emit([q EXCEPT !.worker = 0, !.proxy = FALSE],
                        [k |-> "terminate", g |-> q.worker, i |-> i]), At(u, "stale"))
      ELSE Runs(i, q, At(u, "spawn"))

NmBegins(p) == [BeginPlaneGeneration(p) EXCEPT !.nm = TRUE, !.rport = TRUE]

bridgeOnly == UNCHANGED <<page, mode, toBridge>>

\* Continuations that need no message.
Ready(i) == tasks[i].at \notin {"asked", "terminating", "stale", "spawning", "nm", "switching", "timer"}
            /\ ~(tasks[i].at = "inpage" /\ tasks[i].g \in plane.pend)
Settled == \A i \in DOMAIN tasks : ~Ready(i)

\* spawnWorker: the auth hash and the spawn mode may be missing.
SpawnWorker(i) ==
  LET t == tasks[i]
  IN  /\ t.at = "spawn"
      /\ \/ Runs(i, Emit(plane, [k |-> "spawn", g |-> t.g, i |-> i]), At(t, "spawning"))
            /\ UNCHANGED faultVars
         \/ Spend("refusal") /\ Runs(i, plane, At(t, "unspawned"))
      /\ UNCHANGED queue /\ bridgeOnly

\* spawnInPageDataPlane
SpawnInPageDataPlane(i) ==
  LET t == tasks[i]
  IN  /\ t.at = "hash"
      /\ \/ /\ Runs(i, Emit([plane EXCEPT !.inpage = TRUE, !.pend = @ \cup {t.g}], Gen("connect", t.g)),
                   At(t, "inpage"))
            /\ UNCHANGED faultVars
         \/ Spend("refusal") /\ Runs(i, plane, At(t, "unspawned"))
      /\ UNCHANGED queue /\ bridgeOnly

\* spawnDataPlane after a spawn that failed
Unspawned(i) ==
  LET t == tasks[i]
  IN  /\ t.at = "unspawned" \/ (t.at = "inpage" /\ t.g \notin plane.pend \cup plane.up)
      /\ \/ plane.gen = t.g /\ Fallback(i, plane, t)
         \/ plane.gen # t.g /\ Accept(i, plane, t, t.g) /\ UNCHANGED queue
      /\ UNCHANGED faultVars /\ bridgeOnly

\* (wrong variant) the page is not told to wire the worker.
SpawnedUnwired(i) ==
  LET t == tasks[i]
  IN  /\ t.at = "spawned" \/ (t.at = "inpage" /\ t.g \notin plane.pend /\ t.g \in plane.up)
      /\ Accept(i, plane, t, t.g)
      /\ UNCHANGED <<queue, faultVars>> /\ bridgeOnly

\* ... after one that worked.
Spawned(i) ==
  LET t == tasks[i]
      p == IF t.rewire /\ t.at = "spawned" THEN Emit(plane, Gen("wire", t.g)) ELSE plane
  IN  /\ t.at = "spawned" \/ (t.at = "inpage" /\ t.g \notin plane.pend /\ t.g \in plane.up)
      /\ Accept(i, p, t, t.g)
      /\ UNCHANGED <<queue, faultVars>> /\ bridgeOnly

\* fallbackToNm after the retirement, recoverDataPlane after its despawn
FallsBack(i) ==
  LET t == [tasks[i] EXCEPT !.g = plane.gen, !.rewire = TRUE]
  IN  /\ tasks[i].at = "fallback" \/ (tasks[i].at = "recover" /\ mode = "nm")
      /\ Fallback(i, plane, t)
      /\ UNCHANGED faultVars /\ bridgeOnly

RecoverDataPlane(i) ==
  /\ tasks[i].at = "recover" /\ mode # "nm"
  /\ Spawn(i, plane, [tasks[i] EXCEPT !.rewire = TRUE], mode)
  /\ UNCHANGED <<queue, faultVars>> /\ bridgeOnly

\* applyDataPlane after its despawns, respawnPlanesForMode
Switched(i) ==
  LET t == tasks[i]
  IN  /\ t.at = "switched"
      /\ IF t.mode = "nm"
         THEN Runs(i, plane, At(t, "switching")) /\ Asks(i)
         ELSE IF plane.sess
         THEN Spawn(i, plane, [t EXCEPT !.rewire = TRUE], t.mode) /\ UNCHANGED queue
         ELSE Runs(i, plane, Over) /\ UNCHANGED queue
      /\ UNCHANGED faultVars /\ bridgeOnly

\* The ends of a despawn that nothing follows but a word to the page.
Ends(i) ==
  LET t == tasks[i]
  IN  /\ t.at \in {"closed", "unopened", "lost", "rejected", "failed", "dropped"}
      /\ CASE t.at = "closed" -> Runs(i, Emit(plane, [k |-> "closed"]), Over)
           [] t.at = "lost" -> Runs(i, Emit(plane, [k |-> "lost"]), Over)
           [] t.at = "unopened" ->
                Runs(i, Emit(MaybeDisconnect([plane EXCEPT !.attempt = FALSE]), Opened(FALSE, 0)), Over)
           [] t.at = "rejected" -> GiveUp(i, Emit(plane, Gen("unavailable", plane.gen)), t)
           [] t.at = "failed" -> GiveUp(i, plane, t)
           [] t.at = "dropped" -> Runs(i, plane, Over)
      /\ UNCHANGED <<queue, faultVars>> /\ bridgeOnly

Continue(i) ==
  \/ SpawnWorker(i) \/ SpawnInPageDataPlane(i) \/ Unspawned(i) \/ Spawned(i) \/ FallsBack(i) \/ RecoverDataPlane(i)
  \/ Switched(i) \/ Ends(i)

-----------------------------------------------------------------------------
(* Background: answers, and what comes from outside *)

\* The open is answered: handleOpenSuccess.
OpenAnswered(i, ok) ==
  LET t == tasks[i]
      p == [plane EXCEPT !.sess = TRUE]
      g == p.gen + 1
  IN  IF ~ok THEN Runs(i, Emit(MaybeDisconnect([plane EXCEPT !.attempt = FALSE]), Opened(FALSE, 0)), Over)
      ELSE IF mode = "nm" \/ p.nm
      THEN Accept(i, MarkPlanePrerequisite(NmBegins(p), g, FALSE, TRUE), t, g)
      ELSE Spawn(i, p, t, mode)

\* handleCloseSuccess
CloseAnswered(i) ==
  Despawn(i, [plane EXCEPT !.sess = FALSE], tasks[i], FALSE, "closed")

\* fallbackToNm, the setDataPlane request answered
NmAnswered(i, ok) ==
  LET t == tasks[i]
      marked == MarkPlanePrerequisite([plane EXCEPT !.nm = TRUE], t.g, FALSE, TRUE)
      p == IF t.rewire THEN Emit(marked, Gen("wire", t.g)) ELSE marked
  IN  IF plane.gen # t.g THEN GiveUp(i, plane, t)
      ELSE IF ok THEN Accept(i, p, t, t.g)
      ELSE Despawn(i, plane, t, FALSE, "rejected")

\* applyDataPlane, its setDataPlane request answered
SwitchAnswered(i, ok) ==
  LET q == NmBegins(plane)
  IN  IF ok THEN Runs(i, Emit(MarkPlaneReady(q, q.gen), Gen("wire", q.gen)), Over)
      ELSE Despawn(i, plane, tasks[i], FALSE, "rejected")

\* sendBackgroundRequest: the oldest request is answered.  The daemon knows no
\* plane of a session that is closed.
BackgroundAnswers ==
  /\ Settled /\ queue # <<>> /\ queue' = Tail(queue)
  /\ LET i == Head(queue)
         at == tasks[i].at
     IN  \E ok \in BOOLEAN :
           /\ IF ok \/ (at \in {"nm", "switching"} /\ ~plane.sess)
              THEN UNCHANGED faultVars ELSE Spend("refusal")
           /\ \/ at = "asked" /\ tasks[i].k = "open" /\ OpenAnswered(i, ok)
              \/ at = "asked" /\ tasks[i].k = "close" /\ ok /\ CloseAnswered(i)
              \/ at = "nm" /\ (ok => plane.sess) /\ NmAnswered(i, ok)
              \/ at = "switching" /\ (ok => plane.sess) /\ SwitchAnswered(i, ok)
  /\ bridgeOnly

\* reconcileFrameDevice
DeviceLost ==
  /\ Settled /\ Spend("loss")
  /\ IF plane.sess
     THEN Despawn(Free, [plane EXCEPT !.sess = FALSE], Task("lost"), FALSE, "lost")
     ELSE Commit(Emit(plane, [k |-> "lost"])) /\ UNCHANGED tasks
  /\ UNCHANGED queue /\ bridgeOnly

\* The setting changes: applyDataPlane.
ApplyDataPlane(m) ==
  /\ Settled /\ m # mode /\ mode' = m /\ Spend("switch")
  /\ IF plane.sess
     THEN Despawn(Free, plane, [Task("switch") EXCEPT !.mode = m], TRUE, "switched")
     ELSE UNCHANGED <<plane, toPage, tasks>>
  /\ UNCHANGED <<page, queue, toBridge>>

-----------------------------------------------------------------------------
(* Bridge: messages of the page, workers and timers *)

\* handleWorkerErrorEvent, for the current generation
Fails(g) ==
  IF plane.gen # g THEN UNCHANGED <<plane, tasks, toPage>>
  ELSE IF plane.sess THEN Despawn(Free, plane, Task("recover"), TRUE, "recover")
  ELSE Despawn(Free, plane, Task("recover"), FALSE, "dropped")

\* handleDataPortRequest
DataPortArrives(m) ==
  IF plane.gen # m.g THEN UNCHANGED <<plane, toPage>>
  ELSE IF plane.worker = m.g
  THEN Commit([plane EXCEPT !.proxy = TRUE, !.linked = @ \cup {m.via}])
  ELSE Commit(MarkPlanePrerequisite([plane EXCEPT !.ports = @ \cup {m.g}], m.g, TRUE, FALSE))

\* handleGenericRequest: open and close go to the background.
Requested(m) ==
  LET i == Free
      nm == m.k = "open" /\ (mode = "nm" \/ plane.nm)
  IN  /\ Runs(i, [plane EXCEPT !.attempt = @ \/ nm, !.rport = @ \/ nm], Task(m.k))
      /\ Asks(i)

\* handlePlaneReadyRequest
WaitRequested(m) ==
  LET i == Free
  IN  IF plane.sess THEN Accept(i, plane, Task("wait"), m.g)
      ELSE Commit(Emit(plane, Waited(FALSE))) /\ UNCHANGED tasks

\* (wrong variant) a worker of a superseded generation is kept.
SpawnAnsweredKept(m) ==
  LET t == tasks[m.i]
  IN  IF ~(m.i \in DOMAIN tasks /\ t.at = "spawning" /\ t.g = m.g)
      THEN UNCHANGED <<plane, tasks, toPage>>
      ELSE IF ~m.ok THEN Runs(m.i, plane, At(t, "unspawned"))
      ELSE IF plane.gen = m.g
      THEN Runs(m.i, [plane EXCEPT !.worker = m.g, !.proxy = FALSE], At(t, "spawned"))
      ELSE Runs(m.i, plane, At(t, "unspawned"))

\* handleSpawnWorkerResponse, for a spawn still waited for
SpawnAnswered(m) ==
  LET t == tasks[m.i]
  IN  IF ~(m.i \in DOMAIN tasks /\ t.at = "spawning" /\ t.g = m.g)
      THEN UNCHANGED <<plane, tasks, toPage>>
      ELSE IF ~m.ok THEN Runs(m.i, plane, At(t, "unspawned"))
      ELSE IF plane.gen = m.g
      THEN Runs(m.i, [plane EXCEPT !.worker = m.g, !.proxy = FALSE], At(t, "spawned"))
      ELSE Runs(m.i, Emit(plane, [k |-> "terminate", g |-> m.g, i |-> 0]), At(t, "unspawned"))

\* The answer, or the timer, of a terminate request
Terminated(i, p) ==
  LET t == tasks[i]
  IN  IF t.at = "stale" THEN Runs(i, p, At(t, "spawn"))
      ELSE Runs(i, DespawnTail(p), At(t, t.then))

TerminateAnswered(m) ==
  IF m.i \in DOMAIN tasks /\ tasks[m.i].at \in {"terminating", "stale"}
  THEN Terminated(m.i, plane)
  ELSE UNCHANGED <<plane, tasks, toPage>>

\* handlePlaneResponse
PlaneAnswered(m) ==
  IF m.g \notin plane.pend THEN UNCHANGED <<plane, toPage>>
  ELSE LET p == [plane EXCEPT !.pend = @ \ {m.g}]
       IN  Commit(IF m.ok THEN MarkPlaneReady([p EXCEPT !.up = @ \cup {m.g}], m.g) ELSE p)

BridgeHears ==
  /\ Settled /\ toBridge # <<>> /\ toBridge' = Tail(toBridge)
  /\ LET m == Head(toBridge)
     IN  \/ m.k \in {"open", "close"} /\ Requested(m)
         \/ m.k = "wait" /\ WaitRequested(m) /\ UNCHANGED queue
         \/ m.k = "dataPort" /\ DataPortArrives(m) /\ UNCHANGED <<tasks, queue>>
         \/ m.k = "spawned" /\ SpawnAnswered(m) /\ UNCHANGED queue
         \/ m.k = "terminated" /\ TerminateAnswered(m) /\ UNCHANGED queue
         \/ m.k = "planeAnswer" /\ PlaneAnswered(m) /\ UNCHANGED <<tasks, queue>>
         \/ m.k = "workerError" /\ Fails(m.g) /\ UNCHANGED queue
         \/ /\ m.k = "planeClosed"                       \* handleDataPlaneEvent
            /\ IF plane.gen # m.g THEN UNCHANGED <<plane, tasks, toPage>>
               ELSE Despawn(Free, [plane EXCEPT !.inpage = FALSE], Task("recover"), plane.sess,
                            IF plane.sess THEN "recover" ELSE "dropped")
            /\ UNCHANGED queue
  /\ UNCHANGED <<page, mode, faultVars>>

\* A connected worker reports that its transport is ready.
WorkerReady ==
  /\ Settled /\ plane.proxy /\ page.worker = plane.worker /\ plane.ready # plane.worker
  /\ plane.gen = plane.worker
  /\ Commit(MarkPlaneReady(plane, plane.worker))
  /\ UNCHANGED <<tasks, queue, faultVars>> /\ bridgeOnly

\* ... that it closed, or that its token is refused.
WorkerFails ==
  /\ Settled /\ plane.proxy /\ page.worker = plane.worker /\ Spend("failure")
  /\ Fails(plane.worker)
  /\ UNCHANGED queue /\ bridgeOnly

\* Nothing else goes on: a timer is what comes next.
Idle == Settled /\ toPage = <<>> /\ toBridge = <<>> /\ queue = <<>> /\ page.spawns = <<>>

\* The 10 s timer of waitForPlaneReady retires the generation for "nm".
WaitTimesOut(i) ==
  LET t == tasks[i]
  IN  /\ Settled /\ t.at = "timer"
      /\ IF plane.waiter # t.g
         THEN tasks' = Put(i, Over) /\ UNCHANGED <<plane, toPage, faultVars>>
         ELSE /\ IF Idle /\ ~(plane.proxy /\ plane.ready # plane.gen) THEN UNCHANGED faultVars ELSE Spend("slow")
              /\ Despawn(i, [plane EXCEPT !.waiter = 0], t, TRUE, "fallback")
      /\ UNCHANGED queue /\ bridgeOnly

\* The 10 s timers of a spawn, a termination and an in-page plane.
RequestTimesOut(i) ==
  LET t == tasks[i]
  IN  /\ Settled /\ Spend("slow")
      /\ \/ t.at = "spawning" /\ Runs(i, plane, At(t, "unspawned"))
         \/ t.at \in {"terminating", "stale"} /\ Terminated(i, plane)
         \/ /\ t.at = "inpage" /\ t.g \in plane.pend
            /\ Commit([plane EXCEPT !.pend = @ \ {t.g}, !.inpage = FALSE])
            /\ UNCHANGED tasks
      /\ UNCHANGED queue /\ bridgeOnly

-----------------------------------------------------------------------------
(* Page *)

Says(m) == toBridge' = Append(toBridge, m)
Live == page.conn \in {"opening", "opened"}          \* isDeviceOpeningOrOpen

NoReport == [to |-> "none", g |-> 0]

\* rejectPendingReports: those of the data port.
Rejected(pg) == [pg EXCEPT !.report = IF @.to \in {"bridge", "worker"} THEN NoReport ELSE @]

\* closeDataPort
Closed(pg) == [pg EXCEPT !.port = 0, !.via = 0, !.ready = FALSE, !.unavail = FALSE, !.ungen = 0]

\* wireDevicePort
WireDevicePort(pg, g) ==
  LET q == IF pg.port # 0 THEN Rejected(pg) ELSE pg
  IN  [q EXCEPT !.gen = g, !.ready = FALSE, !.ungen = IF g # pg.gen THEN 0 ELSE @,
                !.unavail = @ \/ pg.conn = "opened", !.port = g, !.via = pg.worker]

Wires(pg, g) ==
  IF pg.port = g THEN page' = pg /\ UNCHANGED toBridge
  ELSE /\ page' = WireDevicePort(pg, g)
       /\ Says([k |-> "dataPort", g |-> g, via |-> pg.worker])

\* performOpenDevice: the open is answered.
OpenHeard(m) ==
  IF m.ok /\ page.conn = "opening"
  THEN /\ page' = IF page.port = m.g THEN page ELSE WireDevicePort(page, m.g)
       /\ toBridge' = toBridge \o
            (IF page.port = m.g THEN <<>> ELSE <<[k |-> "dataPort", g |-> m.g, via |-> page.worker]>>)
            \o <<Gen("wait", m.g)>>
  ELSE IF m.ok
  THEN page' = Closed(page) /\ Says([k |-> "close"])
  ELSE /\ page' = [Closed(page) EXCEPT !.conn = IF @ = "opening" THEN "closed" ELSE @, !.calls = FALSE]
       /\ UNCHANGED toBridge

\* ... the plane is ready, or not: then the session is closed again.
WaitHeard(m) ==
  IF m.ok /\ page.conn = "opening"
  THEN /\ page' = [page EXCEPT !.conn = "opened", !.ready = TRUE, !.unavail = FALSE, !.calls = FALSE]
       /\ UNCHANGED toBridge
  ELSE /\ page' = Closed(page) /\ Says([k |-> "close"])

\* handleDataPlaneReady
HandleDataPlaneReady(g) ==
  page' = IF g = page.gen /\ page.ungen # g /\ Live
          THEN [page EXCEPT !.ready = TRUE, !.unavail = FALSE, !.ungen = 0] ELSE page

\* handleDataPlaneUnavailable
HandleDataPlaneUnavailable(g) ==
  page' = IF g >= page.gen /\ Live
          THEN [Rejected(page) EXCEPT !.gen = g, !.ready = FALSE, !.unavail = TRUE, !.ungen = g,
                                      !.port = 0, !.via = 0]
          ELSE page

\* handleSpawnWorkerRequest, mode "terminate"
TerminateWorker(m) ==
  /\ page' = IF page.worker = m.g THEN [page EXCEPT !.worker = 0] ELSE page
  /\ IF m.i # 0 THEN Says([k |-> "terminated", i |-> m.i]) ELSE UNCHANGED toBridge

\* handleDataPlaneConnect
HandleDataPlaneConnect(g) ==
  IF page.conn # "closed" /\ (g < page.gen \/ (g = page.gen /\ page.ready))
  THEN Says([k |-> "planeAnswer", g |-> g, ok |-> FALSE]) /\ UNCHANGED page
  ELSE /\ page' = [page EXCEPT !.inp = g, !.inpUp = FALSE,
                               !.gen = g, !.ready = FALSE, !.unavail = TRUE, !.ungen = 0]
       /\ UNCHANGED toBridge

\* rejectInPagePending
InPageRejected(pg) == [pg EXCEPT !.report = IF @.to = "inpage" THEN NoReport ELSE @]

\* handleDataPlaneDisconnect
HandleDataPlaneDisconnect(g) ==
  page' = IF page.inp = g THEN InPageRejected([page EXCEPT !.inp = 0, !.inpUp = FALSE]) ELSE page

\* reconcileAuthoritativeLifetime
Lost(pg) == Rejected(InPageRejected(Closed([pg EXCEPT !.conn = IF @ = "closing" THEN @ ELSE "closed"])))

PageHears ==
  /\ toPage # <<>>
  /\ LET m == Head(toPage)
     IN  \/ m.k = "opened" /\ OpenHeard(m)
         \/ m.k = "waited" /\ WaitHeard(m)
         \/ /\ m.k = "closed" /\ UNCHANGED toBridge
            /\ page' = [page EXCEPT !.conn = "closed", !.calls = FALSE]
         \/ m.k = "ready" /\ HandleDataPlaneReady(m.g) /\ UNCHANGED toBridge
         \/ m.k = "unavailable" /\ HandleDataPlaneUnavailable(m.g) /\ UNCHANGED toBridge
         \/ m.k = "wire" /\ IF Live /\ m.g >= page.gen THEN Wires(page, m.g)   \* handleWireWorkerPort
                            ELSE UNCHANGED <<page, toBridge>>
         \/ /\ m.k = "spawn" /\ UNCHANGED toBridge
            /\ page' = [page EXCEPT !.spawns = Append(@, m)]
         \/ m.k = "terminate" /\ TerminateWorker(m)
         \/ m.k = "connect" /\ HandleDataPlaneConnect(m.g)
         \/ m.k = "disconnect" /\ HandleDataPlaneDisconnect(m.g) /\ UNCHANGED toBridge
         \/ m.k = "lost" /\ page' = Lost(page) /\ UNCHANGED toBridge
  /\ toPage' = Tail(toPage)
  /\ UNCHANGED <<plane, mode, tasks, queue, faultVars>>

pageOnly == UNCHANGED <<plane, mode, tasks, queue, toPage>>

\* handleSpawnWorkerRequest, once the worker can be made: armShadowSpawn answers
\* in order.
WorkerMade ==
  /\ page.spawns # <<>>
  /\ LET m == Head(page.spawns)
     IN  \/ /\ page' = [page EXCEPT !.spawns = Tail(@), !.worker = m.g]
            /\ Says([k |-> "spawned", g |-> m.g, i |-> m.i, ok |-> TRUE]) /\ UNCHANGED faultVars
         \/ /\ Spend("refusal") /\ page' = [page EXCEPT !.spawns = Tail(@)]
            /\ Says([k |-> "spawned", g |-> m.g, i |-> m.i, ok |-> FALSE])
  /\ pageOnly

\* worker.onerror
WorkerCrashes ==
  /\ page.worker # 0 /\ Spend("failure")
  /\ page' = [page EXCEPT !.worker = 0]
  /\ Says(Gen("workerError", page.worker))
  /\ pageOnly

\* The in-page transport is ready, or fails (onAuthFailed, onClosed).
InPageReady ==
  /\ page.inp # 0 /\ ~page.inpUp
  /\ page' = [page EXCEPT !.inpUp = TRUE]
  /\ Says([k |-> "planeAnswer", g |-> page.inp, ok |-> TRUE])
  /\ UNCHANGED faultVars /\ pageOnly

InPageFails ==
  /\ page.inp # 0 /\ Spend("failure")
  /\ page' = InPageRejected([page EXCEPT !.inp = 0, !.inpUp = FALSE])
  /\ Says(Gen("planeClosed", page.inp))
  /\ pageOnly

Open ==
  /\ page.conn = "closed" /\ ~page.calls /\ Spend("open")
  /\ page' = [page EXCEPT !.conn = "opening", !.calls = TRUE]
  /\ Says([k |-> "open"])
  /\ pageOnly

\* closeDevice of an opened device
Close ==
  /\ page.conn = "opened" /\ ~page.calls
  /\ page' = Rejected(InPageRejected(Closed([page EXCEPT !.conn = "closing", !.calls = TRUE])))
  /\ Says([k |-> "close"])
  /\ UNCHANGED faultVars /\ pageOnly

\* sendDeviceRequest
CanSend == page.conn = "opened" /\ page.ready /\ ~page.unavail
           /\ ((page.inp # 0 /\ page.inpUp) \/ (page.port # 0 /\ page.port = page.gen))

SendDeviceRequest ==
  /\ CanSend /\ page.report = NoReport /\ Spend("report")
  /\ page' = [page EXCEPT !.report =
       IF page.inp # 0 /\ page.inpUp THEN [to |-> "inpage", g |-> page.inp]
       ELSE IF page.via = 0 THEN [to |-> "bridge", g |-> page.port]
       ELSE [to |-> "worker", g |-> page.via]]
  /\ UNCHANGED toBridge /\ pageOnly

\* The plane that took the report answers it.
Answers(r) ==
  CASE r.to = "bridge" -> r.g \in plane.ports
    [] r.to = "worker" -> page.worker = r.g /\ r.g \in plane.linked
    [] r.to = "inpage" -> page.inp = r.g
    [] OTHER -> FALSE

ReportAnswered ==
  /\ Answers(page.report)
  /\ page' = [page EXCEPT !.report = NoReport]
  /\ UNCHANGED <<toBridge, faultVars>> /\ pageOnly

-----------------------------------------------------------------------------
Init ==
  /\ page = [conn |-> "closed", gen |-> 0, ready |-> FALSE, unavail |-> FALSE, ungen |-> 0,
             port |-> 0, via |-> 0, worker |-> 0, spawns |-> <<>>, inp |-> 0, inpUp |-> FALSE,
             report |-> NoReport, calls |-> FALSE]
  /\ plane = [sess |-> FALSE, gen |-> 0, ready |-> 0, local |-> FALSE, auth |-> FALSE, waiter |-> 0,
              worker |-> 0, proxy |-> FALSE, linked |-> {}, inpage |-> FALSE, pend |-> {}, up |-> {},
              nm |-> FALSE, ports |-> {}, rport |-> FALSE, attempt |-> FALSE, out |-> <<>>]
  /\ bound \in Scenarios /\ mode \in bound.settings
  /\ tasks = <<>> /\ queue = <<>> /\ toPage = <<>> /\ toBridge = <<>>
  /\ spent = [f \in Bounded |-> 0]

\* What goes on by itself.
Progress ==
  \/ \E i \in DOMAIN tasks : Continue(i) \/ WaitTimesOut(i)
  \/ BackgroundAnswers \/ BridgeHears \/ PageHears \/ WorkerReady \/ InPageReady
  \/ ReportAnswered \/ WorkerMade

Next ==
  \/ Progress
  \/ DeviceLost \/ (\E m \in bound.settings : ApplyDataPlane(m)) \/ WorkerFails \/ WorkerCrashes \/ InPageFails
  \/ \E i \in DOMAIN tasks : RequestTimesOut(i)
  \/ Open \/ Close \/ SendDeviceRequest

Spec == Init /\ [][Next]_vars

\* Messages are delivered, requests answered, spawns end, timers fire.
FairSpec == Spec /\ WF_vars(Progress)

-----------------------------------------------------------------------------
(* Properties *)

Numbers == 0..plane.gen

TypeOK ==
  /\ page.conn \in {"closed", "opening", "opened", "closing"}
  /\ {page.gen, page.ungen, page.port, page.via, page.worker, page.inp} \subseteq Numbers
  /\ {page.ready, page.unavail, page.inpUp, page.calls} \subseteq BOOLEAN
  /\ page.report \in [to : {"none", "bridge", "worker", "inpage"}, g : Numbers]
  /\ {plane.ready, plane.waiter, plane.worker} \cup plane.linked \cup plane.pend
       \cup plane.up \cup plane.ports \subseteq Numbers
  /\ {plane.sess, plane.local, plane.auth, plane.proxy, plane.inpage, plane.nm, plane.rport,
      plane.attempt} \subseteq BOOLEAN
  /\ plane.out = <<>> /\ mode \in bound.settings
  /\ \A i \in DOMAIN tasks : tasks[i].k \in {"open", "close", "wait", "lost", "switch", "recover"}
                            /\ tasks[i].g \in Numbers
  /\ \A n \in 1..Len(queue) : queue[n] \in DOMAIN tasks
  /\ \A f \in Bounded : spent[f] \in 0..bound.limit[f]

Quiet == Idle /\ DOMAIN tasks = {} /\ ~page.calls

\* No timer has fired before its answer.
Punctual == spent["slow"] = 0

\* No transport failed but the in-page one.
NoWorkerFailed == spent["failure"] = 0 \/ bound.settings = {"inpage"}

\* The setting has changed once at most: a change that meets the one before it
\* still under way mixes their generations (see the README's observations).
OneSwitch == spent["switch"] <= 1

\* While the answers are punctual: when nothing goes on, the reports the page
\* would send reach something that answers them, and the bridge agrees that the
\* generation is ready.
SendsAreServed ==
  Punctual /\ Quiet /\ CanSend =>
    /\ plane.sess /\ plane.ready = page.gen /\ plane.gen = page.gen
    /\ \/ page.inp # 0 /\ page.inpUp /\ plane.inpage
       \/ page.via = 0 /\ page.port \in plane.ports /\ plane.nm /\ plane.rport
       \/ page.via # 0 /\ page.worker = page.via /\ page.via \in plane.linked

\* When nothing goes on and the client has no session, nothing of a plane is
\* left: no worker, no in-page transport, no ports; a worker of the page is the
\* one the bridge drives.  Of one change of the setting at most.
NothingLeft ==
  Punctual /\ NoWorkerFailed /\ OneSwitch /\ Quiet =>
    /\ ~plane.sess => /\ plane.worker = 0 /\ page.worker = 0 /\ ~plane.inpage /\ page.inp = 0
                      /\ ~plane.nm /\ ~plane.rport /\ plane.ports = {}
    /\ page.worker # 0 => plane.worker = page.worker

\* The page never believes ready a generation whose plane the bridge has taken
\* down without word of it on the way; at rest with the setting "nm" a ready
\* plane is one of native messaging, when the setting changed once at most.
ReadyIsCurrent ==
  /\ TypeOK
  /\ page.conn = "opened" /\ page.ready /\ ~page.unavail /\ toPage = <<>> /\ Settled /\ plane.sess
       => page.gen = plane.gen
  /\ Quiet /\ OneSwitch /\ plane.sess /\ plane.ready # 0 /\ mode = "nm" => plane.nm

\* The bridge hears of a failure of g's transport.
FailureHeard(g) ==
  /\ toBridge # <<>> /\ toBridge' = Tail(toBridge)
  /\ Head(toBridge).k \in {"workerError", "planeClosed"} /\ Head(toBridge).g = g

\* While the setting changes once at most: the readiness the bridge announces for
\* a generation is withdrawn only by a later generation, neither by the end of an
\* older cleanup nor by a failure that an older generation's transport reports.
ReadyUntilSuperseded ==
  [][\A g \in {plane.ready} :
       g # 0 /\ plane'.ready # g /\ OneSwitch =>
         /\ plane'.gen > g
         /\ \A f \in Numbers : FailureHeard(f) => f = g]_plane

\* Every report is answered or rejected, every open and close of the page comes
\* to an end, and an opened device becomes usable again after every failure and
\* switch, but for a switch to native messaging or a second one.
ReportsSettle == page.report # NoReport ~> page.report = NoReport
CallsEnd == page.calls ~> ~page.calls
SwitchedToNm == spent["switch"] > 0 /\ mode = "nm"
Recovers == []<>(page.conn # "opened" \/ CanSend \/ SwitchedToNm \/ ~OneSwitch)

PageIsServed == ReportsSettle /\ CallsEnd /\ Recovers
==============================================================================
