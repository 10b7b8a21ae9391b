----------------------------- MODULE ScriptFilter -----------------------------
(***************************************************************************)
(* What the background does to the script requests of a document           *)
(* (addon/js/background/webrequest.js): it serves its own worker bundle to *)
(* a worker the page polyfill spawned from the document's URL (the shadow  *)
(* URL, armed beforehand), and puts the polyfill in front of the source of *)
(* the page's workers where that is enabled.                               *)
(*                                                                         *)
(* A request and its redirects are hops with one request id; the browser   *)
(* reports headers, data, end and failure of a hop in its own time, and    *)
(* data may come before the headers event.                                 *)
(***************************************************************************)
EXTENDS Integers, FiniteSets, Lists

CONSTANTS
  MaxHops,    \* bound: requests and redirects
  MaxFilters, \* bound: of them, where a polyfill is injected
  MaxChunks,  \* bound: chunks of a response
  MaxSpawns   \* bound: workers the polyfill spawns

ASSUME BoundAssumption == MaxHops \in Nat /\ MaxFilters \in 0..MaxHops /\ MaxChunks \in Nat

VARIABLES
  hops,        \* every hop, in order
  scriptDest,  \* the hop whose record a request id has, or 0
  arm,         \* the document's arm in shadowArms, and who took one
  spawns,      \* the spawns of the page polyfill
  setting      \* what does not change: the settings, the browser, the source

scriptVars == <<hops, scriptDest, arm, spawns, setting>>

Hop == 1..Len(hops)
Spawn == 1..Len(spawns)

-----------------------------------------------------------------------------
(* The page polyfill spawns (main/index.js, handleSpawnWorkerRequest) *)

\* armShadowSpawn.  The bound of spawns only where no polyfill is injected:
\* the two share no more than the request ids.
ArmShadowSpawn ==
  /\ Len(spawns) < MaxSpawns /\ ~setting.enabled
  /\ spawns' = Append(spawns, "armed")
  /\ arm' = [arm EXCEPT !.count = @ + 1, !.old = FALSE]
  /\ UNCHANGED <<hops, scriptDest, setting>>

\* unarmShadowSpawn
Unarmed == IF arm.count = 0 THEN arm ELSE [arm EXCEPT !.count = @ - 1]

\* new Worker() throws.
ConstructorThrows(s) ==
  /\ spawns[s] = "armed"
  /\ spawns' = [spawns EXCEPT ![s] = "failed"]
  /\ arm' = Unarmed
  /\ UNCHANGED <<hops, scriptDest, setting>>

\* worker.onerror: the script was not served, or its arm was taken and it failed
\* then; the arm that is taken back is one of another spawn.
WorkerErrors(s) ==
  /\ spawns[s] \in {"taken", "unserved", "lost"}
  /\ spawns' = [spawns EXCEPT ![s] = "failed"]
  /\ arm' = [Unarmed EXCEPT !.taken = @ \/ spawns[s] = "taken"]
  /\ UNCHANGED <<hops, scriptDest, setting>>

\* More than the three seconds an arm is good for pass.
ArmAges ==
  /\ arm.count > 0 /\ ~arm.old
  /\ arm' = [arm EXCEPT !.old = TRUE, !.taken = TRUE]
  /\ UNCHANGED <<hops, scriptDest, spawns, setting>>

-----------------------------------------------------------------------------
(* onBeforeRequest *)

Bundle == 0

\* hasShadowArm: looks, and drops an arm that is too old.
HasShadowArm == arm.count > 0 /\ ~arm.old
Looked == IF arm.old THEN [arm EXCEPT !.count = 0, !.old = FALSE] ELSE arm

\* What takes an arm from the polyfill: a worker of the page's, or a script of it
\* whose response starts before its headers are sent.
Steals(h) == hops[h].spawn = 0 /\ (hops[h].real = "worker" \/ hops[h].headers # "sent")

\* consumeShadowArm
ConsumeShadowArm(h) == [Unarmed EXCEPT !.taken = @ \/ Steals(h)]

NewHop(req, spawn, real, url, kind) ==
  [req |-> req, spawn |-> spawn, real |-> real, url |-> url, kind |-> kind,
   headers |-> "due", dest |-> "null", resolved |-> FALSE,
   phase |-> "buffering", in |-> 0, bad |-> 0, ended |-> FALSE,
   evals |-> 0, at |-> "idle", scope |-> "unknown", out |-> <<>>]

\* setScriptDest: a record of its own for the hop; one of an earlier hop of
\* the request is replaced.
SetScriptDest(req) == scriptDest' = [scriptDest EXCEPT ![req] = Len(hops) + 1]

Newest(h) == \A k \in Hop : hops[k].req = hops[h].req => k <= h

\* A hop was redirected elsewhere and is to be followed.
Followed(h) == Newest(h) /\ hops[h].phase = "redirected"

\* The listener: the shadow URL where one is armed, or was redirected to
\* (shadowRedirectTargets); elsewhere handleInjection, where the polyfill for
\* workers is enabled.
OnBeforeRequest(req, spawn, real, url) ==
  LET redirected == url = "target" /\ arm.target
      shadow == redirected \/ (url = "document" /\ HasShadowArm)
      kind == IF shadow THEN "shadow" ELSE IF setting.enabled THEN "inject" ELSE "plain"
  IN
  /\ Len(hops) < IF setting.enabled THEN MaxFilters ELSE MaxHops
  /\ hops' = Append(hops, NewHop(req, spawn, real, url, kind))
  /\ arm' = CASE redirected -> [arm EXCEPT !.target = FALSE, !.taken = @ \/ ~\E k \in Hop : Followed(k) /\ hops[k].req = req]
              [] url = "document" -> Looked
              [] OTHER -> arm
  /\ IF kind = "plain" THEN UNCHANGED scriptDest ELSE SetScriptDest(req)
  /\ spawns' = [s \in Spawn |-> IF s # spawn THEN spawns[s] ELSE IF shadow THEN "requested" ELSE "unserved"]
  /\ UNCHANGED setting

\* The polyfill's worker, whose script is the document's own URL
SpawnRequests(s) == spawns[s] = "armed" /\ OnBeforeRequest(Len(hops) + 1, s, "worker", "document")

\* A script or a worker of the page's.  The bound of one hop for those that
\* have nothing to do with the document's URL: requests share no state.
PageRequests(real, url) ==
  /\ url = "other" => hops = <<>>
  /\ url = "target" => arm.target
  /\ url = "document" => arm.count > 0
  /\ OnBeforeRequest(Len(hops) + 1, 0, real, url)

\* Its response has not started.
Waiting(h) == Newest(h) /\ hops[h].phase = "buffering" /\ hops[h].in = 0 /\ ~hops[h].ended /\ hops[h].headers # "failed"

-----------------------------------------------------------------------------
(* Records *)

\* (wrong variant) whatever record the request has is deleted.
DeleteScriptDestBlind(h) == scriptDest' = [scriptDest EXCEPT ![hops[h].req] = 0]

\* deleteScriptDest: only if the record is still the hop's own.
DeleteScriptDest(h) ==
  scriptDest' = [r \in DOMAIN scriptDest |->
                   IF r = hops[h].req /\ scriptDest[r] = h THEN 0 ELSE scriptDest[r]]

\* resolveScriptDestination
Resolved(hop) == [hop EXCEPT !.resolved = TRUE]

Recorded(h) == scriptDest[hops[h].req]

\* onBeforeSendHeaders: the record of the request id learns what it is for.
OnBeforeSendHeaders(h) ==
  LET k == Recorded(h)
      seen == [hops EXCEPT ![h].headers = "sent"]
  IN
  /\ hops[h].headers = "due" /\ Newest(h) /\ ~hops[h].ended /\ hops[h].phase \notin {"done", "redirected", "again"}
  /\ hops' = IF k = 0 THEN seen
             ELSE [seen EXCEPT ![k] = [Resolved(@) EXCEPT !.dest = IF setting.metadata THEN hops[h].real ELSE "null"]]
  /\ UNCHANGED <<scriptDest, arm, spawns, setting>>

\* Another hop waits for its redirect to be followed.
RedirectShared(h) == \E k \in Hop \ {h} : Followed(k)

\* The record of the request is one of handleShadowUrl: the hop's own, or one
\* that an earlier hop left.
Shadowed(h) == Recorded(h) # 0 /\ hops[Recorded(h)].kind = "shadow"

\* onBeforeRedirect: the record goes, and the URL the request goes to, one for all
\* hops here, is in shadowRedirectTargets once.
OnBeforeRedirect(h) ==
  /\ Waiting(h) /\ Shadowed(h)
  /\ hops' = [hops EXCEPT ![h].phase = "redirected"]
  /\ arm' = [arm EXCEPT !.target = TRUE, !.taken = @ \/ RedirectShared(h)]
  /\ scriptDest' = [scriptDest EXCEPT ![hops[h].req] = 0]
  /\ UNCHANGED <<spawns, setting>>

\* onBeforeRedirect, to the same URL: it returns at once, and the record stays.  Of
\* a URL the request was redirected to, nothing is known any more: an arm is lost.
RedirectedToItself(h) ==
  /\ Waiting(h) /\ Shadowed(h)
  /\ hops' = [hops EXCEPT ![h].phase = "again"]
  /\ arm' = [arm EXCEPT !.taken = @ \/ (hops[h].spawn # 0 /\ hops[h].url = "target")]
  /\ UNCHANGED <<scriptDest, spawns, setting>>

\* The next hop of a redirected request; the filter of handleInjection is told
\* later that its hop failed.
Redirected(h) ==
  LET hop == hops[h]
      goes == CASE hop.phase = "redirected" -> "target"
                [] hop.phase = "again" -> hop.url
                [] OTHER -> "other"
  IN
  /\ Newest(h) /\ (hop.phase \in {"redirected", "again"} \/ (hop.kind = "inject" /\ Waiting(h)))
  /\ OnBeforeRequest(hop.req, hop.spawn, hop.real, goes)

\* onErrorOccurred: the record of the request goes; a filter is told apart.
OnErrorOccurred(h) ==
  /\ Newest(h) /\ ~hops[h].ended /\ hops[h].headers # "failed" /\ hops[h].phase # "done"
  /\ LET failed == [hops[h] EXCEPT !.headers = "failed",
                                   !.phase = IF hops[h].kind = "inject" THEN @ ELSE "done"]
     IN  hops' = [hops EXCEPT ![h] = IF Recorded(h) = h THEN Resolved(failed) ELSE failed]
  /\ scriptDest' = [scriptDest EXCEPT ![hops[h].req] = 0]
  /\ spawns' = [s \in Spawn |-> IF s = hops[h].spawn /\ spawns[s] = "requested" THEN "lost" ELSE spawns[s]]
  /\ UNCHANGED <<arm, setting>>

-----------------------------------------------------------------------------
(* handleShadowUrl *)

\* onstart: a response known to be for anything but a worker passes.
ShadowPasses(h) ==
  /\ hops[h].kind = "shadow" /\ Waiting(h)
  /\ hops[h].dest \notin {"null", "worker"}
  /\ hops' = [hops EXCEPT ![h].phase = "done"]
  /\ DeleteScriptDest(h)
  /\ UNCHANGED <<arm, spawns, setting>>

\* onstart: the arm is taken, and the bundle is asked for.
ShadowStarts(h) ==
  /\ hops[h].kind = "shadow" /\ Waiting(h)
  /\ hops[h].dest \in {"null", "worker"}
  /\ hops' = [hops EXCEPT ![h].phase = "serving"]
  /\ arm' = ConsumeShadowArm(h)
  /\ spawns' = [s \in Spawn |-> IF s = hops[h].spawn /\ spawns[s] = "requested" THEN "taken" ELSE spawns[s]]
  /\ UNCHANGED <<scriptDest, setting>>

\* The bundle is written in place of the response.  Where it cannot be loaded,
\* ensureWorkerBundle rejects: the response stays open, and its record stays.
ShadowServed(h) ==
  /\ hops[h].phase = "serving" /\ setting.bundle
  /\ hops' = [hops EXCEPT ![h].phase = "done", ![h].out = <<Bundle>>]
  /\ DeleteScriptDest(h)
  /\ UNCHANGED <<arm, spawns, setting>>

-----------------------------------------------------------------------------
(* handleInjection *)

Chunks(m, n) == [i \in 1..(n - m) |-> m + i]

\* writeBuffered
WriteBuffered(hop) == [hop EXCEPT !.out = @ \o Chunks(0, hop.in), !.phase = "passthrough"]

\* writeWithBundle: all that was buffered, with the bundle after the prologue
WriteWithBundle(hop) ==
  [hop EXCEPT !.out = Chunks(0, setting.offset) \o <<Bundle>> \o Chunks(setting.offset, hop.in),
              !.phase = "passthrough"]

Of(h) == hops[h].kind = "inject"
Idle == UNCHANGED <<scriptDest, arm, spawns, setting>>
Steps(h, hop) == hops' = [hops EXCEPT ![h] = hop] /\ Idle

\* The text decoded so far: it ends where a chunk was not UTF-8.
Text(hop) == IF hop.bad = 0 THEN hop.in ELSE hop.bad - 1

\* filter.ondata, of a chunk that is or is not UTF-8
Data(h, bad) ==
  LET hop == [hops[h] EXCEPT !.in = @ + 1] IN
  /\ Of(h) /\ Newest(h) /\ ~hops[h].ended /\ hops[h].phase # "done" /\ hops[h].in < MaxChunks
  /\ IF hop.phase = "passthrough" THEN ~bad /\ Steps(h, [hop EXCEPT !.out = Append(@, hop.in)])
     ELSE Steps(h, [hop EXCEPT !.bad = IF bad /\ @ = 0 THEN hop.in ELSE @, !.evals = @ + 1])

\* filter.onstop
Stop(h) ==
  /\ Of(h) /\ Newest(h) /\ ~hops[h].ended /\ hops[h].phase # "done"
  /\ Steps(h, [Resolved(hops[h]) EXCEPT !.ended = TRUE, !.evals = @ + 1])

\* filter.onerror, of a hop that was redirected or whose filter broke
FilterError(h) ==
  /\ Of(h) /\ ~hops[h].ended /\ hops[h].phase # "done"
  /\ hops' = [hops EXCEPT ![h] = [Resolved(@) EXCEPT !.phase = "done"]]
  /\ DeleteScriptDest(h)
  /\ UNCHANGED <<arm, spawns, setting>>

Evaluated(hop) == [hop EXCEPT !.evals = @ - 1, !.at = "idle"]

\* evaluateBuffered, up to the await of setup(): one evaluation at a time.
EvaluateBuffered(h) ==
  LET hop == hops[h] IN
  /\ Of(h) /\ hop.evals > 0 /\ hop.at = "idle"
  /\ Steps(h, IF hop.phase # "buffering" THEN Evaluated(hop)
              ELSE IF hop.bad # 0 THEN Evaluated(WriteBuffered(hop))
              ELSE [hop EXCEPT !.at = "setup"])

\* setup: asked once, when the destination is known.
Scope(hop) ==
  IF hop.scope # "unknown" THEN hop.scope
  ELSE IF hop.dest = "worker" \/ (hop.dest = "null" /\ ~setting.metadata) THEN "worker" ELSE "other"

\* parseWorkerSource: the end of the prologue is in sight, or the end of all.
Parsed(hop) ==
  IF Text(hop) < setting.prologue /\ ~hop.ended THEN "pending"
  ELSE IF setting.valid /\ Text(hop) >= setting.offset THEN "ready" ELSE "invalid"

\* evaluateBuffered, from there on
Decide(h) ==
  LET hop == [hops[h] EXCEPT !.scope = Scope(hops[h])] IN
  /\ Of(h) /\ hop.at = "setup" /\ hop.resolved
  /\ Steps(h, Evaluated(
       IF hop.phase # "buffering" THEN hop
       ELSE IF hop.scope = "other" \/ ~setting.bundle THEN WriteBuffered(hop)
       ELSE IF Parsed(hop) = "pending" THEN hop
       ELSE IF Parsed(hop) = "invalid" THEN WriteBuffered(hop)
       ELSE WriteWithBundle(hop)))

\* filter.onstop, after the last evaluation
Finish(h) ==
  LET hop == IF hops[h].phase = "buffering" THEN WriteBuffered(hops[h]) ELSE hops[h] IN
  /\ Of(h) /\ hop.ended /\ hop.evals = 0 /\ hop.phase # "done"
  /\ hops' = [hops EXCEPT ![h] = [hop EXCEPT !.phase = "done", !.at = "finished"]]
  /\ DeleteScriptDest(h)
  /\ UNCHANGED <<arm, spawns, setting>>

-----------------------------------------------------------------------------
Init ==
  /\ hops = <<>> /\ spawns = <<>>
  /\ scriptDest = [r \in 1..MaxHops |-> 0]
  /\ arm = [count |-> 0, old |-> FALSE, target |-> FALSE, taken |-> FALSE]
  /\ setting \in {x \in [enabled : BOOLEAN, bundle : BOOLEAN, metadata : BOOLEAN,
                         prologue : 1..(MaxChunks + 1), offset : {0, 1}, valid : BOOLEAN] :
                     /\ x.enabled \/ (x.metadata /\ x.valid /\ x.prologue = 1)
                     /\ x.valid \/ x.prologue = 2
                     /\ x.offset = (IF x.prologue = 1 THEN 0 ELSE 1)}

Next ==
  \/ ArmShadowSpawn \/ ArmAges
  \/ \E s \in Spawn : ConstructorThrows(s) \/ WorkerErrors(s) \/ SpawnRequests(s)
  \/ \E real \in {"worker", "script"}, url \in {"document", "target", "other"} : PageRequests(real, url)
  \/ \E h \in {k \in Hop : hops[k].kind # "plain" \/ Recorded(k) # 0 \/ hops[k].phase # "buffering"} :
       \/ OnBeforeSendHeaders(h) \/ OnBeforeRedirect(h) \/ RedirectedToItself(h) \/ Redirected(h) \/ OnErrorOccurred(h)
       \/ ShadowPasses(h) \/ ShadowStarts(h) \/ ShadowServed(h)
       \/ \E bad \in BOOLEAN : Data(h, bad)
       \/ Stop(h) \/ FilterError(h) \/ EvaluateBuffered(h) \/ Decide(h) \/ Finish(h)

-----------------------------------------------------------------------------
Body(hop) == Without(hop.out, {Bundle})
Bundled(hop) == \E i \in 1..Len(hop.out) : hop.out[i] = Bundle

\* handleInjection: the source passes unharmed and in order; the polyfill is
\* put behind the prologue, of workers only, and of every worker that it can
\* be put into, when the headers came before the end.
ScriptWhole ==
  \A h \in Hop : LET hop == hops[h] IN hop.kind = "inject" =>
    /\ Body(hop) = Chunks(0, Len(Body(hop)))
    /\ Len(hop.out) <= Len(Body(hop)) + 1
    /\ hop.at = "finished" => Len(Body(hop)) = hop.in
    /\ Bundled(hop) => /\ setting.metadata => hop.real = "worker"
                       /\ hop.out[setting.offset + 1] = Bundle
    /\ (/\ hop.at = "finished" /\ hop.headers = "sent" /\ hop.real = "worker" /\ hop.bad = 0
        /\ setting.bundle /\ setting.valid /\ hop.in >= setting.offset) => Bundled(hop)

\* scriptDest: a record is that of the newest hop of its request, whose response
\* has not ended.  One exception: a shadow hop that was redirected to its own URL
\* when its arm was gone leaves its record to hops that nobody treats.
NoRecordLeft ==
  \A r \in DOMAIN scriptDest : scriptDest[r] # 0 =>
    LET h == scriptDest[r] IN
    /\ hops[h].req = r /\ hops[h].phase \notin {"redirected", "done"}
    /\ \/ Newest(h)
       \/ hops[h].phase = "again" /\ \A k \in Hop : hops[k].req = r /\ k > h => hops[k].kind = "plain"

\* hasShadowArm: every spawn whose script is to come has its arm, no arm is left
\* of one that is through, and none is passed by, while nothing took an arm away:
\* a worker of the page's with the document's URL, a late failure, three seconds,
\* two redirects to one URL at once, or a second redirect, to its own URL.
\* Scripts of the page that have the document's URL take none once their headers,
\* which name the destination, have been seen.
Owed == {s \in Spawn : spawns[s] \in {"armed", "requested", "lost"}}
ArmedSpawnServed ==
  ~arm.taken =>
    /\ arm.count = Cardinality(Owed)
    /\ \A s \in Spawn : spawns[s] # "unserved"

\* What the filters still have to do once the browser has called them
Filters == \E h \in Hop : (EvaluateBuffered(h) \/ Decide(h) \/ Finish(h) \/ ShadowServed(h))

\* filter.onstop, handleShadowUrl: a response that has ended is passed on and
\* closed, and one that is replaced is, when the bundle can be loaded.
Held == \E h \in Hop : (hops[h].ended /\ hops[h].phase # "done") \/ (hops[h].phase = "serving" /\ setting.bundle)
FiltersClose == []<>~Held
===============================================================================
