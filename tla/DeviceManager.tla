---------------------------- MODULE DeviceManager ----------------------------
(***************************************************************************)
(* The daemon's device manager (crates/webhid-daemon/src/device_mgr.rs)    *)
(* with the tasks that drive it: one serial request task and one event     *)
(* relay task per IPC client (client.rs), one reader thread and one I/O    *)
(* worker thread per physical lifetime, and the WS/WT connection tasks.    *)
(*                                                                         *)
(* A step is one critical section of the `lifecycle` mutex, or one stretch *)
(* of code outside it.  What code runs outside the mutex (stopping and     *)
(* joining threads, counter corrections, waking waiters) is a step of its  *)
(* own, so every interleaving between the two is a behaviour.              *)
(*                                                                         *)
(* A definition that stands directly before another one of the same shape  *)
(* and that no action uses is a wrong variant of it; the properties tell   *)
(* the two apart.                                                          *)
(***************************************************************************)
EXTENDS Integers, FiniteSets, Sequences

CONSTANTS
  Client,        \* IPC clients, one per accepted stream
  Device,        \* device ids
  Token,         \* random session tokens: each is drawn at most once
  Life,          \* physical lifetimes: one Entry with its two threads each
  None,          \* no value
  Transport,     \* data planes besides NM that an instance explores
  MaxConnects,   \* bound: WS/WT connects of one session
  MaxInbox,      \* capacity of a client's receiver on the event bus
  MaxRemovals    \* bound: removals the hotplug monitor announces

Mode == {"nm"} \cup Transport

Session == [device: Device, owner: Client, mode: Mode, wsGen: Nat, wtGen: Nat]

\* An OpenReservation; its generation is named by the open's own token.
Reservation == [token: Token, invalidated: BOOLEAN]

\* A WS/WT connection and the TransportGrant it holds.
Conn == [token: Token, kind: Transport, gen: Nat, cap: Nat]

\* DeviceDisconnected on the bus.  `cause` is the lifetime whose reader died,
\* None for a removal announced by the hotplug monitor.
Event == [device: Device, cause: Life \cup {None}]

ASSUME NoneAssumption ==
  /\ None \notin Client \cup Device \cup Token \cup Life
  /\ None \notin Session \cup Reservation

ASSUME TransportAssumption == Transport \subseteq {"ws", "wt"}

\* A session token is 16 random bytes.
ASSUME TokenAssumption == IsFiniteSet(Token)

ASSUME BoundAssumption ==
  /\ MaxConnects \in Nat
  /\ MaxInbox \in Nat \ {0}
  /\ MaxRemovals \in Nat

VARIABLES
  sessions,           \* session_token -> Session
  authHashes,         \* tokens whose ws_auth_hash is registered
  devices,            \* device_id -> lifetime of the published Entry
  opening,            \* device_id -> OpenReservation
  nmSinks,            \* clients with a registered sink and a running relay
  nmHot,              \* (client, device_id) -> lifetime the binding writes to
  transportValidity,  \* token -> number of its current capability, 0 if none
  validCaps,          \* (token, number) of the capabilities not yet revoked
  nonNm,              \* the non_nm_sessions counter
  phase,              \* lifetime -> stage of its Entry
  lifeDev,            \* lifetime -> device it was opened on
  gate,               \* lifetimes whose reader-start gate is released
  published,          \* history: lifetimes that were put in `devices`
  reader,             \* lifetime -> reader thread
  io,                 \* lifetime -> I/O worker thread
  task,               \* client -> its request task
  relay,              \* client -> its event relay task
  inbox,              \* client -> events its bus receiver has not taken
  conns,              \* live WS/WT connection tasks
  usedTokens,         \* history: tokens drawn so far
  removals            \* removals announced so far

managerVars == <<sessions, authHashes, devices, nmHot, transportValidity, validCaps>>
lifeVars == <<phase, lifeDev, gate, published>>
threadVars == <<reader, io>>
relayVars == <<relay, inbox>>
envVars == <<conns, usedTokens, removals>>
vars == <<managerVars, opening, nmSinks, nonNm, lifeVars, threadVars, task,
          relayVars, envVars>>
-----------------------------------------------------------------------------
(* Request tasks *)

Pc == {"new", "idle", "reserve", "waiting", "woken", "opening", "opened",
       "built", "release", "abandon", "notify", "stop", "join",
       "snapshot", "draining", "gone"}

Task == [pc: Pc, token: Token \cup {None}, device: Device \cup {None},
         life: Life \cup {None}, waitOn: Token \cup {None},
         resume: Pc, owned: SUBSET Token]

At(here) == [pc |-> here, token |-> None, device |-> None, life |-> None,
             waitOn |-> None, resume |-> "idle", owned |-> {}]

\* The task goes on at `here`; an entry it took over is stopped and joined first.
ContinueUnstopped(tasks, c, entry, here) == [tasks EXCEPT ![c].pc = here]
Continue(tasks, c, entry, here) ==
  IF entry = None THEN [tasks EXCEPT ![c].pc = here]
  ELSE [tasks EXCEPT ![c].pc = "stop", ![c].life = entry, ![c].resume = here]

\* notify_waiters of one reservation: every future created from it completes.
Woken(tasks, token) ==
  [c \in Client |-> IF tasks[c].pc = "waiting" /\ tasks[c].waitOn = token
                    THEN [tasks[c] EXCEPT !.pc = "woken", !.waitOn = None]
                    ELSE tasks[c]]
Resting == [at |-> "idle", life |-> None, cause |-> None, owed |-> {}]
-----------------------------------------------------------------------------
(* The maps *)

Live(t) == sessions[t] # None
SessionsOf(d) == {t \in Token : Live(t) /\ sessions[t].device = d}
Owned(c) == {t \in Token : Live(t) /\ sessions[t].owner = c}
NonNmOf(T) == {t \in T : sessions[t].mode # "nm"}
CapOf(t) == {<<t, transportValidity[t]>>}

BindableInAnyMode(c, d) ==
  /\ c \in nmSinks'
  /\ \E t \in Token : sessions'[t] # None /\ sessions'[t].device = d /\ sessions'[t].owner = c

\* A binding exists for a client with a sink and an active NM session.
Bindable(c, d) ==
  /\ c \in nmSinks'
  /\ \E t \in Token : /\ sessions'[t] # None
                      /\ sessions'[t].device = d
                      /\ sessions'[t].owner = c
                      /\ sessions'[t].mode = "nm"

RefreshNmHot(c, d) ==
  nmHot' = [nmHot EXCEPT ![<<c, d>>] = IF Bindable(c, d) THEN devices'[d] ELSE None]

InvalidateNmHot(d) ==
  nmHot' = [b \in Client \X Device |-> IF b[2] = d THEN None ELSE nmHot[b]]

\* register_session_locked and the refresh that every caller does after it.
RegisterSession(c, d, t) ==
  /\ sessions' = [sessions EXCEPT ![t] =
        [device |-> d, owner |-> c, mode |-> "nm", wsGen |-> 0, wtGen |-> 0]]
  /\ authHashes' = authHashes \cup {t}
  /\ UNCHANGED <<transportValidity, validCaps>>
  /\ RefreshNmHot(c, d)

\* update_non_nm_count: the session of t goes on in `mode`, or ends ("nm").
RecountBlind(t, mode) == nonNm' = nonNm + (IF mode = "nm" THEN -1 ELSE 1)
Recount(t, mode) ==
  nonNm' = nonNm - Cardinality(NonNmOf({t})) + (IF mode = "nm" THEN 0 ELSE 1)

InvalidateTransportUnrevoked(T) ==
  /\ transportValidity' = [t \in Token |-> IF t \in T THEN 0 ELSE transportValidity[t]]
  /\ UNCHANGED validCaps
InvalidateTransport(T) ==
  /\ transportValidity' = [t \in Token |-> IF t \in T THEN 0 ELSE transportValidity[t]]
  /\ validCaps' = validCaps \ UNION {CapOf(t) : t \in T}

\* The sessions in T leave the manager with all their authority.
DropSessionsKeepHashes(T) ==
  /\ sessions' = [t \in Token |-> IF t \in T THEN None ELSE sessions[t]]
  /\ UNCHANGED authHashes
  /\ InvalidateTransport(T)
DropSessionsOfOwner(T) ==
  LET all == {u \in Token : Live(u) /\ \E t \in T : sessions[u].owner = sessions[t].owner}
  IN  /\ sessions' = [t \in Token |-> IF t \in all THEN None ELSE sessions[t]]
      /\ authHashes' = authHashes \ all
      /\ InvalidateTransport(all)
DropSessions(T) ==
  /\ sessions' = [t \in Token |-> IF t \in T THEN None ELSE sessions[t]]
  /\ authHashes' = authHashes \ T
  /\ InvalidateTransport(T)

\* The Entry of device d leaves `devices`; the caller now owns it.
RemoveEntryForgotten(d) == InvalidateNmHot(d) /\ UNCHANGED <<devices, lifeVars>>
RemoveEntry(d) ==
  /\ devices' = [devices EXCEPT ![d] = None]
  /\ phase' = [l \in Life |-> IF l = devices[d] THEN "detached" ELSE phase[l]]
  /\ InvalidateNmHot(d)
  /\ UNCHANGED <<lifeDev, gate, published>>

\* stop_entry and stop_entry_io_worker up to their joins: stop_flag, epoch
\* advance, reader gate and Shutdown.
SignalStop(l) ==
  /\ phase' = [phase EXCEPT ![l] = "stopping"]
  /\ gate' = gate \cup {l}
  /\ UNCHANGED <<lifeDev, published>>

Exited(l) == reader[l].at = "exited" /\ io[l] = "exited"

\* The broadcast bus: a receiver that is full loses its oldest event.
DeliverUnbounded(q, e) == Append(q, e)
Deliver(q, e) == Append(IF Len(q) < MaxInbox THEN q ELSE Tail(q), e)
Broadcast(e) ==
  inbox' = [c \in Client |-> IF c \in nmSinks THEN Deliver(inbox[c], e) ELSE inbox[c]]
-----------------------------------------------------------------------------
Init ==
  /\ sessions = [t \in Token |-> None]
  /\ authHashes = {}
  /\ devices = [d \in Device |-> None]
  /\ opening = [d \in Device |-> None]
  /\ nmSinks = {}
  /\ nmHot = [b \in Client \X Device |-> None]
  /\ transportValidity = [t \in Token |-> 0]
  /\ validCaps = {}
  /\ nonNm = 0
  /\ phase = [l \in Life |-> "free"]
  /\ lifeDev = [l \in Life |-> None]
  /\ gate = {}
  /\ published = {}
  /\ reader = [l \in Life |-> [at |-> "none", victim |-> None, owed |-> {}]]
  /\ io = [l \in Life |-> "none"]
  /\ task = [c \in Client |-> At("new")]
  /\ relay = [c \in Client |-> Resting]
  /\ inbox = [c \in Client |-> <<>>]
  /\ conns = {}
  /\ usedTokens = {}
  /\ removals = 0
-----------------------------------------------------------------------------
(* A client's stream: accept, requests one at a time, teardown (client.rs) *)

\* handle_with_writer: the stream is accepted, its bus receiver and sink exist.
Connect(c) ==
  /\ task[c].pc = "new"
  /\ task' = [task EXCEPT ![c] = At("idle")]
  /\ nmSinks' = nmSinks \cup {c}
  /\ UNCHANGED <<managerVars, opening, nonNm, lifeVars, threadVars, relayVars, envVars>>

\* DeviceManager::open: a fresh random token, then the reservation loop.
Open(c, d, t) ==
  /\ task[c].pc = "idle"
  /\ t \notin usedTokens
  /\ task' = [task EXCEPT ![c] = [At("reserve") EXCEPT !.token = t, !.device = d]]
  /\ usedTokens' = usedTokens \cup {t}
  /\ UNCHANGED <<managerVars, opening, nmSinks, nonNm, lifeVars, threadVars, relayVars,
                 conns, removals>>

\* Top of the loop: join the published Entry, wait for the reservation of
\* another open, or reserve the device.
Reserve(c) ==
  LET d == task[c].device
      t == task[c].token
  IN  /\ task[c].pc = "reserve"
      /\ UNCHANGED <<devices, nmSinks, nonNm, lifeVars, threadVars, relayVars, envVars>>
      /\ \/ /\ devices[d] # None
            /\ RegisterSession(c, d, t)
            /\ task' = [task EXCEPT ![c] = At("idle")]
            /\ UNCHANGED opening
         \/ /\ devices[d] = None
            /\ opening[d] # None
            /\ task' = [task EXCEPT ![c].pc = "waiting", ![c].waitOn = opening[d].token]
            /\ UNCHANGED <<managerVars, opening>>
         \/ /\ devices[d] = None
            /\ opening[d] = None
            /\ opening' = [opening EXCEPT ![d] = [token |-> t, invalidated |-> FALSE]]
            /\ task' = [task EXCEPT ![c].pc = "opening"]
            /\ UNCHANGED managerVars

\* After the wait: join the Entry, go round the loop while the device is still
\* reserved, fail when its opener left without an Entry.
Wake(c) ==
  LET d == task[c].device
      t == task[c].token
  IN  /\ task[c].pc = "woken"
      /\ UNCHANGED <<devices, opening, nmSinks, nonNm, lifeVars, threadVars, relayVars, envVars>>
      /\ \/ /\ devices[d] # None
            /\ RegisterSession(c, d, t)
            /\ task' = [task EXCEPT ![c] = At("idle")]
         \/ /\ devices[d] = None
            /\ opening[d] # None
            /\ task' = [task EXCEPT ![c].pc = "reserve"]
            /\ UNCHANGED managerVars
         \/ /\ devices[d] = None
            /\ opening[d] = None
            /\ task' = [task EXCEPT ![c] = At("idle")]
            /\ UNCHANGED managerVars
-----------------------------------------------------------------------------
(* open_physical, run by the open that holds the reservation *)

\* The blocking HID open ends: a handle, or an error (also when the report
\* descriptor could not be parsed).
PhysicalOpen(c) ==
  /\ task[c].pc = "opening"
  /\ \E here \in {"opened", "abandon"} : task' = [task EXCEPT ![c].pc = here]
  /\ UNCHANGED <<managerVars, opening, nmSinks, nonNm, lifeVars, threadVars, relayVars, envVars>>

ReservationHeld(c) ==
  LET r == opening[task[c].device]
  IN  r # None /\ r.token = task[c].token
ReservationCurrent(c) ==
  LET r == opening[task[c].device]
  IN  r # None /\ r.token = task[c].token /\ ~r.invalidated

\* First check; past it the reader thread (at its gate) and the I/O worker are
\* spawned for a local Entry nobody else can see.
CheckReservation(c, l) ==
  LET d == task[c].device
      build == ReservationCurrent(c) /\ devices[d] = None
  IN  /\ task[c].pc = "opened"
      /\ phase[l] = "free"
      /\ IF ReservationCurrent(c) /\ ~build
         THEN UNCHANGED <<devices, nmSinks>> /\ RegisterSession(c, d, task[c].token)
         ELSE UNCHANGED <<managerVars, nmSinks>>
      /\ IF build
         THEN /\ phase' = [phase EXCEPT ![l] = "local"]
              /\ lifeDev' = [lifeDev EXCEPT ![l] = d]
              /\ reader' = [reader EXCEPT ![l].at = "gated"]
              /\ io' = [io EXCEPT ![l] = "running"]
              /\ task' = [task EXCEPT ![c].pc = "built", ![c].life = l]
         ELSE /\ task' = [task EXCEPT ![c].pc = "abandon"]
              /\ UNCHANGED <<phase, lifeDev, threadVars>>
      /\ UNCHANGED <<opening, nonNm, gate, published, relayVars, envVars>>

\* Second check: publish the Entry and register the session in one critical
\* section, or give the local Entry up.
Publish(c) ==
  LET d == task[c].device
      l == task[c].life
      current == ReservationCurrent(c)
      install == current /\ devices[d] = None
  IN  /\ task[c].pc = "built"
      /\ UNCHANGED nmSinks
      /\ devices' = IF install THEN [devices EXCEPT ![d] = l] ELSE devices
      /\ phase' = [phase EXCEPT ![l] = IF install THEN "installed" ELSE "detached"]
      /\ published' = IF install THEN published \cup {l} ELSE published
      /\ IF current THEN RegisterSession(c, d, task[c].token)
         ELSE UNCHANGED <<sessions, authHashes, nmHot, transportValidity, validCaps>>
      /\ task' = IF install THEN [task EXCEPT ![c].pc = "release"]
                 ELSE Continue(task, c, l, "abandon")
      /\ UNCHANGED <<opening, nonNm, lifeDev, gate, threadVars, relayVars, envVars>>

\* release_reader_start, after the lock is dropped.
ReleaseReader(c) ==
  /\ task[c].pc = "release"
  /\ gate' = gate \cup {task[c].life}
  /\ task' = [task EXCEPT ![c].pc = "abandon"]
  /\ UNCHANGED <<managerVars, opening, nmSinks, nonNm, phase, lifeDev, published, threadVars,
                 relayVars, envVars>>

EndReservationLeaked(c) ==
  /\ task[c].pc = "abandon"
  /\ task' = [task EXCEPT ![c].pc = "notify"]
  /\ UNCHANGED <<managerVars, opening, nmSinks, nonNm, lifeVars, threadVars, relayVars, envVars>>

\* Whatever came of it, the open takes its own reservation out ...
EndReservation(c) ==
  LET d == task[c].device
      mine == opening[d] # None /\ opening[d].token = task[c].token
  IN  /\ task[c].pc = "abandon"
      /\ opening' = IF mine THEN [opening EXCEPT ![d] = None] ELSE opening
      /\ task' = [task EXCEPT ![c] = IF mine THEN [@ EXCEPT !.pc = "notify"] ELSE At("idle")]
      /\ UNCHANGED <<managerVars, nmSinks, nonNm, lifeVars, threadVars, relayVars, envVars>>

NotifyNobody(c) ==
  /\ task[c].pc = "notify"
  /\ task' = [task EXCEPT ![c] = At("idle")]
  /\ UNCHANGED <<managerVars, opening, nmSinks, nonNm, lifeVars, threadVars, relayVars, envVars>>

\* ... and wakes its waiters outside the lock.
NotifyWaiters(c) ==
  /\ task[c].pc = "notify"
  /\ task' = [Woken(task, task[c].token) EXCEPT ![c] = At("idle")]
  /\ UNCHANGED <<managerVars, opening, nmSinks, nonNm, lifeVars, threadVars, relayVars, envVars>>

\* stop_entry by a request task: signal, then join both threads.
StopEntry(c) ==
  /\ task[c].pc = "stop"
  /\ SignalStop(task[c].life)
  /\ task' = [task EXCEPT ![c].pc = "join"]
  /\ UNCHANGED <<managerVars, opening, nmSinks, nonNm, threadVars, relayVars, envVars>>

JoinEntry(c) ==
  /\ task[c].pc = "join"
  /\ Exited(task[c].life)
  /\ task' = [task EXCEPT ![c].pc = task[c].resume, ![c].life = None, ![c].resume = "idle"]
  /\ UNCHANGED <<managerVars, opening, nmSinks, nonNm, lifeVars, threadVars, relayVars, envVars>>
-----------------------------------------------------------------------------
(* close, close_all_for_client, set_dataplane_mode *)

\* The critical section of close for a session of client c.  Requests the
\* daemon refuses or answers without effect (unknown token, wrong device,
\* another client's token) change nothing and are stuttering steps.
CloseSession(c, t, tasks, here) ==
  LET d == sessions[t].device
      last == SessionsOf(d) = {t}
  IN  /\ Live(t)
      /\ sessions[t].owner = c
      /\ DropSessions({t})
      /\ Recount(t, "nm")
      /\ UNCHANGED nmSinks
      /\ IF last THEN RemoveEntry(d)
         ELSE UNCHANGED <<devices, lifeVars>> /\ RefreshNmHot(c, d)
      /\ task' = Continue(tasks, c, IF last THEN devices[d] ELSE None, here)

Close(c, t) ==
  /\ task[c].pc = "idle"
  /\ CloseSession(c, t, task, "idle")
  /\ UNCHANGED <<opening, threadVars, relayVars, envVars>>

SetDataplaneMode(c, t, mode) ==
  /\ task[c].pc = "idle"
  /\ Live(t)
  /\ sessions[t].owner = c
  /\ sessions' = [sessions EXCEPT ![t].mode = mode]
  /\ InvalidateTransport({t})
  /\ Recount(t, mode)
  /\ UNCHANGED <<authHashes, devices, nmSinks>>
  /\ RefreshNmHot(c, sessions[t].device)
  /\ UNCHANGED <<opening, lifeVars, threadVars, task, relayVars, envVars>>

\* The stream ended: the relay is aborted at its next await, so an event it has
\* already taken is still handled; the sink is unregistered with every binding
\* of the client.
Disconnect(c) ==
  /\ task[c].pc = "idle"
  /\ task' = [task EXCEPT ![c].pc = "snapshot"]
  /\ nmSinks' = nmSinks \ {c}
  /\ nmHot' = [b \in Client \X Device |-> IF b[1] = c THEN None ELSE nmHot[b]]
  /\ \E kept \in IF relay[c].at = "idle" /\ inbox[c] # <<>> THEN {0, 1} ELSE {0} :
        inbox' = [inbox EXCEPT ![c] = SubSeq(@, 1, kept)]
  /\ UNCHANGED <<sessions, authHashes, devices, transportValidity, validCaps, opening, nonNm,
                 lifeVars, threadVars, relay, envVars>>

\* close_all_for_client lists the client's sessions first ...
SnapshotOwned(c) ==
  /\ task[c].pc = "snapshot"
  /\ task' = [task EXCEPT ![c].pc = "draining", ![c].owned = Owned(c)]
  /\ UNCHANGED <<managerVars, opening, nmSinks, nonNm, lifeVars, threadVars, relayVars, envVars>>

\* ... then closes them one by one; one that is gone by then is skipped.
DrainOne(c, t) ==
  LET listed == [task EXCEPT ![c].owned = @ \ {t}]
  IN  /\ task[c].pc = "draining"
      /\ t \in task[c].owned
      /\ \/ CloseSession(c, t, listed, "draining")
         \/ /\ ~Live(t)
            /\ task' = listed
            /\ UNCHANGED <<managerVars, nmSinks, nonNm, lifeVars>>
      /\ UNCHANGED <<opening, threadVars, relayVars, envVars>>

LeaveEarly(c) ==
  /\ task[c].pc = "draining"
  /\ task' = [task EXCEPT ![c] = At("gone")]
  /\ UNCHANGED <<managerVars, opening, nmSinks, nonNm, lifeVars, threadVars, relayVars, envVars>>
Leave(c) ==
  /\ task[c].pc = "draining"
  /\ task[c].owned = {}
  /\ task' = [task EXCEPT ![c] = At("gone")]
  /\ UNCHANGED <<managerVars, opening, nmSinks, nonNm, lifeVars, threadVars, relayVars, envVars>>
-----------------------------------------------------------------------------
(* DeviceDisconnected: the bus, the relays, force_close *)

\* The hotplug monitor announces the removal of d.
HotplugRemove(d) ==
  /\ removals < MaxRemovals
  /\ removals' = removals + 1
  /\ Broadcast([device |-> d, cause |-> None])
  /\ UNCHANGED <<managerVars, opening, nmSinks, nonNm, lifeVars, threadVars, task, relay,
                 conns, usedTokens>>

\* RecvError::Lagged: input reports share the bus and push an event out.
RelayLagged(c) ==
  /\ inbox[c] # <<>>
  /\ inbox' = [inbox EXCEPT ![c] = Tail(@)]
  /\ UNCHANGED <<managerVars, opening, nmSinks, nonNm, lifeVars, threadVars, task, relay,
                 envVars>>

\* Every session of d dies with its authority and the Entry leaves the map:
\* the critical section that force_close and detach_dead_reader_lifetime share.
DetachLifetime(d) ==
  /\ DropSessions(SessionsOf(d))
  /\ RemoveEntry(d)

\* relay_client_event takes DeviceDisconnected: critical section of force_close.
ForceClose(c) ==
  LET e == Head(inbox[c])
      d == e.device
  IN  /\ relay[c].at = "idle"
      /\ inbox[c] # <<>>
      /\ inbox' = [inbox EXCEPT ![c] = Tail(@)]
      /\ IF opening[d] = None
         THEN UNCHANGED <<opening, task>>
         ELSE /\ opening' = [opening EXCEPT ![d].invalidated = TRUE]
              /\ task' = Woken(task, opening[d].token)
      /\ DetachLifetime(d)
      /\ relay' = [relay EXCEPT ![c] = [at |-> "unlocked", life |-> devices[d],
                                        cause |-> e.cause, owed |-> NonNmOf(SessionsOf(d))]]
      /\ UNCHANGED <<nmSinks, nonNm, threadVars, envVars>>

ForceCloseStopUncounted(c) ==
  /\ relay[c].at = "unlocked"
  /\ IF relay[c].life = None
     THEN /\ relay' = [relay EXCEPT ![c] = Resting]
          /\ UNCHANGED lifeVars
     ELSE /\ relay' = [relay EXCEPT ![c].at = "join", ![c].owed = {}]
          /\ SignalStop(relay[c].life)
  /\ UNCHANGED <<managerVars, opening, nmSinks, nonNm, threadVars, task, inbox, envVars>>

\* Outside the lock: the counter is corrected and stop_entry signals.
ForceCloseStop(c) ==
  /\ relay[c].at = "unlocked"
  /\ nonNm' = nonNm - Cardinality(relay[c].owed)
  /\ IF relay[c].life = None
     THEN /\ relay' = [relay EXCEPT ![c] = Resting]
          /\ UNCHANGED lifeVars
     ELSE /\ relay' = [relay EXCEPT ![c].at = "join", ![c].owed = {}]
          /\ SignalStop(relay[c].life)
  /\ UNCHANGED <<managerVars, opening, nmSinks, threadVars, task, inbox, envVars>>

ForceCloseJoin(c) ==
  /\ relay[c].at = "join"
  /\ Exited(relay[c].life)
  /\ relay' = [relay EXCEPT ![c] = Resting]
  /\ UNCHANGED <<managerVars, opening, nmSinks, nonNm, lifeVars, threadVars, task, inbox, envVars>>
-----------------------------------------------------------------------------
(* The threads of a physical lifetime *)

ReaderPassesUnstopped(l) ==
  /\ reader[l].at = "gated"
  /\ l \in gate
  /\ reader' = [reader EXCEPT ![l].at = "reading"]
  /\ UNCHANGED <<managerVars, opening, nmSinks, nonNm, lifeVars, io, task, relayVars, envVars>>

\* The reader passes its gate, and between reads sees the stop flag.
ReaderPasses(l) ==
  /\ reader[l].at = "gated"
  /\ l \in gate
  /\ reader' = [reader EXCEPT ![l].at = IF phase[l] = "stopping" THEN "exited" ELSE "reading"]
  /\ UNCHANGED <<managerVars, opening, nmSinks, nonNm, lifeVars, io, task, relayVars, envVars>>

ReaderStops(l) ==
  /\ reader[l].at = "reading"
  /\ phase[l] = "stopping"
  /\ reader' = [reader EXCEPT ![l].at = "exited"]
  /\ UNCHANGED <<managerVars, opening, nmSinks, nonNm, lifeVars, io, task, relayVars, envVars>>

\* A read fails for another reason than its timeout.
ReaderFails(l) ==
  /\ reader[l].at = "reading"
  /\ reader' = [reader EXCEPT ![l].at = "failing"]
  /\ UNCHANGED <<managerVars, opening, nmSinks, nonNm, lifeVars, io, task, relayVars, envVars>>

\* detach_dead_reader_lifetime: what is published under the device id is
\* detached, whichever lifetime that is.
ReaderDetaches(l) ==
  LET d == lifeDev[l]
  IN  /\ reader[l].at = "failing"
      /\ IF devices[d] = None
         THEN /\ reader' = [reader EXCEPT ![l].at = "exited"]
              /\ UNCHANGED <<managerVars, lifeVars>>
         ELSE /\ reader' = [reader EXCEPT ![l] = [at |-> "detached", victim |-> devices[d],
                                                 owed |-> NonNmOf(SessionsOf(d))]]
              /\ DetachLifetime(d)
      /\ UNCHANGED <<opening, nmSinks, nonNm, io, task, relayVars, envVars>>

\* stop_entry_io_worker signals the detached Entry ...
ReaderStopsIo(l) ==
  /\ reader[l].at = "detached"
  /\ SignalStop(reader[l].victim)
  /\ reader' = [reader EXCEPT ![l].at = "joining"]
  /\ UNCHANGED <<managerVars, opening, nmSinks, nonNm, io, task, relayVars, envVars>>

\* ... and after its I/O worker is joined the counter is corrected and the
\* disconnect is announced.
ReaderAnnounces(l) ==
  /\ reader[l].at = "joining"
  /\ io[reader[l].victim] = "exited"
  /\ nonNm' = nonNm - Cardinality(reader[l].owed)
  /\ Broadcast([device |-> lifeDev[l], cause |-> l])
  /\ reader' = [reader EXCEPT ![l] = [at |-> "exited", victim |-> None, owed |-> {}]]
  /\ UNCHANGED <<managerVars, opening, nmSinks, lifeVars, io, task, relay, envVars>>

\* The worker takes Shutdown from its queue.
IoWorkerExits(l) ==
  /\ io[l] = "running"
  /\ phase[l] = "stopping"
  /\ io' = [io EXCEPT ![l] = "exited"]
  /\ UNCHANGED <<managerVars, opening, nmSinks, nonNm, lifeVars, reader, task, relayVars, envVars>>
-----------------------------------------------------------------------------
(* WS/WT connection tasks (websocket.rs, webtransport.rs) *)

GenOf(t, kind) == IF kind = "ws" THEN sessions[t].wsGen ELSE sessions[t].wtGen

\* get_device_by_ws_auth finds the hash and ws_connect / wt_connect the
\* session; when it died in between the connection is refused and nothing changes.
TransportConnect(t, kind) ==
  LET number == sessions[t].wsGen + sessions[t].wtGen + 1
      stepped == [sessions[t] EXCEPT !.mode = kind,
                                     !.wsGen = @ + (IF kind = "ws" THEN 1 ELSE 0),
                                     !.wtGen = @ + (IF kind = "wt" THEN 1 ELSE 0)]
  IN  /\ t \in authHashes
      /\ Live(t)
      /\ number <= MaxConnects
      /\ sessions' = [sessions EXCEPT ![t] = stepped]
      /\ transportValidity' = [transportValidity EXCEPT ![t] = number]
      /\ validCaps' = (validCaps \ CapOf(t)) \cup {<<t, number>>}
      /\ conns' = conns \cup {[token |-> t, kind |-> kind, gen |-> GenOf(t, kind) + 1,
                               cap |-> number]}
      /\ Recount(t, kind)
      /\ UNCHANGED <<authHashes, devices, nmSinks>>
      /\ RefreshNmHot(sessions[t].owner, sessions[t].device)
      /\ UNCHANGED <<opening, lifeVars, threadVars, task, relayVars, usedTokens, removals>>

\* The connection ends (closed, cancelled or revoked) and reports it with
\* ws_disconnect / wt_disconnect: a stale report leaves the session alone.
GenerationCurrent(k) ==
  /\ Live(k.token)
  /\ sessions[k.token].mode = k.kind
  /\ GenOf(k.token, k.kind) = k.gen
ConnectionCurrent(k) == GenerationCurrent(k) /\ transportValidity[k.token] = k.cap

TransportDisconnect(k) ==
  LET t == k.token
      current == ConnectionCurrent(k)
  IN  /\ conns' = conns \ {k}
      /\ IF current
         THEN /\ sessions' = [sessions EXCEPT ![t].mode = "nm"]
              /\ InvalidateTransport({t})
              /\ Recount(t, "nm")
              /\ UNCHANGED <<authHashes, devices, nmSinks>>
              /\ RefreshNmHot(sessions[t].owner, sessions[t].device)
         ELSE UNCHANGED <<managerVars, nmSinks, nonNm>>
      /\ UNCHANGED <<opening, lifeVars, threadVars, task, relayVars, usedTokens, removals>>
-----------------------------------------------------------------------------
RequestStep(c) ==
  \/ Reserve(c) \/ Wake(c) \/ PhysicalOpen(c) \/ Publish(c) \/ ReleaseReader(c)
  \/ EndReservation(c) \/ NotifyWaiters(c) \/ StopEntry(c) \/ JoinEntry(c)
  \/ SnapshotOwned(c) \/ Leave(c)
  \/ \E l \in Life : CheckReservation(c, l)
  \/ \E t \in Token : DrainOne(c, t)

RelayStep(c) == ForceClose(c) \/ ForceCloseStop(c) \/ ForceCloseJoin(c)

ReaderStep(l) ==
  ReaderPasses(l) \/ ReaderStops(l) \/ ReaderDetaches(l) \/ ReaderStopsIo(l) \/ ReaderAnnounces(l)

\* What the daemon's peers, the devices and the network do.
Environment ==
  \/ \E c \in Client : Connect(c) \/ Disconnect(c) \/ RelayLagged(c)
  \/ \E c \in Client, d \in Device, t \in Token : Open(c, d, t)
  \/ \E c \in Client, t \in Token : Close(c, t)
  \/ \E c \in Client, t \in Token, mode \in Mode : SetDataplaneMode(c, t, mode)
  \/ \E d \in Device : HotplugRemove(d)
  \/ \E l \in Life : ReaderFails(l)
  \/ \E t \in Token, kind \in Transport : TransportConnect(t, kind)
  \/ \E k \in conns : TransportDisconnect(k)

Next ==
  \/ Environment
  \/ \E c \in Client : RequestStep(c) \/ RelayStep(c)
  \/ \E l \in Life : ReaderStep(l) \/ IoWorkerExits(l)

Spec == Init /\ [][Next]_vars

\* Tasks are polled by the runtime and threads are scheduled by the OS; a
\* blocking HID open returns.  A relay finishes the force_close it began
\* but may wait for its client's writer before it takes another event.  A reader
\* that was let go may wait in route_nm_input for room in a sink (DeviceIo), so
\* fairness is asked only of readers whose lifetime was never published.  Peers
\* owe the daemon nothing.
Fairness ==
  /\ \A c \in Client : /\ WF_vars(RequestStep(c))
                       /\ WF_vars(ForceCloseStop(c) \/ ForceCloseJoin(c))
  /\ \A l \in Life : WF_vars(l \notin published /\ ReaderStep(l)) /\ WF_vars(IoWorkerExits(l))

FairSpec == Spec /\ Fairness
-----------------------------------------------------------------------------
(* Properties *)

ManagerType ==
  /\ sessions \in [Token -> Session \cup {None}]
  /\ authHashes \in SUBSET Token
  /\ devices \in [Device -> Life \cup {None}]
  /\ nmHot \in [Client \X Device -> Life \cup {None}]
  /\ transportValidity \in [Token -> Nat]
  /\ validCaps \in SUBSET (Token \X Nat)

LifeType ==
  /\ phase \in [Life -> {"free", "local", "installed", "detached", "stopping"}]
  /\ lifeDev \in [Life -> Device \cup {None}]
  /\ gate \in SUBSET Life
  /\ published \in SUBSET Life

Reader == [at : {"none", "gated", "reading", "failing", "detached", "joining", "exited"},
           victim : Life \cup {None}, owed : SUBSET Token]

ThreadType ==
  /\ reader \in [Life -> Reader]
  /\ io \in [Life -> {"none", "running", "exited"}]

Relay == [at : {"idle", "unlocked", "join"}, life : Life \cup {None},
          cause : Life \cup {None}, owed : SUBSET Token]

RelayType ==
  /\ relay \in [Client -> Relay]
  /\ inbox \in [Client -> Seq(Event)]
  /\ \A c \in Client : Len(inbox[c]) <= MaxInbox

EnvType ==
  /\ conns \in SUBSET Conn
  /\ usedTokens \in SUBSET Token
  /\ removals \in Nat

TypeOK ==
  /\ ManagerType /\ LifeType /\ ThreadType /\ RelayType /\ EnvType
  /\ opening \in [Device -> Reservation \cup {None}]
  /\ nmSinks \in SUBSET Client
  /\ nonNm \in Int
  /\ task \in [Client -> Task]

\* A session always stands on a published Entry of its device: no close,
\* force_close or dead reader ever leaves a session behind (device_mgr.rs
\* removes both in one critical section), and its auth hash lives exactly as
\* long as it does ("An auth hash dies with its logical Session").
SessionsStandOnEntry ==
  /\ \A t \in Token : Live(t) => devices[sessions[t].device] # None
  /\ authHashes = {t \in Token : Live(t)}

\* An Entry is published only while some session holds it: no path, not even
\* an invalidated open or a failed one, leaks an open HID handle.
EntryHasSession == \A d \in Device : devices[d] # None => SessionsOf(d) # {}

\* Sessions and Entries come and go together, both ways.
SessionsMatchEntries == SessionsStandOnEntry /\ EntryHasSession

\* Every capability that still passes its validity check is the current one of
\* a live session whose data plane is WS or WT: whatever ends or replaces a
\* transport has revoked it by then.
CapabilityAuthority ==
  /\ \A v \in validCaps : /\ Live(v[1])
                          /\ sessions[v[1]].mode \in Transport
                          /\ transportValidity[v[1]] = v[2]
  /\ \A t \in Token : transportValidity[t] # 0 => <<t, transportValidity[t]>> \in validCaps

\* A WS/WT connection that was replaced, or revoked by a mode change, can end
\* whenever it likes without demoting the session it once served.
RevokedConnectionHarmless ==
  [][\A k \in conns \ conns' : <<k.token, k.cap>> \notin validCaps => sessions' = sessions]_vars

\* A client has an NM binding for a device exactly while it has a registered
\* sink and an active NM session there, and the binding writes to the Entry
\* published now, never to a lifetime that ended.
NmBindingExact ==
  \A c \in Client, d \in Device :
    nmHot[<<c, d>>] = IF /\ c \in nmSinks
                         /\ \E t \in SessionsOf(d) : sessions[t].owner = c /\ sessions[t].mode = "nm"
                      THEN devices[d] ELSE None

\* While an open holds a device's reservation nobody publishes an Entry for it
\* but that open: two opens never both believe they opened the device first.
ReservationExclusive ==
  \A d \in Device : opening[d] # None /\ devices[d] # None =>
    \E c \in Client : /\ task[c].token = opening[d].token
                      /\ task[c].pc \in {"release", "abandon"}
                      /\ task[c].life \in published

\* The tokens whose share of the non_nm_sessions counter is still to be taken
\* off by a relay or a reader that detached their sessions.
Owed == UNION ({relay[c].owed : c \in Client} \cup {reader[l].owed : l \in Life})

\* The counter that turns the input bus on is the number of WS/WT sessions
\* plus the corrections under way: it never underflows, is never short while
\* a WS/WT session is live, and returns to zero.
NonNmCount == nonNm = Cardinality(NonNmOf({t \in Token : Live(t)}) \cup Owed)

\* Who answers for stopping lifetime l.
Responsible(l) ==
  \/ \E c \in Client : task[c].life = l /\ task[c].pc \in {"built", "stop", "join"}
  \/ \E c \in Client : relay[c].life = l
  \/ \E r \in Life : reader[r].victim = l

\* No thread is forgotten: an I/O worker runs, and a reader runs unsignalled,
\* only for a published Entry or one that some task or thread is about to stop.
NoOrphanThread ==
  \A l \in Life :
    \/ phase[l] = "installed" /\ devices[lifeDev[l]] = l
    \/ Responsible(l)
    \/ io[l] \in {"none", "exited"} /\ (reader[l].at \in {"none", "exited"} \/ phase[l] = "stopping")

\* The reader-start gate: a reader touches the HID handle only if its Entry was
\* published; a lifetime rejected by an invalidated open never reads.
GatedReader ==
  \A l \in Life : reader[l].at \in {"reading", "failing", "detached", "joining"} => l \in published

\* No thread outlives its lifetime unwatched, and none reads before its Entry
\* is published.
ThreadsFollowLifetimes == NoOrphanThread /\ GatedReader

\* close_all_for_client leaves nothing of a departed client behind, whatever
\* force_close and dead readers did between its list and its closes.
DepartedOwnsNothing ==
  \A c \in Client : task[c].pc = "gone" => /\ Owned(c) = {}
                                          /\ \A d \in Device : nmHot[<<c, d>>] = None

\* force_close during a physical open: until the opener has withdrawn the
\* invalidated reservation, no Entry of that device is published
\* (ARCHITECTURE.md: "prevent a physical lifetime from being observed or
\* revived during an invalidated open").
InvalidatedOpenPublishesNothing ==
  [][\A d \in Device : opening[d] # None /\ opening[d].invalidated => devices'[d] = None]_vars

\* A step that changes or ends a session either touches no other session or
\* ends all sessions of the device together with its Entry ("closing one
\* session can never affect another session's state").
SessionIsolation ==
  [][\A t \in Token : Live(t) /\ sessions'[t] # sessions[t] =>
       \/ \A u \in Token \ {t} : sessions'[u] = sessions[u]
       \/ /\ devices'[sessions[t].device] = None
          /\ \A u \in Token : sessions'[u] = IF u \in SessionsOf(sessions[t].device)
                                            THEN None ELSE sessions[u]]_vars

\* Every open request is answered: no lost wakeup between the reservation's
\* removal and notify_waiters, no wait on a reservation that never ends.
OpenAnswered ==
  \A c \in Client : task[c].pc = "reserve" ~> task[c].pc = "idle"

\* What the documentation says of a physical lifetime's end, for dead readers:
\* a reader whose device failed takes down its own lifetime and no other.
DeadReaderTakesOwnLifetime ==
  \A l \in Life : reader[l].victim \in {None, l}

\* The same for DeviceDisconnected: the announcement of a dead lifetime never
\* force-closes the lifetime that was opened after it.
DisconnectTakesNoSuccessor ==
  \A c \in Client : relay[c].cause # None => relay[c].life \in {None, relay[c].cause}
=============================================================================
