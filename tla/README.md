# Formal model of WebHID

WebHID gives Firefox the WebHID API: an add-on (JavaScript) talks through a
native-messaging host to a privileged daemon (Rust) that owns the HID devices.
This directory holds the TLA+ model of the program, the TLC configurations that
check it on small instances, and proofs of its main properties checked by the
TLA+ proof system.

## 1. Inventory

Paths are relative to `src/`; the daemon is `crates/webhid-daemon/src`.

### Daemon

| Component | State it keeps | Operations |
|---|---|---|
| **DeviceManager** (`device_mgr.rs`) | under the `lifecycle` mutex: `sessions`, `devices` (one Entry per open device: HID handle, I/O worker, reader thread, stop flag, epoch), `opening` reservations, `ws_auth_hashes`, NM sinks. Beside it: `nm_hot` bindings, `transport_validity`, counter `non_nm_sessions`, the event bus | `open`, `close`, `close_all_for_client`, `set_dataplane_mode`, `ws_connect`/`wt_connect`, `ws_disconnect`/`wt_disconnect`, `force_close`, `detach_dead_reader_lifetime`, report I/O, input routing |
| **IPC client tasks** (`client.rs`) | per accepted stream: serial request loop, relay of bus events, one writer with a queue | accept, dispatch, relay, write with input coalescing, teardown |
| **Hotplug monitor** (`hotplug.rs`) | udev device cache, devnode-to-id map | add, remove, refresh and diff; announces connects and disconnects on the bus |
| **WS data plane** (`websocket.rs`, `batching.rs`) | per connection: grant (generation, capability), batch buffer, rate gate | authenticate, forward input in batches, execute reports, end |
| **WT data plane** (`webtransport.rs`) | certificate generations, live sessions per generation | accept, rotate, drain, end |
| **Report blocking, filters** (`report_blocking.rs`, `blocklist.rs`, `enumeration_filter.rs`) | none (pure) | which reports and devices a page may see |
| **HID access** (`hid.rs`, `descriptor/`, `dump.rs`) | OS handles | enumerate, read, write, parse descriptors |
| **Start-up** (`main.rs`, `security.rs`) | process configuration | bind socket, spawn tasks |

Shared crate `crates/webhid` (protocol, types, packed collections);
`crates/webhid-native-messaging` (stdio-to-socket forwarder with retry);
`crates/webhid-mock` (a test tool).

### Add-on

| Component | State it keeps | Operations |
|---|---|---|
| **Native messaging** (`addon/js/background/nm.js`) | port, `pending` by request id with deadlines, `lateOpenRequests`, reconnect timer and delay | send, answer, time out, late open, host error, retire port, reconnect 1 s to 10 s |
| **Session ownership** (`state_ops.js`, `messages.js`, `content-ports.js`, `state.js`) | `deviceSessions`, `deviceTabMap`, `frameLifetimes`, `frameEndpoints`, `orphanCleanup` | open, close, purge a frame or tab, revoke, retry orphan closes |
| **Grants** (`storage.js`) | allowed devices per origin, persisted | grant, revoke, revive after reconnection |
| **Picker and policies** (`native-picker.js`, `messages.js`) | `pendingPicker`, `permissionsPolicy`, `frameDelegations` | request, choose, cancel, navigate away |
| **CSP and request filters** (`webrequest.js`, `csp.js`) | per-tab storage queues, navigation generations | rewrite headers so that the worker may be spawned |
| **Bridge** (`content/isolated/bridge.js`) | per-device plane with a generation, fan-out to page ports, pending waits | choose plane, wait until ready, fall back to NM, apply a new setting |
| **Data worker** (`content/isolated/worker/index.js`) | transport, `preOpen` queue (1024), `pending` by request id (30 s) | send, answer, close, reconnect |
| **Page polyfill** (`content/main/index.js`) | `HIDDevice` objects: opened flag, session, listeners | `requestDevice`, `open`, `close`, reports |
| **Utilities** (`utils/*.js`) | none, or a settings cache | settings, transports, packed codecs, filters |

### How they interact

A page's `open()` goes page -> bridge -> background -> NM port -> forwarder ->
IPC stream -> request task -> `DeviceManager::open`. The answer carries a session
token; the background records it against tab and frame. Input flows back on one
of three planes per session: NM (bindings written straight by the reader
thread), WebSocket or WebTransport (event bus, then a task per connection).
Disconnects travel on the event bus; each client's relay calls `force_close`
itself and then tells its add-on. Shared state in the daemon is one mutex and a
few atomics and lock-free maps beside it. Shared state in the add-on is module
variables of one thread, so that its races are between `await`s.

### What is hard, and what would be correct

- **DeviceManager**: opens of one device race with each other, with
  `force_close` from any client, with a dying reader, and with closes that stop
  and join threads outside the lock. Correct: a session stands on a published
  Entry, no Entry is left over, authority dies with what it was granted for, one
  session's end never touches another, the counter is exact, every thread is
  stopped by someone, every open is answered.
- **IPC client tasks**: teardown order against events still in flight; a bus
  that loses old events. Correct: a departed client owns nothing.
- **Data planes**: a connection that is replaced ends whenever it likes; batches
  respect order and bounds; certificate rotation keeps serving. Correct: a stale
  connection has no authority and no effect.
- **Hotplug**: two maps updated one after the other. Correct: both agree with
  udev at rest.
- **Native messaging**: answers after the deadline, port loss between request and
  answer. Correct: each request ends once; a session nobody waits for is closed.
- **Session ownership**: storage is awaited between the daemon's answer and the
  registration; the frame, the tab, the grant or the device may be gone by then.
  Correct: every daemon session has an owner or a pending close.
- **Bridge and worker**: generations of planes overlap; waits are replaced; queues
  are bounded. Correct: a failure of an old plane never demotes a new one; each
  send is answered once.
- **Algorithms** (blocking, filters, packed TLVs, worker source parser, settings
  keys): correct against a plain reference definition.

`PROJECT.json` lists every hazard at its line with the properties that cover it,
and says of the rest why none does.

## 2. Modules and plan

| Module | Models | Checked in | Proved in |
|---|---|---|---|
| `DeviceManager` | daemon: sessions, Entries, reservations, transport authority, NM bindings, request tasks, relays, reader and worker threads | `MCDeviceManager` | `DeviceManagerProofs` |
| `DeviceIo` | daemon: commands and input of one device, bounded queues and sinks, the stop of a lifetime | `MCCarriers` | `DeviceIoProofs`, `CarriersProofs` |
| `SessionCustody` | abstract: a session is on its way, held, being closed or ended, never abandoned | `MCBackground` | implemented: the next two |
| `NativeMessaging` | background: the port, its request table and timers; implements `SessionCustody` | `MCBackground` | `BackgroundProofs` |
| `SessionOwnership` | background: owners of sessions, frames, tabs, the grant and its revocation; implements `SessionCustody` | `MCBackground` | `SessionOwnershipProofs` |
| `PickerRequests` | bridge and background: `requestDevice()` in four picker modes | `MCPickers` | `PickersProofs` |
| `NativePicker` | experiment API: the doorhanger controller of a window | `MCPickers` | `PickersProofs` |
| `DeviceLifecycle` | abstract: what a `HIDDevice` promises its page | `MCHidDevice` | `HidDeviceProofs` |
| `HidDevice` | page, bridge and background: open, close, forget, loss, revocation; implements `DeviceLifecycle` | `MCHidDevice` | `HidDeviceProofs` |
| `DataPlane` | bridge and page: data planes of a device with their generations | `MCDataPlane` | |
| `DataWorker` | worker: queues of requests and the WebSocket or WebTransport below | `MCCarriers` | `CarriersProofs` |
| `NmBroker` | bridges of a child and a top frame that share NM data ports | `MCCarriers` | `CarriersProofs` |
| `CspSession` | background: Content-Security-Policies gathered per frame | `MCRequestFilters` | `RequestFiltersProofs` |
| `ScriptFilter` | background: script requests, shadow workers, injected polyfill | `MCRequestFilters` | `RequestFiltersProofs` |
| `Lists` | what `Array.filter` and `Map.delete` leave of a list, for the pickers and the filters | with them | `PickersProofs` |

The composites put several modules under one specification: `MCBackground`,
`MCPickers`, `MCCarriers` and `MCRequestFilters` choose at the start which part a
behaviour is about. The parts of one composite share no state in the code but for
what each models of its surroundings; no interaction between parts is lost by
running them apart, and one run checks them all.

Not reached: `Hotplug` (udev cache and devnode map), `WtGenerations` (certificate
rotation and drain), `Batching` (batch buffer and rate gate), and the pure
algorithms `ReportBlocking` and `WireFormat` against reference definitions.
Proofs not reached: the data plane's invariants.

Modules that are proved about use functions and folds rather than `RECURSIVE`
operators.

## 3. Models and code

### DeviceManager

One step of the model is one critical section of the `lifecycle` mutex, or a
stretch of code outside it. Joins, counter corrections and wake-ups that the
code performs after dropping the lock are steps of their own, and anything can
happen in between.

| Variable | Code |
|---|---|
| `sessions`, `authHashes`, `devices`, `opening`, `nmSinks` | the maps of `LifecycleState` |
| `nmHot` | the binding of (client, device); its value is the lifetime whose handle it writes to |
| `transportValidity`, `validCaps` | the validity map and the `AtomicBool`s it hands out: `validCaps` holds those still true, each named by token and number |
| `nonNm` | `non_nm_sessions` |
| `phase`, `lifeDev`, `gate`, `published` | a physical lifetime (an Entry with its two threads): free, local to its opener, installed, detached, stopping; the reader-start gate |
| `reader`, `io` | the two threads; a dead reader carries the lifetime it detached and what it owes the counter |
| `task` | the request task of a client: the point it has reached in `open`, `close` or the teardown |
| `relay`, `inbox` | the event relay task and its bus receiver |
| `conns` | WS/WT connection tasks with the grant they hold |

An open is `Open`, `Reserve` (join the Entry, wait, or reserve), `PhysicalOpen`
(blocking, may fail), `CheckReservation` (first check; spawns both threads),
`Publish` (second check; install and register, or give up and stop), then
`ReleaseReader`, `EndReservation` and `NotifyWaiters`. A waiter goes on with
`Wake`. Closing is `Close`, and `StopEntry` and `JoinEntry` when the last session
took the Entry with it. A stream's end is `Disconnect`, `SnapshotOwned`, one
`DrainOne` per listed session, `Leave`. A disconnect event is `HotplugRemove` or a
reader's `ReaderAnnounces`, relayed by `ForceClose`, `ForceCloseStop` and
`ForceCloseJoin`; `RelayLagged` loses one. Refused requests (unknown token, wrong
owner or device) change nothing and are stuttering steps.

Details that are easy to get wrong and are kept:

- `Notify::notify_waiters` wakes the futures that exist; `force_close` wakes them
  while the reservation stays, so a waiter may go round the loop and wait again.
- `force_close` and the dead reader remove sessions in the lock but correct the
  counter after it; the dead reader only after it joined an I/O worker. `nonNm`
  therefore runs ahead of the truth in between.
- A relay that is aborted at teardown still finishes the event it already took:
  `Disconnect` keeps nothing of the inbox or exactly its first event.
- Tokens are random and never drawn twice; a reservation's generation is
  named by its open's token.

Abstractions: a HID handle, a path and a report are not represented; a device id
is a model value; auth hashes are the tokens they are computed from; the writer
and its queue are left out, so that a relay may be slow but loses nothing it took.
What a reader does with a report it has read (`route_nm_input`) is in `DeviceIo`
only: here a reader that is published reads, fails or stops, and may take as long
as it likes.

### DeviceIo

`cmds` are the report commands a client's request task (mode NM) or connection
(mode transport) has looked up, `lives` the lifetimes: `queue` of the I/O worker
with what blocks on it, its present HID `call`, the reader and the progress of
`stop_entry`. `auth` numbers the NM bindings and connection capabilities, whose
`valid` flags the code shares by `Arc`; `hot` and `cap` are the maps that name the
current ones. A command is looked up, sent, received (`Receive`), checked
(`Accept`), called (`HidBegins`) and answered in steps of its own, as the worker
does without a lock; between any two of them sessions close, switch planes and
reopen. A command that passed the check is therefore called though its authority
ends meanwhile; `CallsAreAuthorised` says that the check is right when it is made,
that one command of an authority at most is in that window, and that the window is
over when the stop of the lifetime returns. An open is one step here.
Refresh of the binding of a client by a second session of its own is left out: a
client has one session.

### NativeMessaging and SessionOwnership

`NativeMessaging` is `nm.js` line by line: `pending` with the ticks each deadline
has left, one `timer`, `lateOpenRequests`, `handshake` (the shared promise),
`armed` and `delay` of the reconnect timer, and the host behind the port with the
two queues between them. `settled` counts how often each promise was settled.
`SessionOwnership` holds `deviceSessions` (`owner`), `deviceTabMap` (`count`),
`frameLifetimes`, `frameEndpoints` and `orphanCleanup`, the site's grant with the
revocations that walk the sessions, and one queue of requests to the daemon with
its answers and events. The awaits of the handlers are where steps end:
`rereading` is an open between the daemon's answer and the second look at the
grant, `revokes` are loops with their list in hand. Each module sees its own side
of the port. `Custody(t)` maps a session to `SessionCustody`: granted while its
answer is on the way, held by a caller or owner, closing once a close is sent or
kept for a retry, none when the daemon has ended it; `"abandoned"` is a value the
abstract specification never takes.

### PickerRequests and NativePicker

`PickerRequests` has the bridges' handlers with their timer (`waiting`), the
background's `pendingPicker` (`pending`), the inline dialog, picker pages, windows
and the chains that reconcile the page action. A device list is named by the
request whose filters it was made with, so that a choice from another request's
list can be told apart. `NativePicker` is the controller's `#requests`, `#queue`
and `#active`, its pump with the awaited anchor, and the helper's generations.

### HidDevice and DataPlane

`HidDevice` follows `open()`, `close()` and `forget()` from one await to the next,
over the port to the bridge, the bridge's one request at a time to the background
(`control`), and back. The background may refuse a close of a session that lives
(a failed host, a deadline, an error of the daemon: 503, 504, 500), which leaves
session and plane (`refused`) or an orphan that is closed again. A revocation, of a
`forget()` or of the settings page (`revoking`), takes the grant, then goes from
device to device with awaits in between, and may fail half way, with sessions
already gone and no word to the page. `openBy`, `closeBy`, `forgetBy` are the promises that calls
share; `was` is `closingWasOpened`. `Settled` makes promise continuations run
before the next message, as the event loop does. `DataPlane` follows one device:
`page` (what the page has wired), `plane` (the bridge's tables) and `tasks` (its
async functions) with generations as numbers; a `Scenario` bounds how often each
fault may happen, so that one run covers eight mixes of them.

### DataWorker and NmBroker

`DataWorker` numbers the connections of its transport (`conns`, `t.cur` the current
one) and the page's requests: in `preOpen`, in `pending`, answered. Callbacks of
replaced connections still run and are told apart as in the code, by generation
(WebTransport) or identity (WebSocket). `NmBroker` has a child frame's bridge and
the top frame's: pairing after an offer, attach and detach per device with a timer
each, reports through the top's runtime port, and new documents in the child.
`attachNmBroker` asks without looking at what is attached or under way, so several
requests of one device run beside each other; an attachment that comes too late is
taken back by a detach, which names the device and ends whichever attachment the
top frame has (`child.crossed` is the history of the devices to which that
happened; the properties that except it say so).

### CspSession and ScriptFilter

`CspSession` keeps `navs` (requests for documents), `current`
(`cspFrameNavigations`), the tab's storage `queue` and what is stored in `session`;
operations wait their turn and await the storage, which may fail. `ScriptFilter`
keeps hops (a request and its redirects share an id), the `scriptDest` record, the
shadow `arm` of the document and the filter of each response with its data. The arm
is consumed when the response starts and the record goes when the bundle has been
awaited and written, in two steps; a bundle that cannot be loaded leaves the
response open and the record there (`setting.bundle`). A worker of the page with the
document's URL takes an arm like the polyfill's own, and so does a script of it
whose response starts before its headers were seen; a redirect to the same URL is
not followed (`RedirectedToItself`). Spawns are modelled where the injected polyfill
is off and the browser tells destinations: the two kinds of filters share only the
ids of requests, and without `Sec-Fetch-Dest` every script that has the document's
URL is taken for a worker (`webrequest.js:342`). The two modules share no state.

## 4. Runs

| Run | Instance | Shows |
|---|---|---|
| `lifecycle` | `DeviceManager`: 2 clients, 1 device, 3 tokens, 2 lifetimes, 1 removal, inbox of 1, modes NM, WS and WT without connections | types; `SessionsMatchEntries` (a session stands on its Entry, an Entry has a session), bindings, reservation, counter, `ThreadsFollowLifetimes` (no orphan thread, no reader before its Entry) and teardown; an invalidated open publishes nothing; sessions are isolated |
| `transport` | 1 client, 2 tokens, 2 lifetimes, 2 connects per session | capabilities are current; a revoked connection is harmless |
| `open_answered` | 2 clients, 2 tokens, 2 lifetimes, fair | every open is answered |
| `stale_reader`, `stale_disconnect` | 2 clients, 2 tokens, 2 lifetimes, no removals | *violated*: section 5 |
| `stale_detach` | as `carriers`, with 1 document of the child and no reports | *violated*: section 5 |
| `background` | port: 3 requests, 2 ports, deadline of 2 ticks; ownership: a top document and a frame of one tab, 2 documents registered, 2 sessions, 1 revocation, 1 request in flight before new ones are made | `GoneOwnsNothing`, `RevocationHolds`, `RequestsServed`, and both tables implement `SessionCustody` (`EverySessionInCustody`) |
| `pickers` | 3 frames in 2 tabs, 4 modes, 2 requests, 2 pages, 2 documents a frame; doorhangers: 2 keys, 2 entries | `PendingIsLive`, `PickersMatch`, `DoorhangerServes`; `PickersEnd` |
| `hid_device` | 2 devices of a group, 2 objects, 5 calls, 7 scenarios of faults | `Agreement`, `NothingDangles`, `ForgottenForGood`; implements `DeviceLifecycle`; `CallsSettle` |
| `data_plane` | 8 scenarios of settings, switches, failures, refusals, early timers and losses | `SendsAreServed`, `NothingLeft`, `ReadyIsCurrent`, `ReadyUntilSuperseded`; `PageIsServed` |
| `carriers` | worker: 3 connections, 3 requests, `preOpen` of 2; broker: 1 device, 2 documents, 3 requests of the first and 1 of the next, 1 report; daemon: 2 clients, 2 lifetimes, 3 authorities, 2 commands, queue of 1, sink of 1, 6 plans | `RequestsKept`, `BridgesAgree` (children and tops pair together, agree at rest on what is attached unless an end crossed an attachment, and have ports for it), `CallsAreAuthorised`, `StopsAreClean`, `NobodyWaitsForGood`; `CarriersEnd` |
| `request_filters` | policies: 2 frames, 1 origin, 2 navigations, 1 question, 1 failure; scripts: 2 hops, 2 filters, 2 chunks, 2 spawns | `CspInfoRight`, `ScriptsRight`; `ResponsesEnd` |

Why the bounds are enough to be interesting:

- **Daemon.** Two clients give an open that joins, an open that waits, two relays
  that handle one event at different times, and a teardown beside live sessions.
  Two lifetimes give a successor to confuse with its predecessor; three tokens two
  sessions on one Entry and an open beside them. One device suffices because the
  code couples devices only through the tables keyed by it; isolation between
  devices is left to the proof, which holds for any number. An inbox of one makes
  the bus overflow at once, a queue and a sink of one make them full at once.
- **Background.** Three requests are an open, the close of its session and one that
  races both; two ports are the lost one and its successor; a deadline of two ticks
  lets requests be due at different times under one timer. Two documents are one
  and its successor or its sibling. Each ownership behaviour has either two
  sessions under a standing grant or one session under pairing and revocation
  (`InScope`); the proofs have no such bound.
- **Pickers.** Two requests replace, cancel or outlive one another, in one tab or in
  two; each part of `Scope` in `MCPickers` has its own places, modes and pages.
- **Page.** Five calls are an open, a close or forget during it, and a reopen; the
  scenarios mix at most two kinds of faults, which is what the handlers of faults
  can meet at once.
- **Carriers and filters.** Three connections are a current, a replaced and a next
  one; two hops are a request and its redirect; two navigations of two frames
  overlap in one queue.

The liveness runs of the daemon cannot use symmetry; a fixed order in which the
interchangeable tokens and lifetimes are drawn leaves out renamings only.
`CHECK_DEADLOCK FALSE` is set where an instance rests when its bounded inputs are
used up. It is not set for `background`.

**Fairness.** Daemon: `WF` of each client's request task (the runtime polls it, and
`hid open` and thread joins return), of the rest of a `force_close` that began, of
each I/O worker, and of the steps of a reader that was never released (it waits at
its gate for nobody but its opener). A released reader owes nothing: it may wait in
`route_nm_input` for a sink that stays full, so that no run claims that each
detached lifetime ends. A relay need not
take its next event (its client may not read); peers and devices owe nothing.
Add-on: the event loop goes on with what is queued, the browser answers the calls
made to it and timers that are armed fire; a user answers a doorhanger that is on
screen, but need not answer other pickers, whose requests end by their timer. The
worker's current connection comes up or fails, and a connection that is open answers.
Nothing is assumed of `background` and of `DeviceIo`: their properties are safety
(that nobody waits for good in `DeviceIo` is an invariant about what is enabled).

## 5. Findings and observations

Three runs are disagreements with the documents. Two are with
`docs/ARCHITECTURE.md:215`, which says when a physical lifetime ends: when its last
session ends or when a failure of the device force-closes *the* lifetime.

- `stale_reader`: `detach_dead_reader_lifetime` (`device_mgr.rs:467`) removes the
  Entry published under its device id, not its own. A reader whose read fails
  while `close` is about to stop its lifetime takes down the lifetime that was
  opened in the meantime.
- `stale_disconnect`: each client's relay (`client.rs:340`) calls `force_close` by
  device id. The event of a dead lifetime, relayed late by a second client,
  force-closes its successor.

All other properties of the daemon hold in spite of both: the successor is taken
down cleanly.

The third is with `docs/DATA_PATH.md:69`, "broker or attachment loss makes that plane
unavailable":

- `stale_detach`: two attachments of one device may be asked for at once, as when
  the setting changes twice and the second `applyDataPlane` (`bridge.js:4003`) does
  not wait for the first. The one that times out is taken back by an `nmDetach`
  (2250) that names the device, and the top frame ends the other. Since another
  generation has begun by then, `notifyPlaneUnavailable` (1110) says nothing: the
  page keeps the plane and a dead port, and its reports are not answered.

Smaller observations, met while modelling. The properties state what holds and
name these as their exceptions; no run is made of them.

- Daemon: `route_nm_input` (`device_mgr.rs:433`) picks its targets by device id, so
  a late read of a lifetime being closed goes to its successor's binding, and if
  that client's sink stays full the close that joins the reader waits (the exception
  in `NobodyWaitsForGood`). `refresh_nm_hot_locked` (690), run for a second session
  of a client, invalidates commands queued by the first. Responses to WS and WT
  clients are sent with `try_send` and may be dropped (`websocket.rs:159`).
- Background: a failed connect does not advance the delay the way
  `docs/ARCHITECTURE.md:260` says (`nm.js:194` resets it with each port). A close
  and a purge of its frame both count the tab down (`messages.js:830`,
  `state_ops.js:462`), so that a sibling frame's session may go uncounted: the
  count is at most, not exactly, the number of sessions handed out.
- Pickers: the inline dialog and the picker page may show the list of a request
  that was replaced (`GrantPassesFilters` in `PickerRequests` states what
  `docs/ARCHITECTURE.md:123` says; no run claims it), and a page action's popup can
  be left without a picker (`PopupRestored`).
- Page: a close that the background refuses, and a revocation that fails half way,
  leave a session without an opened object, or an opened object without a session,
  until the next close or open (`Agreement` names both). After a loss, an old `open()` may take a later "opening" of its object for
  its own; after a denied or late answer a failed `forget()` may close an object
  that was forgotten meanwhile (the exceptions `DeviceLifecycle` names).
- Data plane: a switch to native messaging while the device's worker is dead leaves
  the object without a plane until the next switch (`Recovers` excepts it).
  `applyDataPlane` (`bridge.js:3899`) does not wait for the one before it. When the
  setting changes again meanwhile, the end of the first despawn closes the ports
  of the second plane (`bridge.js:1293`), and an in-page plane is told to end with
  the number of a later generation (1256), which the page ignores. So
  `NothingLeft`, `ReadyUntilSuperseded`, `Recovers` and the last part of
  `ReadyIsCurrent` are about one change (`OneSwitch`); TLC finds each of them
  violated without it.
- Broker: `nmPlaneUnavailable` carries the top frame's device key
  (`docs/DATA_PATH.md:69`); `nmDetach` closes a data port before its 503s are posted.
- Filters: merging `<meta>` policies drops `trustedTypesNames` and the rewritten
  policy that the response's headers left (`webrequest.js:757-774`); a rejected
  `ensureWorkerBundle` stays cached, and leaves the response open and its record
  behind (`webrequest.js:362`). A redirect of a shadow request to its own URL is not
  treated (1136), though the comment at 345 says that each hop is. A worker of the
  page's with the document's URL takes the arm of the polyfill's (`ArmedSpawnServed`
  excepts it).

## 6. Proofs

Eight modules hold the theorems listed in `PROJECT.json`. They hold for every value
of the constants that the named assumptions admit: any number of clients, devices,
documents, requests, lifetimes and connections, and queues of any capacity, where a
run has two or three. TLC evaluates the assumptions on every run:
`NoneAssumption`, `TransportAssumption`, `TokenAssumption` (the set of tokens is
finite) and `BoundAssumption` of `DeviceManager`; `PlaceAssumption`,
`RevokeAssumption` and `BoundAssumption` of `SessionOwnership`; `PortAssumption` of
`MCBackground`; `EntryAssumption` of `MCPickers`; `ScenarioAssumption` of `HidDevice` (the set
of devices is finite);
`BoundAssumption` of `ScriptFilter`; `PlansAssumption` and `LimitAssumption` of `DeviceIo`;
`BrokerAssumption` of `MCCarriers`. They say that `None` is no other value, that
bounds are numbers, that a child frame has at least one document, and what a plan
consists of.

### DeviceManager

All in `DeviceManagerProofs`.

- **Types** (`TypeCorrect`). `TypeOK` is not inductive: an
  action that uses `task[c].device` needs to know that the field holds a device at
  that stage. `TypeInv` adds which fields of a task, a reader and a relay are filled
  at which stage; one lemma per action shows that it is kept.
- **Sessions.** `SessionInv` is the inductive
  strengthening of four properties. It adds `TokensFresh` (an open's token is not in
  use by a session or another open, else a registration would overwrite a session),
  `OwnersPresent` (what a client that has not come, leaves or has left may still own,
  else a registration could follow the teardown's list), `InvalidatedWithoutEntry`
  (else an invalidated reservation could coexist with an Entry) and `ConnsNumbered`.
  The step is cut in two: `ManagerCases` reduces every step of the system to a
  registration, a close, a detach, a mode change, a transport change, a sink change
  or nothing, for the manager's maps; `TaskCases` reduces it to an open's start, a
  disconnect or a calm step, for the stages of the request tasks. From it follow
  `SessionsAndEntriesMatch`, `CapabilitiesAreCurrent`, `BindingsAreExact`,
  `DepartedClientOwnsNothing` and the action properties
  `InvalidatedOpensPublishNothing`, `RevokedConnectionsAreHarmless` and
  `SessionsAreIsolated`.
- **Lifetimes, reservations, counter.** `LifeInv` gives
  every stage of a lifetime its keeper: what is built is held by the one opener that
  built it, what is published is the Entry's, what was taken is held by the one task,
  relay or reader that stops it, and a gated reader's lifetime is published or being
  stopped. `ThreadsAreWatched` follows. `ReservationsAreExclusive` needs that an
  opener that passed the reservation stays the one recorded there until it is done or
  invalidated. `CounterIsExact` needs that a correction owed by a relay or a dead
  reader is owed once, for a session that is gone.

### The background

- **Owned sessions** (`SessionOwnershipProofs`). `WhatIsGoneOwnsNothing` rests on
  `OwnershipInv`: types of what is on the wire; each session is granted by one reply
  or one open that has yet to register it (`GrantsUnique`), and until then nobody
  owns it, closes it or has it on a list (`GrantsFresh`), so that registering it
  cannot give a closed session an owner; the documents of a closed tab are not active
  (`ClosedTabs`); a tab counts an open only for a session that was handed out
  (`Counting`). `RevocationsHold` adds `OneEach` (a revocation
  waits for one close at a time) and `Revoking` (unless the device was granted anew, a
  revocation under way still has to close, or waits for, every session that has an
  owner); the first alone would let a second answer finish the revocation early.
- **The port** (`BackgroundProofs`). `RequestsAreServed` rests on `PortInv`:
  `RequestsServed` with `Posted`, `Incoming`, `Opened` and `HostStates`, who is
  awaited while a request and its answer are in the queues; at the moment an answer is
  read nothing else tells whether it is awaited.
- **Custody.** `SessionCustody` is the abstract promise that a session the daemon
  holds is never abandoned. `SessionsNeverAbandoned` proves that the table of owners
  implements it, `EverySessionIsInCustody` that the port's table does too: the initial
  states map to initial states, and each step of a session from one custody to another
  is one the abstract specification allows. `Ended` (what the daemon has closed is
  not granted again, by anything that is queued) is what the strengthening adds.

### The carriers and the device

- **Data worker** (`CarriersProofs`: `RequestsAreKept`). `WorkerInv` adds what the
  flags of the transport say about the current connection (`CurrentMatches`: of the
  flags `open`, `writer` and `timer` none is a function of the others while callbacks
  of closed connections still run), that what waits is younger than what was sent and
  in order (`WaitingInOrder`), that nothing is both waiting and in flight
  (`WaitsOnce`), and that nothing waits behind an open transport (`NoneBehind`).
- **The broker** (`CarriersProofs`: `TheBridgesAgree`). That the bridges agree when
  nothing is under way says nothing of the states before; `Attaching` says what holds
  all the time: the last message on its way that speaks of a device says what the
  child wants, and if none does, the top frame has done it (`Said`; `SaidAppend` and
  `SaidTail` keep it when the child sends and the top frame reads). What it says may
  fall short of what the child wants only where the end of a plane crossed an
  attachment (`Serves`), since attachments are asked for beside each other; it needs
  that before pairing nothing but the authentication is sent. `Pairing` says how far
  the current document has come, and that of later documents nothing has; of the
  states of a context only `paired` lets an answer be on its way, which is why a
  timer of the top frame that runs out never leaves a paired child alone.
  `WellServed` is kept by every way in which users of a runtime port come and go
  (`MaybePorts`, `EnsurePorts`, `RemovePorts`, `DestroyPorts`).
- **Commands and threads** (`DeviceIoProofs`). `IoInv` is proved as a whole
  (`IoInvariant`), since its parts hold each other up. `Authority`: a valid authority
  is the one its client has now, on the published lifetime. `Commands`: a command on a
  valid authority goes to the published lifetime, however long ago it was looked up,
  and a connection has one command under way, which is why its end removes at most one
  from a line. `Lines`: what stands before a worker, in its queue or waiting for
  room, was sent to it and stands there once. `Threads`: what a worker, a reader and a
  stop know of each other; the one who joins a lifetime finds the receiver dropped,
  so nothing of it was left. `Numbered`: what is handed out was made, so that a new
  number collides with no copy.
  `AuthorityStep`, `CommandsStep`, `LivesStep` and `ClientStep` keep one part each;
  lines are moved by maps of their indices (`LineMoves`, `LineGrows`).
  From it follow `StopsAreOver` (and with it `StopsStayClean` for the carriers) and
  `ReportsAreAuthorised`: a command passes the check in `Accept` only, on an authority
  that is valid at that moment, and its call begins in `HidBegins` only, on a command
  that passed (`OthersStay`); by `Commands` no other of the same authority is as far.

### The pickers

All in `PickersProofs`, for any number of tabs, frames, documents, requests, pages
and doorhangers.

- **Requests** (`PendingStaysLive`, `PickersAlwaysMatch`). `ReqInv` is one part per
  place that keeps a request: the background's list of pending requests, in which
  each is once and belongs to the document that asked (`PendOK`), what pickers
  answer with (`AnswersOK`), the dialogs in pages and the picker pages (`UisOK`),
  the doorhangers (`NativeOK`) and the page actions (`IconsOK`). A picker page that
  has something to confirm has a request: that is not in the types of its fields.
- **Doorhangers** (`DoorhangerIsServed`). `DoorInv` says, beside what the run
  checks, that a key stands for an entry of its own, the one whose helper waits, and
  that nobody's anchor is looked for while his notification is shown; without the
  latter a second notification could be shown for the same entry.
- `Array.filter` leaves a list in its order. `WithoutIs` proves what `Without`
  computes for every list, by the least length at which it would be wrong
  (`LeastNat`).

### The request filters

All in `RequestFiltersProofs`.

- **Policies** (`CspAnswersAreRight`). `CspInv` follows a navigation through the
  queue of storage operations: which of its operations can still be queued, once
  each, and in which order (`Ops`, `Turns`), whose response an entry is (`Entries`),
  and what exactly the entry of a frame's current response is, by the operations
  still queued (`Complete`). A store that runs after its navigation was replaced is
  undone, since the next navigation still has to clear and store (`LateStore`); after
  the tab was closed nothing survives the purge (`Purged`).
- **Scripts** (`ScriptsAreRight`). `ScriptInv`: the hops of a request are one fetch,
  of one spawn or of the page (`Requests`); the newest hop has the record of its
  request until it ends, and never another's, but for one that was redirected to
  itself and left it (`Records`, `Holds`); what each hop's filter has
  written is a function of how far it came (`AllFiltered`); there is one arm for each
  spawn that may still need it (`Armed`).

### The page's objects

All in `HidDeviceProofs`, for any number of devices, objects, calls and faults.

- **The invariant** (`HidInvariant`). `HidInv` says of every call that is under way
  what it has of its object at each await (`Shape`, `Promises`), of every object that
  is half way which call takes it on (`Under`), of the revocation that a forget
  asked for, that it is the one which runs while that request is not answered
  (`Unpairing`; a revocation goes on in steps, `RevocationGoesOn`, and may end with a
  refusal), and, while no device is lost, that
  the call which opens, closes or forgets an object has it for itself (`Kept`): an
  `open()` finds the object opening, closing or being forgotten, never closed or
  opened by another. A `close()` or `forget()` that still awaits what was under way
  (`On`) knows that nothing else is; when that has settled, the promise is gone. A
  forget whose answer was bad undoes its members one by one, from a list without
  repetitions of the members it holds (`Held`, `InOrder`). `NetTypes` and `OneAnswer`
  type what travels: an unpair is refused only by a denial, a disconnect comes from a
  loss, the answer on its way is that to the request at the head of the queue.
- **What follows.** `Types`; `NoReportIsLeft` (`ReportsHavePort`); `ObjectsRest`, the
  part of `NothingHalfWay` that holds whatever fails; `ForgottenStays`.
- **The refinement** (`Refines`). `HidMoves` reduces every step of the four parties to
  three for the state of objects and calls: `Opening`, `Ending` (an open settles) and
  `Moving` (a set of objects moves from one state to another), and each maps to a step
  of `DeviceLifecycle` or to one that only counts faults. That an open which ends
  finds its own opening needs `Kept`, hence the exception after a loss; that a member
  which a failed forget closes may be forgotten needs `Denied`, hence the other.

### Only model-checked

- Liveness (`OpenAnswered`, `PickersEnd`, `CallsSettle`,
  `PageIsServed`, `CarriersEnd`, `ResponsesEnd`) and `NobodyWaitsForGood`, which speaks
  of `ENABLED`: out of the prover's reach.
- Not proved: the data plane (`SendsAreServed`, `NothingLeft`, `ReadyIsCurrent`,
  `ReadyUntilSuperseded`), and of the page's objects
  that they agree with the sessions when nothing is on its way (`Agreement`) and that
  without a fault none is left closing (the other part of `NothingHalfWay`): both
  need what every queue holds of every device at once.
- No module declares a `RECURSIVE` operator. The library's induction theorems cannot
  be used by the provers; where a recursive function had to be followed for every
  list (`Without`, the chunks a filter passes on), the proof takes the least
  length at which the claim fails and finds a smaller one. What else the proofs use
  of sequences and finite sets is in the library's theorems, and lemmas derive the
  rest from them (`Shortened`, `LineMoves`, `Ranks`, `SaidTail`).

### What the proofs found

- `TypeOK` of `PickerRequests` was too weak to be kept: it let a picker page that is
  being confirmed have no request.
- Two spawns whose shadow requests redirect to one URL share its entry in
  `shadowRedirectTargets` (`RedirectShared`); `ArmedSpawnServed` excludes that case.
  The bounds of the run never reach it.
- A `CASE` of `ScriptFilter` had arms that overlap, and an `EXCEPT` of `CspSession` a
  nested `@`: both meant one thing to TLC and left the provers without a meaning.
  They are written out.

## 7. Not modelled

- **Concurrent, but outside the models**: the hotplug monitor's two maps (the devnode
  map and the device cache are two locks; enumeration reads them) and the rotation of
  WebTransport certificates while sessions drain (clocks and QUIC); the hazard of the
  latter is without a property for that reason. Hazards of the code that the models
  contain and that do happen have a note instead of a property. The batch buffer and the rate gate of the data planes.
- **Algorithms**: report blocking, the enumeration filters and the wire format of
  reports: one caller, no shared state.
- **Left out of what is modelled**: coalescing of input and malformed frames of the
  IPC, framing and peer checks of the forwarder, routing of messages to ports by tab
  and frame, the policy delegation table, validation of page messages, report
  batching in the worker, events and report descriptors of the polyfill, the
  rendering of the pickers and the settings page, the CSP grammar (a policy is what
  it allows).
- **Presentation and system calls**: HID access, descriptor parsing, start-up, logging, the protocol
  crate's (de)serialisation, the mock tool: operating-system calls, byte layouts or
  presentation without state shared between actors.
