----------------------------- MODULE DataWorker -----------------------------
(***************************************************************************)
(* The data worker of one device (addon/js/content/isolated/worker/        *)
(* index.js) and its transport to the daemon, a WebSocket                  *)
(* (utils/websocket.js) or a WebTransport (utils/webtransport.js).         *)
(*                                                                         *)
(* Requests of the page wait in preOpen until the transport is open, and   *)
(* in pending until the daemon answers.  Connections fail at any moment;   *)
(* callbacks of a connection that was replaced still run.                  *)
(***************************************************************************)
EXTENDS Integers, Sequences, FiniteSets

CONSTANTS
  MaxPreOpen,      \* MAX_PREOPEN
  MaxConnections,  \* bound: connections made
  MaxRequests      \* bound: requests of the page

VARIABLES
  conns,     \* state of every connection made, in order
  t,         \* the transport, and whether it is "ws" or "wt"
  worker,    \* the worker's queues, what it said to the bridge, what it sent
  answers    \* replies to each request of the page, in order of the requests

vars == <<conns, t, worker, answers>>

Requests == 1..Len(answers)
Answer(rs) == answers' = [r \in Requests |-> IF r \in rs THEN answers[r] + 1 ELSE answers[r]]
Queued == {worker.pre[n] : n \in 1..Len(worker.pre)}

-----------------------------------------------------------------------------
(* Transport *)

\* isCurrentConnection
IsCurrent(c) == t.cur = c
\* isOpen
IsOpen(tr) == tr.cur # 0 /\ tr.open /\ tr.writer

Nothing(tr) == [tr EXCEPT !.cur = 0, !.open = FALSE, !.writer = FALSE]

\* (wrong variant) no timer is set.
ScheduleReconnectForgotten(tr) == tr

\* scheduleReconnect
ScheduleReconnect(tr) ==
  IF tr.msg /\ ~tr.timer /\ tr.cur = 0 THEN [tr EXCEPT !.timer = TRUE] ELSE tr

\* doConnect: a previous connection is closed.
DoConnect(tr) ==
  /\ Len(conns) < MaxConnections
  /\ conns' = Append([c \in DOMAIN conns |-> IF c = tr.cur THEN "closing" ELSE conns[c]], "connecting")
  /\ t' = [Nothing(tr) EXCEPT !.cur = Len(conns) + 1, !.timer = FALSE, !.auth = 0,
                              !.handled = FALSE, !.failed = FALSE]
  /\ UNCHANGED <<worker, answers>>

-----------------------------------------------------------------------------
(* Worker: what the transport calls *)

\* (wrong variant) what waited is sent again on every connection.
OnReadyAgain ==
  /\ worker' = [worker EXCEPT !.said = "ready",
                              !.pending = @ \cup Queued, !.wire = @ \o worker.pre]
  /\ UNCHANGED answers

\* onReady: what waited is sent, in order.
OnReady ==
  /\ worker' = [worker EXCEPT !.said = "ready", !.pre = <<>>,
                              !.pending = @ \cup Queued, !.wire = @ \o worker.pre]
  /\ UNCHANGED answers

\* onClosed
OnClosed(reconnects) ==
  /\ worker' = [worker EXCEPT !.said = IF reconnects THEN @ ELSE "closed", !.pre = <<>>, !.pending = {}]
  /\ Answer(worker.pending \cup Queued)

\* onAuthFailed: the bridge is told, and replaces the plane.
OnAuthFailed == worker' = [worker EXCEPT !.said = "auth-failed"] /\ UNCHANGED answers

Idle == UNCHANGED <<worker, answers>>
Becomes(c, st) == conns' = [conns EXCEPT ![c] = st]

-----------------------------------------------------------------------------
(* handleControlMessage *)

Connect ==
  /\ ~t.msg /\ conns = <<>>
  /\ DoConnect([t EXCEPT !.msg = TRUE])

\* The reconnect timer
ReconnectTimer ==
  /\ t.timer
  /\ IF t.msg THEN DoConnect(t) ELSE t' = [t EXCEPT !.timer = FALSE] /\ Idle /\ UNCHANGED conns

\* The constructor throws: only the WebTransport says so, and gives up.
ConstructorThrows ==
  /\ t.timer /\ t.msg /\ Len(conns) < MaxConnections
  /\ IF t.kind = "ws" THEN t' = ScheduleReconnect([t EXCEPT !.timer = FALSE]) /\ Idle
     ELSE t' = [Nothing(t) EXCEPT !.timer = FALSE, !.auth = 0, !.handled = TRUE, !.failed = FALSE] /\ OnClosed(FALSE)
  /\ UNCHANGED conns

-----------------------------------------------------------------------------
(* WebSocket *)

\* onopen
SocketOpens(c) ==
  /\ t.kind = "ws" /\ conns[c] = "connecting"
  /\ Becomes(c, "open")
  /\ t' = [t EXCEPT !.open = TRUE, !.writer = TRUE]
  /\ OnReady

\* onclose, with or without one of the codes that mean the token is refused
SocketCloses(c, refused) ==
  /\ t.kind = "ws" /\ conns[c] \in {"connecting", "open"}
  /\ Becomes(c, "closed")
  /\ IF refused THEN t' = [Nothing(t) EXCEPT !.msg = FALSE] /\ OnAuthFailed
     ELSE t' = ScheduleReconnect(Nothing(t)) /\ OnClosed(TRUE)

-----------------------------------------------------------------------------
(* WebTransport *)

\* ready resolves: the stream is asked for, the auth timer started.
Ready(c) ==
  /\ t.kind = "wt" /\ conns[c] = "connecting"
  /\ Becomes(c, "ready")
  /\ t' = IF IsCurrent(c) THEN [t EXCEPT !.open = TRUE, !.auth = c] ELSE t
  /\ Idle

\* ready rejects
ReadyRejected(c) ==
  /\ t.kind = "wt" /\ conns[c] \in {"connecting", "closing"}
  /\ Becomes(c, "closed")
  /\ IF IsCurrent(c) THEN t' = [Nothing(t) EXCEPT !.handled = TRUE, !.auth = 0] /\ OnAuthFailed
     ELSE UNCHANGED t /\ Idle

AuthTimer(c) ==
  /\ t.auth = c /\ c # 0
  /\ t' = [t EXCEPT !.auth = 0]
  /\ UNCHANGED <<conns, worker, answers>>

\* attachStream
StreamAttached(c) ==
  /\ t.kind = "wt" /\ conns[c] = "ready"
  /\ Becomes(c, "open")
  /\ IF IsCurrent(c) THEN t' = [t EXCEPT !.writer = TRUE, !.auth = 0] /\ OnReady
     ELSE UNCHANGED t /\ Idle

\* failTransport: the stream cannot be made, or a write of send fails.
FailTransport(c) ==
  /\ t.kind = "wt" /\ conns[c] \in {"ready", "open", "closing"}
  /\ IF IsCurrent(c) /\ ~t.failed /\ t.msg
     THEN /\ Becomes(c, "closing")
          /\ t' = ScheduleReconnect([Nothing(t) EXCEPT !.failed = TRUE, !.auth = 0, !.handled = TRUE])
          /\ OnClosed(TRUE)
     ELSE UNCHANGED <<conns, t>> /\ Idle

\* handleClosed
HandleClosed(c) ==
  /\ t.kind = "wt" /\ conns[c] \in {"ready", "open", "closing"}
  /\ Becomes(c, "closed")
  /\ LET gone == [Nothing(t) EXCEPT !.handled = TRUE, !.auth = 0]
     IN  IF ~IsCurrent(c) \/ t.handled THEN UNCHANGED t /\ Idle
         ELSE IF ~t.open \/ t.auth # 0 THEN t' = gone /\ OnAuthFailed
         ELSE t' = ScheduleReconnect(gone) /\ OnClosed(TRUE)

-----------------------------------------------------------------------------
(* Requests *)

\* handleDataPortMessage
Request ==
  /\ Len(answers) < MaxRequests
  /\ LET r == Len(answers) + 1
         busy == ~IsOpen(t) /\ Len(worker.pre) >= MaxPreOpen
     IN  /\ answers' = Append(answers, IF busy THEN 1 ELSE 0)
         /\ worker' = IF busy THEN worker
                      ELSE IF ~IsOpen(t) THEN [worker EXCEPT !.pre = Append(@, r)]
                      ELSE [worker EXCEPT !.pending = @ \cup {r}, !.wire = Append(@, r)]
  /\ UNCHANGED <<conns, t>>

\* handleSend, handleReceiveFeature: the transport is open and takes no frame.
SendRefused ==
  /\ t.kind = "ws" /\ IsOpen(t) /\ Len(answers) < MaxRequests
  /\ answers' = Append(answers, 1)
  /\ UNCHANGED <<conns, t, worker>>

\* handleControlResponse, for a frame of the current connection; registerPending's
\* deadline.
Settles(r) ==
  /\ r \in worker.pending
  /\ worker' = [worker EXCEPT !.pending = @ \ {r}]
  /\ Answer({r})
  /\ UNCHANGED <<conns, t>>

-----------------------------------------------------------------------------
Init ==
  /\ conns = <<>>
  /\ \E k \in {"ws", "wt"} : t = [kind |-> k, cur |-> 0, msg |-> FALSE, open |-> FALSE, writer |-> FALSE, timer |-> FALSE, auth |-> 0,
          handled |-> TRUE, failed |-> FALSE]
  /\ worker = [pre |-> <<>>, pending |-> {}, said |-> "nothing", wire |-> <<>>]
  /\ answers = <<>>

\* What a connection that is under way comes to.
Comes(c) == SocketOpens(c) \/ SocketCloses(c, FALSE) \/ Ready(c) \/ ReadyRejected(c)
            \/ StreamAttached(c) \/ FailTransport(c)

Next ==
  \/ Connect \/ ReconnectTimer \/ ConstructorThrows
  \/ \E c \in DOMAIN conns : SocketOpens(c) \/ (\E b \in BOOLEAN : SocketCloses(c, b)) \/ Ready(c)
       \/ ReadyRejected(c) \/ AuthTimer(c) \/ StreamAttached(c) \/ FailTransport(c) \/ HandleClosed(c)
  \/ Request \/ SendRefused \/ (\E r \in Requests : Settles(r))

Spec == Init /\ [][Next]_vars

\* Fair: the daemon answers or a deadline passes, and a connection being made is
\* made or fails.
SomeRequestSettles == \E r \in Requests : Settles(r)
CurrentComes(c) == c \in DOMAIN conns /\ IsCurrent(c) /\ conns[c] # "open" /\ Comes(c)

-----------------------------------------------------------------------------
(* Properties *)

TypeOK ==
  /\ \A c \in DOMAIN conns : conns[c] \in {"connecting", "ready", "open", "closing", "closed"}
  /\ t.cur \in 0..Len(conns) /\ t.auth \in 0..Len(conns)
  /\ worker.pending \subseteq Requests /\ Queued \subseteq Requests
  /\ worker.said \in {"nothing", "ready", "auth-failed", "closed"}
  /\ \A r \in Requests : answers[r] \in {0, 1}

\* A request is waiting, in flight or answered, and answered once.
EachAnsweredOnce ==
  \A r \in Requests : \/ answers[r] = 1 /\ r \notin worker.pending \cup Queued
                      \/ answers[r] = 0 /\ r \in worker.pending \cup Queued

\* The daemon gets the requests in the order the page made them, none twice.
OrderKept == \A m, n \in 1..Len(worker.wire) : m < n => worker.wire[m] < worker.wire[n]

\* Requests in flight are in flight on the connection that is open: none waits
\* for an answer that cannot come, unless the bridge was told to replace the plane.
InFlightOnOpen == worker.pending # {} => IsOpen(t) \/ worker.said = "auth-failed"

\* Connections other than the current one are closed, and a transport without a
\* connection tries again, or the bridge was told that it does not.
OneTransport ==
  /\ \A c \in DOMAIN conns : c # t.cur => conns[c] \in {"closing", "closed"}
  /\ t.cur = 0 /\ conns # <<>> => t.timer \/ worker.said \in {"auth-failed", "closed"}

\* Every request is answered, or the bridge is told that the transport has ended.
RequestsSettle ==
  \A r \in 1..MaxRequests :
    r \in Requests ~> \/ r \in Requests /\ answers[r] = 1
                      \/ worker.said \in {"auth-failed", "closed"}
                      \/ t.timer /\ Len(conns) = MaxConnections
==============================================================================
