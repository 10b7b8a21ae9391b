--------------------------- MODULE NativeMessaging ---------------------------
(***************************************************************************)
(* The background's native messaging port (addon/js/background/nm.js): the *)
(* table of pending requests with one shared deadline timer, opens that    *)
(* are answered after their deadline, loss and replacement of the port,    *)
(* and the reconnect timer.  The background is one thread, so a step is    *)
(* one run of a listener, a timer or a caller.                             *)
(*                                                                         *)
(* The host behind the port (the forwarder and the daemon's stream for it) *)
(* answers requests in order and may die at any time.                      *)
(*                                                                         *)
(* Time is relative: `Tick` brings every deadline one unit nearer, and a   *)
(* timer that is due may still fire late.                                  *)
(***************************************************************************)
EXTENDS Integers, Sequences, FiniteSets

CONSTANTS
  MaxId,     \* bound: requests sent
  MaxPorts,  \* bound: ports connected
  Timeout    \* REQUEST_TIMEOUT_MS, in ticks

Id == 1..MaxId

\* Requests differ in what an answer means: an open carries a session token, a
\* close names one, a handshake is shared; everything else is a call.
Kind == {"open", "close", "handshake", "call"}

Nothing == 0                        \* no port, id or token
NoTimer == -1
Pending == [kind: Kind, left: 0..Timeout]
Delay == {1, 2, 4, 8, 10}           \* reconnectDelay, in seconds

\* A session is named by the id of the open that created it.
Request == [n: Id, kind: Kind, t: Id \cup {Nothing}]
Answer == [n: Id, s: {"ok", "fail"}, t: Id \cup {Nothing}]
HostError == [n |-> Nothing, s |-> "fail", t |-> Nothing]

VARIABLES
  port,              \* number of the connected port, Nothing without one
  ports,             \* ports connected so far
  nextId,            \* next request id
  pending,           \* id -> Pending, for the requests not settled
  lateOpenRequests,  \* ids of opens that timed out
  timer,             \* ticks until requestTimeoutTimer fires
  armed,             \* delay the reconnect timer was set to, Nothing without one
  delay,             \* reconnectDelay
  handshake,         \* handshakePort and the request of handshakePromise
  settled,           \* id -> how often its promise was settled
  held,              \* tokens handed to callers that have not asked to close them
  host,              \* "none", "starting" (forwarder connecting), "up", "dead"
  toHost, fromHost,  \* the port's two queues
  sessions           \* sessions the daemon holds for this stream

callVars == <<pending, lateOpenRequests, timer, settled>>
portVars == <<port, ports, armed, delay, host>>
vars == <<callVars, portVars, nextId, handshake, held, toHost, fromHost, sessions>>

NoHandshake == [port |-> Nothing, n |-> Nothing]

Least(S) == CHOOSE x \in S : \A y \in S : x <= y

\* scheduleRequestTimeout with the table p: the timer for the next deadline.
TimerAfter(p) ==
  IF DOMAIN p = {} THEN NoTimer ELSE Least({p[i].left : i \in DOMAIN p})

\* A request only ever arms a timer that is not armed.
Schedule(p) == IF timer = NoTimer THEN TimerAfter(p) ELSE timer

\* (wrong variant) the timer is stopped with the first answer.
StopIfIdleEarly(p) == NoTimer

\* stopRequestTimeout once nothing is pending.
StopIfIdle(p) == IF DOMAIN p = {} THEN NoTimer ELSE timer

Without(p, ids) == [i \in DOMAIN p \ ids |-> p[i]]

With(p, id, kind) ==
  [i \in DOMAIN p \cup {id} |-> IF i = id THEN [kind |-> kind, left |-> Timeout] ELSE p[i]]

Settle(ids) == settled' = [i \in Id |-> IF i \in ids THEN settled[i] + 1 ELSE settled[i]]

-----------------------------------------------------------------------------
(* Sending *)

\* sendFrame on a live port.  postMessage throws on a port that is dead; until
\* the browser notices, the message is lost.  Building a report's frame throws
\* on malformed data.
SendFrame(kind, t) ==
  LET id == nextId
      more == With(pending, id, kind)
      Posted ==
        /\ host \in {"starting", "up"}
        /\ pending' = more
        /\ timer' = Schedule(more)
        /\ toHost' = Append(toHost, [n |-> id, kind |-> kind, t |-> t])
        /\ UNCHANGED settled
      Vanished ==
        /\ host = "dead"
        /\ pending' = more
        /\ timer' = Schedule(more)
        /\ UNCHANGED <<toHost, settled>>
      Thrown ==
        /\ host = "dead" \/ kind = "call"
        /\ Settle({id})
        /\ timer' = IF DOMAIN pending = {} THEN NoTimer ELSE Schedule(more)
        /\ UNCHANGED <<pending, toHost>>
  IN  /\ id \in Id
      /\ nextId' = id + 1
      /\ Posted \/ Vanished \/ Thrown

Call ==
  /\ port # Nothing
  /\ SendFrame("call", Nothing)
  /\ UNCHANGED <<portVars, lateOpenRequests, handshake, held, fromHost, sessions>>

\* openDevice: the only request whose late answer is watched for.
OpenDevice ==
  /\ port # Nothing
  /\ SendFrame("open", Nothing)
  /\ UNCHANGED <<portVars, lateOpenRequests, handshake, held, fromHost, sessions>>

\* closeDevice by the holder of a session.
CloseDevice(t) ==
  /\ port # Nothing
  /\ t \in held
  /\ SendFrame("close", t)
  /\ held' = held \ {t}
  /\ UNCHANGED <<portVars, lateOpenRequests, handshake, fromHost, sessions>>

\* handshake() returns the promise of the one under way on this port, if any.
\* A promise already rejected forgets itself.
Handshake ==
  /\ port # Nothing
  /\ handshake.port # port
  /\ SendFrame("handshake", Nothing)
  /\ handshake' = IF nextId \in DOMAIN pending' THEN [port |-> port, n |-> nextId]
                                               ELSE NoHandshake
  /\ UNCHANGED <<portVars, lateOpenRequests, held, fromHost, sessions>>

-----------------------------------------------------------------------------
(* The port *)

\* connect() without a port; connectNative may throw.
Connected ==
  /\ ports < MaxPorts
  /\ ports' = ports + 1
  /\ port' = ports + 1
  /\ host' = "starting"
  /\ delay' = 1
  /\ toHost' = <<>> /\ fromHost' = <<>> /\ sessions' = {}

\* scheduleReconnect, given what is armed already and the delay to use.
ScheduleReconnect(was, d) ==
  IF was # Nothing
  THEN armed' = was /\ delay' = d
  ELSE armed' = d /\ delay' = IF 2 * d > 10 THEN 10 ELSE 2 * d

ConnectFailed(was, d) ==
  /\ ScheduleReconnect(was, d)
  /\ port' = Nothing
  /\ host' = "none"
  /\ toHost' = <<>> /\ fromHost' = <<>> /\ sessions' = {}
  /\ UNCHANGED ports

\* A request without a port, or the background's start, connects.
ConnectOnDemand ==
  /\ port = Nothing
  /\ \/ Connected /\ armed' = armed
     \/ ConnectFailed(armed, delay)
  /\ UNCHANGED <<callVars, nextId, handshake, held>>

ReconnectFires ==
  /\ armed # Nothing
  /\ IF port # Nothing
     THEN armed' = Nothing /\ UNCHANGED <<port, ports, delay, host, toHost, fromHost, sessions>>
     ELSE \/ Connected /\ armed' = Nothing
          \/ ConnectFailed(Nothing, delay)
  /\ UNCHANGED <<callVars, nextId, handshake, held>>

\* retirePort: everything that waits on the port is answered with 503.
RetirePort ==
  /\ Settle(DOMAIN pending)
  /\ pending' = <<>>
  /\ timer' = NoTimer
  /\ lateOpenRequests' = {}
  /\ handshake' = NoHandshake
  /\ held' = {}

\* onDisconnect, after the messages that came before it.
Disconnected ==
  /\ port # Nothing /\ host = "dead" /\ fromHost = <<>>
  /\ RetirePort
  /\ port' = Nothing
  /\ host' = "none"
  /\ ScheduleReconnect(armed, delay)
  /\ UNCHANGED <<ports, nextId, toHost, fromHost, sessions>>

\* reconnectWithNewHost: the deployment setting changed.
SwitchHost ==
  /\ IF port # Nothing THEN RetirePort ELSE UNCHANGED <<callVars, handshake, held>>
  /\ \/ Connected /\ armed' = Nothing
     \/ ConnectFailed(Nothing, 1)
  /\ UNCHANGED nextId

-----------------------------------------------------------------------------
(* Messages and deadlines *)

\* tryHostError: the forwarder could not reach the daemon.
HostErrorArrives ==
  /\ fromHost # <<>> /\ Head(fromHost) = HostError
  /\ Settle(DOMAIN pending)
  /\ pending' = <<>>
  /\ timer' = NoTimer
  /\ lateOpenRequests' = {}
  /\ handshake' = NoHandshake
  /\ fromHost' = Tail(fromHost)
  /\ UNCHANGED <<portVars, nextId, held, toHost, sessions>>

\* tryPendingResponse: the promise is resolved; a granted open is the caller's.
AnswerArrives ==
  /\ fromHost # <<>>
  /\ LET a == Head(fromHost)
         rest == Without(pending, {a.n})
     IN  /\ a.n \in DOMAIN pending
         /\ pending' = rest
         /\ timer' = StopIfIdle(rest)
         /\ Settle({a.n})
         /\ handshake' = IF handshake.n = a.n THEN NoHandshake ELSE handshake
         /\ held' = IF a.t # Nothing THEN held \cup {a.t} ELSE held
  /\ fromHost' = Tail(fromHost)
  /\ UNCHANGED <<port, ports, armed, delay, host, nextId, lateOpenRequests, toHost, sessions>>

\* tryLateOpenResponse: a session that nobody waits for is closed at once.
LateOpenArrives ==
  /\ fromHost # <<>>
  /\ LET a == Head(fromHost)
     IN  /\ a.n \notin DOMAIN pending
         /\ a.n \in lateOpenRequests
         /\ lateOpenRequests' = lateOpenRequests \ {a.n}
         /\ IF a.t # Nothing THEN SendFrame("close", a.t)
                             ELSE UNCHANGED <<nextId, pending, timer, settled, toHost>>
  /\ fromHost' = Tail(fromHost)
  /\ UNCHANGED <<port, ports, armed, delay, host, handshake, held, sessions>>

\* Any other answer is logged and dropped.
StrayAnswerArrives ==
  /\ fromHost # <<>>
  /\ Head(fromHost) # HostError
  /\ Head(fromHost).n \notin DOMAIN pending \cup lateOpenRequests
  /\ fromHost' = Tail(fromHost)
  /\ UNCHANGED <<port, ports, armed, delay, host, callVars, nextId, handshake, held,
                 toHost, sessions>>

Expired == {i \in DOMAIN pending : pending[i].left = 0}

LateOpens(ids) == {i \in ids : pending[i].kind = "open"}

TimeoutFires ==
  /\ timer = 0
  /\ pending' = Without(pending, Expired)
  /\ timer' = TimerAfter(Without(pending, Expired))
  /\ Settle(Expired)
  /\ lateOpenRequests' = lateOpenRequests \cup LateOpens(Expired)
  /\ handshake' = IF handshake.n \in Expired THEN NoHandshake ELSE handshake
  /\ UNCHANGED <<portVars, nextId, held, toHost, fromHost, sessions>>

Down(x) == IF x > 0 THEN x - 1 ELSE x

Tick ==
  /\ pending' = [i \in DOMAIN pending |-> [pending[i] EXCEPT !.left = Down(@)]]
  /\ timer' = Down(timer)
  /\ UNCHANGED <<portVars, lateOpenRequests, settled, nextId, handshake, held, toHost,
                 fromHost, sessions>>

-----------------------------------------------------------------------------
(* The host process *)

HostStarts ==
  /\ host = "starting"
  /\ host' = "up"
  /\ UNCHANGED <<callVars, port, ports, armed, delay, nextId, handshake, held,
                 toHost, fromHost, sessions>>

\* One request at a time, in order; an open may fail.
HostAnswers ==
  /\ host = "up" /\ toHost # <<>>
  /\ LET r == Head(toHost)
         Reply(s, t) == fromHost' = Append(fromHost, [n |-> r.n, s |-> s, t |-> t])
     IN  \/ /\ r.kind = "open"
            /\ sessions' = sessions \cup {r.n}
            /\ Reply("ok", r.n)
         \/ r.kind \notin {"close", "handshake"} /\ Reply("fail", Nothing) /\ UNCHANGED sessions
         \/ r.kind # "open" /\ Reply("ok", Nothing) /\ sessions' = sessions \ {r.t}
  /\ toHost' = Tail(toHost)
  /\ UNCHANGED <<callVars, portVars, nextId, handshake, held>>

\* The process ends: the daemon closes the stream's sessions, and what was not
\* written yet is lost.  A forwarder that never reached the daemon says so.
HostDies ==
  /\ host \in {"starting", "up"}
  /\ host' = "dead"
  /\ toHost' = <<>>
  /\ sessions' = {}
  /\ \E k \in 0..Len(fromHost) : fromHost' = SubSeq(fromHost, 1, k)
       \/ (host = "starting" /\ fromHost' = Append(fromHost, HostError))
  /\ UNCHANGED <<callVars, port, ports, armed, delay, nextId, handshake, held>>

-----------------------------------------------------------------------------
Init ==
  /\ port = Nothing /\ ports = 0
  /\ nextId = 1
  /\ pending = <<>> /\ lateOpenRequests = {} /\ timer = NoTimer
  /\ armed = Nothing /\ delay = 1
  /\ handshake = NoHandshake
  /\ settled = [i \in Id |-> 0]
  /\ held = {}
  /\ host = "none" /\ toHost = <<>> /\ fromHost = <<>> /\ sessions = {}

Deliver == HostErrorArrives \/ AnswerArrives \/ LateOpenArrives \/ StrayAnswerArrives

Next ==
  \/ Call
  \/ OpenDevice
  \/ \E t \in Id : CloseDevice(t)
  \/ Handshake
  \/ ConnectOnDemand
  \/ ReconnectFires
  \/ Disconnected
  \/ SwitchHost
  \/ HostErrorArrives
  \/ AnswerArrives
  \/ LateOpenArrives
  \/ StrayAnswerArrives
  \/ TimeoutFires
  \/ Tick
  \/ HostStarts
  \/ HostAnswers
  \/ HostDies

Spec == Init /\ [][Next]_vars

-----------------------------------------------------------------------------
(* Properties *)

\* Types of the port's state (nm.js:38-52).
TypeOK ==
  /\ ports \in 0..MaxPorts /\ port \in {Nothing, ports}
  /\ nextId \in 1..(MaxId + 1)
  /\ DOMAIN pending \subseteq Id /\ \A i \in DOMAIN pending : pending[i] \in Pending
  /\ lateOpenRequests \subseteq Id
  /\ timer \in NoTimer..Timeout
  /\ armed \in Delay \cup {Nothing} /\ delay \in Delay
  /\ handshake \in [port: 0..MaxPorts, n: Id \cup {Nothing}]
  /\ settled \in [Id -> Nat]
  /\ held \subseteq Id
  /\ host \in {"none", "starting", "up", "dead"}
  /\ toHost \in Seq(Request)
  /\ fromHost \in Seq(Answer \cup {HostError})
  /\ sessions \subseteq Id

\* Every request that was sent is in the table until its promise is settled,
\* and it is settled once: by its answer, its deadline, a host error, the loss
\* of the port or a throw, whichever comes first.
SettledOnce ==
  \A i \in Id : settled[i] = IF i >= nextId \/ i \in DOMAIN pending THEN 0 ELSE 1

\* The one shared timer is armed for as long as a request is pending, and never
\* for later than the nearest deadline, though it was armed for another request.
TimerCoversPending ==
  /\ DOMAIN pending # {} <=> timer # NoTimer
  /\ \A i \in DOMAIN pending : timer <= pending[i].left

\* An open the daemon granted is either still waited for or known to be late
\* when its answer comes: no session is opened behind everybody's back.
OpenAnswerAwaited ==
  \A k \in DOMAIN fromHost :
    fromHost[k].t # Nothing => fromHost[k].n \in DOMAIN pending \cup lateOpenRequests

\* A shared handshake is one that will be answered, on the current port
\* (handshake() would otherwise hand out a promise of a dead port).
HandshakeCurrent ==
  handshake # NoHandshake =>
    /\ handshake.port = port
    /\ handshake.n \in DOMAIN pending

\* Once the background has started, a port that is gone is being replaced.
PortIsReplaced == ports > 0 /\ port = Nothing => armed # Nothing

\* The custody of each session (see SessionCustody), read off the queues.
Custody(t) ==
  IF t \notin sessions THEN "none"
  ELSE IF \E k \in DOMAIN fromHost : fromHost[k].t = t THEN "granted"
  ELSE IF t \in held THEN "held"
  ELSE IF \E k \in DOMAIN toHost : toHost[k].kind = "close" /\ toHost[k].t = t THEN "closing"
  ELSE "abandoned"

Sessions == INSTANCE SessionCustody WITH Token <- Id, custody <- [t \in Id |-> Custody(t)]

\* nm.js implements SessionCustody: timeouts, late answers and lost ports never
\* leave the daemon with a session that nobody holds and nobody closes.
SessionsInCustody == Sessions!Spec
===============================================================================
