---------------------------- MODULE CarriersProofs ----------------------------
(***************************************************************************)
(* What the carriers of a page's reports guarantee, for any number of      *)
(* connections, requests, documents, authorities, lifetimes and clients,   *)
(* and queues of any length.                                               *)
(***************************************************************************)
EXTENDS MCCarriers, DeviceIoProofs

-----------------------------------------------------------------------------
(* The data worker *)

\* Types of the worker's variables, beyond W!TypeOK.
ConnectionState == {"connecting", "ready", "open", "closing", "closed"}
Transport ==
  [kind : {"ws", "wt"}, cur : Nat, msg : BOOLEAN, open : BOOLEAN, writer : BOOLEAN,
   timer : BOOLEAN, auth : Nat, handled : BOOLEAN, failed : BOOLEAN]
Saying == {"nothing", "ready", "auth-failed", "closed"}

TransportType ==
  /\ conns \in Seq(ConnectionState)
  /\ t \in Transport /\ t.cur \in 0..Len(conns) /\ t.auth \in 0..Len(conns)
  /\ worker.said \in Saying

\* What the flags say of the current connection, and that a transport which was
\* told to stop stays without one.
CurrentMatches ==
  /\ t.cur = 0 => ~t.open /\ ~t.writer
  /\ t.cur # 0 => /\ t.msg /\ ~t.timer /\ ~t.handled
                  /\ conns[t.cur] \in {"connecting", "ready", "open"}
                  /\ t.kind = "ws" => conns[t.cur] # "ready"
                  /\ t.open <=> conns[t.cur] # "connecting"
                  /\ t.writer <=> conns[t.cur] = "open"
  /\ ~t.msg /\ conns # <<>> => worker.said = "auth-failed"

TransportInv == TransportType /\ CurrentMatches /\ W!OneTransport

QueueType ==
  /\ worker \in [pre : Seq(Nat), pending : SUBSET Nat, said : Saying, wire : Seq(Nat)]
  /\ answers \in Seq({0, 1})
  /\ worker.pending \subseteq W!Requests /\ W!Queued \subseteq W!Requests

\* What waits is younger than what was sent, and in order.
WaitingInOrder ==
  /\ W!OrderKept
  /\ \A m \in DOMAIN worker.wire : worker.wire[m] <= Len(answers)
  /\ \A m, n \in DOMAIN worker.pre : m < n => worker.pre[m] < worker.pre[n]
  /\ \A m \in DOMAIN worker.wire, n \in DOMAIN worker.pre : worker.wire[m] < worker.pre[n]

\* No request waits and is in flight.
WaitsOnce == worker.pending \cap W!Queued = {}

RequestsInv == QueueType /\ W!EachAnsweredOnce /\ WaitingInOrder /\ WaitsOnce

\* Nothing waits behind an open transport.
NoneBehind == W!IsOpen(t) => worker.pre = <<>>

WorkerInv == TransportInv /\ RequestsInv /\ W!InFlightOnOpen /\ NoneBehind
-----------------------------------------------------------------------------
(* The transport *)

\* A fresh transport, and scheduleReconnect, by field.
LEMMA TransportFields ==
  ASSUME NEW tr \in Transport
  PROVE  /\ W!Nothing(tr) \in Transport
         /\ W!Nothing(tr).cur = 0 /\ ~W!Nothing(tr).open /\ ~W!Nothing(tr).writer
         /\ W!Nothing(tr).kind = tr.kind /\ W!Nothing(tr).msg = tr.msg
         /\ W!Nothing(tr).timer = tr.timer /\ W!Nothing(tr).auth = tr.auth
         /\ W!Nothing(tr).handled = tr.handled /\ W!Nothing(tr).failed = tr.failed
BY DEF W!Nothing, Transport

LEMMA ReconnectFields ==
  ASSUME NEW tr \in Transport, tr.cur = 0, ~tr.open, ~tr.writer
  PROVE  LET nt == W!ScheduleReconnect(tr)
         IN  /\ nt \in Transport /\ nt.cur = 0 /\ ~nt.open /\ ~nt.writer
             /\ nt.kind = tr.kind /\ nt.msg = tr.msg /\ nt.auth = tr.auth
             /\ nt.handled = tr.handled /\ nt.failed = tr.failed
             /\ nt.msg => nt.timer
BY DEF W!ScheduleReconnect, Transport

\* What the worker says, by what the transport called.
LEMMA Says ==
  ASSUME QueueType
  PROVE  /\ W!Idle => worker'.said = worker.said
         /\ W!OnReady => worker'.said = "ready"
         /\ W!OnAuthFailed => worker'.said = "auth-failed"
         /\ W!OnClosed(TRUE) => worker'.said = worker.said
         /\ W!OnClosed(FALSE) => worker'.said = "closed"
BY DEF QueueType, W!Idle, W!OnReady, W!OnAuthFailed, W!OnClosed

\* A transport that has lost its connection, or given it up.
LEMMA Disconnects ==
  ASSUME TransportInv, NEW c \in DOMAIN conns, NEW st \in {"closing", "closed"},
         t.cur \in {0, c}, W!Becomes(c, st),
         t' \in Transport, t'.cur = 0, ~t'.open, ~t'.writer, t'.auth \in 0..Len(conns),
         worker'.said \in Saying,
         \/ t'.timer /\ t'.msg
         \/ worker'.said = "auth-failed"
  PROVE  TransportInv'
<1>1. conns' \in Seq(ConnectionState) /\ Len(conns') = Len(conns) /\ DOMAIN conns' = DOMAIN conns
  BY DEF TransportInv, TransportType, W!Becomes, ConnectionState
<1>2. \A d \in DOMAIN conns : conns'[d] = IF d = c THEN st ELSE conns[d]
  BY DEF TransportInv, TransportType, W!Becomes
<1>3. W!OneTransport'
  BY <1>1, <1>2 DEF TransportInv, W!OneTransport
<1>4. CurrentMatches'
  BY <1>1 DEF CurrentMatches
<1> QED
  BY <1>1, <1>3, <1>4 DEF TransportInv, TransportType

\* A connection other than the current one changes from one way of being closed
\* to another.
LEMMA OthersClose ==
  ASSUME TransportInv, NEW c \in DOMAIN conns, c # t.cur, W!Becomes(c, "closed"),
         UNCHANGED t, worker'.said = worker.said
  PROVE  TransportInv'
<1>1. conns' \in Seq(ConnectionState) /\ Len(conns') = Len(conns) /\ DOMAIN conns' = DOMAIN conns
  BY DEF TransportInv, TransportType, W!Becomes, ConnectionState
<1>2. \A d \in DOMAIN conns : conns'[d] = IF d = c THEN "closed" ELSE conns[d]
  BY DEF TransportInv, TransportType, W!Becomes
<1>3. t.cur # 0 => t.cur \in DOMAIN conns
  BY DEF TransportInv, TransportType, Transport
<1>4. conns # <<>> /\ conns' # <<>>
  BY <1>1 DEF TransportInv, TransportType
<1> QED
  BY <1>1, <1>2, <1>3, <1>4 DEF TransportInv, TransportType, CurrentMatches, W!OneTransport

\* The current connection goes on.
LEMMA CurrentGoesOn ==
  ASSUME TransportInv, NEW c \in DOMAIN conns, c = t.cur,
         NEW st \in {"ready", "open"}, W!Becomes(c, st), st = "ready" => t.kind = "wt",
         t' \in Transport, t'.cur = c, t'.kind = t.kind, t'.msg = t.msg, t'.timer = t.timer,
         t'.handled = t.handled, t'.open, t'.writer <=> st = "open", t'.auth \in 0..Len(conns),
         worker'.said \in Saying
  PROVE  TransportInv'
<1>1. conns' \in Seq(ConnectionState) /\ Len(conns') = Len(conns) /\ DOMAIN conns' = DOMAIN conns
  BY DEF TransportInv, TransportType, W!Becomes, ConnectionState
<1>2. \A d \in DOMAIN conns : conns'[d] = IF d = c THEN st ELSE conns[d]
  BY DEF TransportInv, TransportType, W!Becomes
<1>3. c \in Nat /\ c # 0
  BY DEF TransportInv, TransportType
<1> QED
  BY <1>1, <1>2, <1>3 DEF TransportInv, TransportType, CurrentMatches, W!OneTransport

\* doConnect
LEMMA DoConnectStep ==
  ASSUME TransportInv, NEW tr \in Transport, W!DoConnect(tr), tr.msg, tr.kind = t.kind, tr.cur = t.cur
  PROVE  TransportInv'
<1>1. PICK n \in Nat : n = Len(conns)
  BY DEF TransportInv, TransportType
<1>2. DOMAIN conns = 1..n /\ \A d \in 1..n : conns[d] \in ConnectionState
  BY <1>1 DEF TransportInv, TransportType
<1> DEFINE closed == [c \in DOMAIN conns |-> IF c = tr.cur THEN "closing" ELSE conns[c]]
<1>3. closed \in Seq(ConnectionState) /\ Len(closed) = n
  BY <1>2, SeqDef, LenProperties DEF ConnectionState
<1>4. /\ conns' \in Seq(ConnectionState) /\ Len(conns') = n + 1
      /\ \A d \in 1..n : conns'[d] = IF d = tr.cur THEN "closing" ELSE conns[d]
      /\ conns'[n + 1] = "connecting"
  <2> HIDE DEF closed
  <2>1. conns' = Append(closed, "connecting") /\ "connecting" \in ConnectionState
    BY DEF W!DoConnect, closed, ConnectionState
  <2>2. /\ conns' \in Seq(ConnectionState) /\ Len(conns') = n + 1
        /\ \A d \in 1..n : conns'[d] = closed[d]
        /\ conns'[n + 1] = "connecting"
    BY <1>3, <2>1
  <2> QED
    BY <1>2, <2>2 DEF closed
<1>5. /\ t' \in Transport /\ t'.cur = n + 1 /\ ~t'.open /\ ~t'.writer /\ ~t'.timer /\ t'.auth = 0
      /\ ~t'.handled /\ t'.msg /\ worker' = worker
  <2>1. t' = [W!Nothing(tr) EXCEPT !.cur = n + 1, !.timer = FALSE, !.auth = 0,
                                   !.handled = FALSE, !.failed = FALSE]
    BY <1>1 DEF W!DoConnect
  <2>2. /\ W!Nothing(tr) \in Transport /\ W!Nothing(tr).msg
        /\ ~W!Nothing(tr).open /\ ~W!Nothing(tr).writer
    BY TransportFields
  <2> HIDE DEF W!Nothing
  <2>3. n + 1 \in Nat
    OBVIOUS
  <2>4. worker' = worker
    BY DEF W!DoConnect
  <2> DEFINE b == W!Nothing(tr)
  <2> HIDE DEF b
  <2>5. b \in Transport /\ b.msg /\ ~b.open /\ ~b.writer
    BY <2>2 DEF b
  <2>6. t' = [b EXCEPT !.cur = n + 1, !.timer = FALSE, !.auth = 0, !.handled = FALSE, !.failed = FALSE]
    BY <2>1 DEF b
  <2>7. t' \in Transport
    BY <2>3, <2>5, <2>6 DEF Transport
  <2> QED
    BY <2>3, <2>4, <2>5, <2>6, <2>7 DEF Transport
<1>6. DOMAIN conns' = 1..(n + 1) /\ n + 1 # 0
  BY <1>4
<1>7. \A d \in DOMAIN conns' : d # t'.cur => conns'[d] \in {"closing", "closed"}
  BY <1>2, <1>4, <1>5, <1>6 DEF TransportInv, W!OneTransport
<1>8. W!OneTransport'
  BY <1>5, <1>6, <1>7 DEF W!OneTransport
<1>9. CurrentMatches'
  BY <1>4, <1>5, <1>6 DEF CurrentMatches
<1> QED
  BY <1>4, <1>5, <1>6, <1>8, <1>9 DEF TransportInv, TransportType

\* The indices of the connections, and the one that a step may be about.
LEMMA ConnectionNumbers ==
  ASSUME TransportInv
  PROVE  /\ DOMAIN conns = 1..Len(conns) /\ Len(conns) \in Nat
         /\ t.cur # 0 => t.cur \in DOMAIN conns
         /\ 0 \notin DOMAIN conns
         /\ conns = <<>> => t.cur = 0
         /\ DOMAIN conns # {} => conns # <<>>
BY EmptySeq DEF TransportInv, TransportType

LEMMA TransportStep ==
  ASSUME TransportInv, QueueType, W!Next
  PROVE  TransportInv'
<1> USE Says
<1>1. /\ t \in Transport /\ worker.said \in Saying
      /\ "ready" \in Saying /\ "auth-failed" \in Saying /\ "closed" \in Saying
  BY DEF TransportInv, TransportType, Saying
<1>2. /\ W!Nothing(t) \in Transport /\ W!Nothing(t).cur = 0
      /\ ~W!Nothing(t).open /\ ~W!Nothing(t).writer /\ W!Nothing(t).auth = t.auth
      /\ W!Nothing(t).msg = t.msg /\ W!Nothing(t).kind = t.kind
  BY <1>1, TransportFields
<1>3. t.auth \in 0..Len(conns) /\ 0 \in 0..Len(conns)
  BY ConnectionNumbers DEF TransportInv, TransportType
<1>4. CASE W!Connect
  <2>1. [t EXCEPT !.msg = TRUE] \in Transport /\ [t EXCEPT !.msg = TRUE].msg
        /\ [t EXCEPT !.msg = TRUE].kind = t.kind /\ [t EXCEPT !.msg = TRUE].cur = t.cur
    BY <1>1 DEF Transport
  <2> QED
    BY <1>4, <2>1, DoConnectStep DEF W!Connect
<1>5. CASE W!ReconnectTimer
  <2>1. CASE t.msg
    BY <1>1, <1>5, <2>1, DoConnectStep DEF W!ReconnectTimer
  <2>2. CASE ~t.msg
    <3>1. t' = [t EXCEPT !.timer = FALSE] /\ UNCHANGED <<worker, conns>>
      BY <1>5, <2>2 DEF W!ReconnectTimer, W!Idle
    <3>2. /\ t' \in Transport /\ t'.cur = t.cur /\ t'.msg = t.msg /\ t'.open = t.open
          /\ t'.writer = t.writer /\ t'.auth = t.auth /\ ~t'.timer
      BY <1>1, <3>1 DEF Transport
    <3>3. t.cur = 0
      BY <2>2 DEF TransportInv, CurrentMatches
    <3>4. CurrentMatches'
      BY <2>2, <3>1, <3>2, <3>3 DEF TransportInv, CurrentMatches
    <3>5. W!OneTransport'
      BY <2>2, <3>1, <3>2, <3>3 DEF TransportInv, CurrentMatches, W!OneTransport
    <3> QED
      BY <3>1, <3>2, <3>4, <3>5 DEF TransportInv, TransportType
  <2> QED
    BY <2>1, <2>2
<1>6. CASE W!ConstructorThrows
  <2>1. t.cur = 0 /\ t.msg /\ ~t.open /\ ~t.writer /\ UNCHANGED conns
    BY <1>6 DEF TransportInv, CurrentMatches, W!ConstructorThrows
  <2>2. /\ t' \in Transport /\ t'.cur = 0 /\ ~t'.open /\ ~t'.writer /\ t'.msg
        /\ t'.auth \in 0..Len(conns) /\ (t'.timer \/ worker'.said = "closed")
        /\ worker'.said \in Saying
    <3>1. CASE t.kind = "ws"
      <4> DEFINE b == [t EXCEPT !.timer = FALSE]
      <4>1. /\ b \in Transport /\ b.cur = 0 /\ ~b.open /\ ~b.writer /\ b.msg /\ b.auth = t.auth
        BY <1>1, <2>1 DEF Transport
      <4>2. t' = W!ScheduleReconnect(b) /\ W!Idle
        BY <1>6, <3>1 DEF W!ConstructorThrows
      <4> HIDE DEF b
      <4> QED
        BY <1>1, <1>3, <4>1, <4>2, ReconnectFields
    <3>2. CASE t.kind # "ws"
      <4>1. /\ t' = [W!Nothing(t) EXCEPT !.timer = FALSE, !.auth = 0, !.handled = TRUE, !.failed = FALSE]
            /\ W!OnClosed(FALSE)
        BY <1>6, <3>2 DEF W!ConstructorThrows
      <4> DEFINE b == W!Nothing(t)
      <4>2. /\ b \in Transport /\ b.cur = 0 /\ ~b.open /\ ~b.writer /\ b.msg
            /\ t' = [b EXCEPT !.timer = FALSE, !.auth = 0, !.handled = TRUE, !.failed = FALSE]
        BY <1>2, <2>1, <4>1
      <4> HIDE DEF b
      <4>3. t' \in Transport /\ t'.cur = 0 /\ ~t'.open /\ ~t'.writer /\ t'.msg /\ t'.auth = 0
        BY <4>2 DEF Transport
      <4> QED
        BY <1>1, <1>3, <4>1, <4>3
    <3> QED
      BY <3>1, <3>2
  <2>3. CurrentMatches' /\ W!OneTransport'
    BY <2>1, <2>2 DEF TransportInv, CurrentMatches, W!OneTransport
  <2> QED
    BY <2>1, <2>2, <2>3 DEF TransportInv, TransportType
<1>7. ASSUME NEW c \in DOMAIN conns, W!SocketOpens(c) PROVE TransportInv'
  <2>1. /\ c = t.cur /\ t' = [t EXCEPT !.open = TRUE, !.writer = TRUE]
        /\ W!Becomes(c, "open") /\ W!OnReady
    BY <1>7 DEF TransportInv, W!OneTransport, W!SocketOpens
  <2>2. /\ t' \in Transport /\ t'.cur = c /\ t'.kind = t.kind /\ t'.msg = t.msg
        /\ t'.timer = t.timer /\ t'.handled = t.handled /\ t'.open /\ t'.writer /\ t'.auth = t.auth
    BY <1>1, <2>1 DEF Transport
  <2> QED
    BY <1>1, <1>3, <2>1, <2>2, CurrentGoesOn
<1>8. ASSUME NEW c \in DOMAIN conns, NEW b \in BOOLEAN, W!SocketCloses(c, b) PROVE TransportInv'
  <2>1. c = t.cur /\ W!Becomes(c, "closed") /\ t.msg
    BY <1>8, ConnectionNumbers DEF TransportInv, CurrentMatches, W!OneTransport, W!SocketCloses
  <2>2. CASE b
    <3> DEFINE n == W!Nothing(t)
    <3>1. /\ t' = [n EXCEPT !.msg = FALSE] /\ W!OnAuthFailed
      BY <1>8, <2>2 DEF W!SocketCloses
    <3>2. n \in Transport /\ n.cur = 0 /\ ~n.open /\ ~n.writer /\ n.auth = t.auth
      BY <1>2
    <3> HIDE DEF n
    <3>3. t' \in Transport /\ t'.cur = 0 /\ ~t'.open /\ ~t'.writer /\ t'.auth = t.auth
      BY <3>1, <3>2 DEF Transport
    <3> QED
      BY <1>1, <1>3, <2>1, <3>1, <3>3, Disconnects
  <2>3. CASE ~b
    <3>1. t' = W!ScheduleReconnect(W!Nothing(t)) /\ W!OnClosed(TRUE)
      BY <1>8, <2>3 DEF W!SocketCloses
    <3>2. /\ t' \in Transport /\ t'.cur = 0 /\ ~t'.open /\ ~t'.writer /\ t'.auth = t.auth
          /\ t'.msg /\ t'.timer
      BY <1>2, <2>1, <3>1, ReconnectFields
    <3> QED
      BY <1>1, <1>3, <2>1, <3>1, <3>2, Disconnects
  <2> QED
    BY <2>2, <2>3
<1>9. ASSUME NEW c \in DOMAIN conns, W!Ready(c) PROVE TransportInv'
  <2>1. c = t.cur /\ W!Becomes(c, "ready") /\ W!Idle /\ t.kind = "wt" /\ conns[c] = "connecting"
    BY <1>9 DEF TransportInv, W!OneTransport, W!Ready
  <2>2. t' = [t EXCEPT !.open = TRUE, !.auth = c]
    BY <1>9, <2>1 DEF W!Ready, W!IsCurrent
  <2>3. c \in 0..Len(conns) /\ c \in Nat
    BY ConnectionNumbers
  <2>4. ~t.writer
    BY <2>1, ConnectionNumbers DEF TransportInv, CurrentMatches
  <2>5. /\ t' \in Transport /\ t'.cur = c /\ t'.kind = t.kind /\ t'.msg = t.msg
        /\ t'.timer = t.timer /\ t'.handled = t.handled /\ t'.open /\ ~t'.writer /\ t'.auth = c
    BY <1>1, <2>1, <2>2, <2>3, <2>4 DEF Transport
  <2> QED
    BY <1>1, <2>1, <2>3, <2>5, CurrentGoesOn
<1>10. ASSUME NEW c \in DOMAIN conns, W!ReadyRejected(c) PROVE TransportInv'
  <2>1. W!Becomes(c, "closed")
    BY <1>10 DEF W!ReadyRejected
  <2>2. CASE c = t.cur
    <3> DEFINE n == W!Nothing(t)
    <3>1. t' = [n EXCEPT !.handled = TRUE, !.auth = 0] /\ W!OnAuthFailed
      BY <1>10, <2>2 DEF W!ReadyRejected, W!IsCurrent
    <3>2. n \in Transport /\ n.cur = 0 /\ ~n.open /\ ~n.writer
      BY <1>2
    <3> HIDE DEF n
    <3>3. t' \in Transport /\ t'.cur = 0 /\ ~t'.open /\ ~t'.writer /\ t'.auth = 0
      BY <3>1, <3>2 DEF Transport
    <3> QED
      BY <1>1, <1>3, <2>1, <2>2, <3>1, <3>3, Disconnects
  <2>3. CASE c # t.cur
    BY <1>10, <2>1, <2>3, OthersClose DEF W!ReadyRejected, W!IsCurrent
  <2> QED
    BY <2>2, <2>3
<1>11. ASSUME NEW c \in DOMAIN conns, W!AuthTimer(c) PROVE TransportInv'
  <2>1. t' = [t EXCEPT !.auth = 0] /\ UNCHANGED <<conns, worker>>
    BY <1>11 DEF W!AuthTimer
  <2>2. /\ t' \in Transport /\ t'.cur = t.cur /\ t'.msg = t.msg /\ t'.open = t.open
        /\ t'.writer = t.writer /\ t'.timer = t.timer /\ t'.handled = t.handled /\ t'.auth = 0
        /\ t'.kind = t.kind
    BY <1>1, <2>1 DEF Transport
  <2>3. CurrentMatches' /\ W!OneTransport'
    BY <2>1, <2>2 DEF TransportInv, CurrentMatches, W!OneTransport
  <2> QED
    BY <1>3, <2>1, <2>2, <2>3 DEF TransportInv, TransportType
<1>12. ASSUME NEW c \in DOMAIN conns, W!StreamAttached(c) PROVE TransportInv'
  <2>1. c = t.cur /\ W!Becomes(c, "open") /\ conns[c] = "ready"
    BY <1>12 DEF TransportInv, W!OneTransport, W!StreamAttached
  <2>2. t' = [t EXCEPT !.writer = TRUE, !.auth = 0] /\ W!OnReady
    BY <1>12, <2>1 DEF W!StreamAttached, W!IsCurrent
  <2>3. t.open
    BY <2>1, ConnectionNumbers DEF TransportInv, CurrentMatches
  <2>4. /\ t' \in Transport /\ t'.cur = c /\ t'.kind = t.kind /\ t'.msg = t.msg
        /\ t'.timer = t.timer /\ t'.handled = t.handled /\ t'.open /\ t'.writer /\ t'.auth = 0
    BY <1>1, <2>1, <2>2, <2>3 DEF Transport
  <2> QED
    BY <1>1, <1>3, <2>1, <2>2, <2>4, CurrentGoesOn
<1>13. ASSUME NEW c \in DOMAIN conns, W!FailTransport(c) PROVE TransportInv'
  <2>1. CASE c = t.cur /\ ~t.failed /\ t.msg
    <3> DEFINE n == W!Nothing(t)
               gone == [n EXCEPT !.failed = TRUE, !.auth = 0, !.handled = TRUE]
    <3>1. W!Becomes(c, "closing") /\ t' = W!ScheduleReconnect(gone) /\ W!OnClosed(TRUE)
      BY <1>13, <2>1 DEF W!FailTransport, W!IsCurrent
    <3>2. n \in Transport /\ n.cur = 0 /\ ~n.open /\ ~n.writer /\ n.msg
      BY <1>2, <2>1
    <3> HIDE DEF n
    <3>3. gone \in Transport /\ gone.cur = 0 /\ ~gone.open /\ ~gone.writer /\ gone.msg /\ gone.auth = 0
      BY <3>2 DEF Transport
    <3> HIDE DEF gone
    <3>4. t' \in Transport /\ t'.cur = 0 /\ ~t'.open /\ ~t'.writer /\ t'.auth = 0 /\ t'.msg /\ t'.timer
      BY <3>1, <3>3, ReconnectFields
    <3> QED
      BY <1>1, <1>3, <2>1, <3>1, <3>4, Disconnects
  <2>2. CASE ~(c = t.cur /\ ~t.failed /\ t.msg)
    <3>1. UNCHANGED <<conns, t, worker>>
      BY <1>13, <2>2 DEF W!FailTransport, W!IsCurrent, W!Idle
    <3> QED
      BY <3>1 DEF TransportInv, TransportType, CurrentMatches, W!OneTransport
  <2> QED
    BY <2>1, <2>2
<1>14. ASSUME NEW c \in DOMAIN conns, W!HandleClosed(c) PROVE TransportInv'
  <2>1. W!Becomes(c, "closed")
    BY <1>14 DEF W!HandleClosed
  <2>2. CASE c # t.cur
    BY <1>14, <2>1, <2>2, OthersClose DEF W!HandleClosed, W!IsCurrent
  <2>3. CASE c = t.cur
    <3> DEFINE n == W!Nothing(t)
               gone == [n EXCEPT !.handled = TRUE, !.auth = 0]
    <3>1. ~t.handled /\ t.msg
      BY <2>3, ConnectionNumbers DEF TransportInv, CurrentMatches
    <3>2. \/ t' = gone /\ W!OnAuthFailed
          \/ t' = W!ScheduleReconnect(gone) /\ W!OnClosed(TRUE)
      BY <1>14, <2>3, <3>1 DEF W!HandleClosed, W!IsCurrent
    <3>3. n \in Transport /\ n.cur = 0 /\ ~n.open /\ ~n.writer /\ n.msg
      BY <1>2, <3>1
    <3> HIDE DEF n
    <3>4. gone \in Transport /\ gone.cur = 0 /\ ~gone.open /\ ~gone.writer /\ gone.msg /\ gone.auth = 0
      BY <3>3 DEF Transport
    <3> HIDE DEF gone
    <3>5. /\ t' \in Transport /\ t'.cur = 0 /\ ~t'.open /\ ~t'.writer /\ t'.auth = 0
          /\ (t'.timer /\ t'.msg) \/ worker'.said = "auth-failed"
      BY <3>2, <3>4, ReconnectFields
    <3>6. worker'.said \in Saying
      BY <1>1, <3>2
    <3> QED
      BY <1>3, <2>1, <2>3, <3>5, <3>6, Disconnects
  <2> QED
    BY <2>2, <2>3
<1>15. CASE UNCHANGED <<conns, t>> /\ worker'.said = worker.said
  BY <1>15 DEF TransportInv, TransportType, CurrentMatches, W!OneTransport
<1>16. W!Request \/ W!SendRefused \/ (\E r \in W!Requests : W!Settles(r)) =>
         UNCHANGED <<conns, t>> /\ worker'.said = worker.said
  BY DEF QueueType, W!Request, W!SendRefused, W!Settles
<1> QED
  BY <1>4, <1>5, <1>6, <1>7, <1>8, <1>9, <1>10, <1>11, <1>12, <1>13, <1>14, <1>15, <1>16 DEF W!Next

-----------------------------------------------------------------------------
(* The queues of the worker *)

LEMMA Waiting ==
  ASSUME QueueType
  PROVE  /\ W!Queued = {worker.pre[n] : n \in DOMAIN worker.pre}
         /\ W!Requests = DOMAIN answers /\ W!Requests = 1..Len(answers) /\ Len(answers) \in Nat
         /\ \A r \in W!Requests : answers[r] \in {0, 1} /\ r \in Nat
         /\ \A n \in DOMAIN worker.pre : worker.pre[n] \in W!Requests /\ worker.pre[n] \in Nat
         /\ \A n \in DOMAIN worker.wire : worker.wire[n] \in Nat
         /\ DOMAIN worker.wire = 1..Len(worker.wire) /\ Len(worker.wire) \in Nat
         /\ DOMAIN worker.pre = 1..Len(worker.pre) /\ Len(worker.pre) \in Nat
<1>1. worker.pre \in Seq(Nat) /\ worker.wire \in Seq(Nat) /\ answers \in Seq({0, 1})
  BY DEF QueueType
<1> QED
  BY <1>1 DEF QueueType, W!Queued, W!Requests

\* The answers after some requests are answered.
LEMMA AnswersGiven ==
  ASSUME QueueType, NEW rs, W!Answer(rs), W!EachAnsweredOnce, rs \subseteq worker.pending \cup W!Queued
  PROVE  /\ answers' \in Seq({0, 1}) /\ Len(answers') = Len(answers) /\ DOMAIN answers' = W!Requests
         /\ \A r \in W!Requests : answers'[r] = IF r \in rs THEN 1 ELSE answers[r]
<1>1. answers' = [r \in W!Requests |-> IF r \in rs THEN answers[r] + 1 ELSE answers[r]]
  BY DEF W!Answer
<1>2. PICK n \in Nat : W!Requests = 1..n /\ n = Len(answers)
  BY Waiting
<1>3. \A r \in 1..n : answers'[r] = IF r \in rs THEN 1 ELSE answers[r]
  BY <1>1, <1>2 DEF W!EachAnsweredOnce
<1>4. \A r \in 1..n : answers'[r] \in {0, 1}
  BY <1>2, <1>3, Waiting
<1>5. answers' \in [1..n -> {0, 1}]
  BY <1>1, <1>2, <1>4
<1> QED
  BY <1>2, <1>3, <1>5, SeqDef, LenProperties

\* What is not about new requests.
LEMMA SameRequests ==
  ASSUME RequestsInv, worker' \in [pre : Seq(Nat), pending : SUBSET Nat, said : Saying, wire : Seq(Nat)],
         answers' \in Seq({0, 1}), Len(answers') = Len(answers),
         worker'.pending \cup W!Queued' \subseteq W!Requests, WaitsOnce',
         W!EachAnsweredOnce', WaitingInOrder'
  PROVE  RequestsInv'
<1>1. W!Requests' = W!Requests
  BY DEF W!Requests
<1> QED
  BY <1>1 DEF RequestsInv, QueueType

LEMMA RequestsReady ==
  ASSUME RequestsInv, W!OnReady
  PROVE  RequestsInv' /\ worker'.pre = <<>>
<1>1. /\ answers' = answers /\ worker'.pre = <<>> /\ worker'.pending = worker.pending \cup W!Queued
      /\ worker'.said = "ready" /\ worker'.wire = worker.wire \o worker.pre
      /\ worker' = [worker EXCEPT !.said = "ready", !.pre = <<>>,
                                  !.pending = @ \cup W!Queued, !.wire = @ \o worker.pre]
  BY DEF RequestsInv, QueueType, W!OnReady
<1>2. worker.wire \in Seq(Nat) /\ worker.pre \in Seq(Nat)
  BY DEF RequestsInv, QueueType
<1>3. /\ W!Queued \subseteq W!Requests /\ worker.pending \subseteq W!Requests
      /\ W!Requests \subseteq Nat
  BY Waiting DEF RequestsInv, QueueType
<1>4. PICK n \in Nat, m \in Nat : n = Len(worker.wire) /\ m = Len(worker.pre)
  BY <1>2
<1>5. /\ worker'.wire \in Seq(Nat) /\ Len(worker'.wire) = n + m
      /\ DOMAIN worker'.wire = 1..(n + m)
      /\ \A i \in 1..n : worker'.wire[i] = worker.wire[i]
      /\ \A i \in (n + 1)..(n + m) : worker'.wire[i] = worker.pre[i - n]
  <2>1. /\ worker.wire \o worker.pre \in Seq(Nat) /\ Len(worker.wire \o worker.pre) = n + m
        /\ \A i \in 1..(n + m) : (worker.wire \o worker.pre)[i] =
                               IF i <= n THEN worker.wire[i] ELSE worker.pre[i - n]
    BY <1>2, <1>4, ConcatProperties
  <2>2. \A i \in 1..n : i \in 1..(n + m) /\ i <= n
    OBVIOUS
  <2>3. \A i \in (n + 1)..(n + m) : i \in 1..(n + m) /\ ~(i <= n)
    OBVIOUS
  <2>4. worker'.wire = worker.wire \o worker.pre
    BY <1>1
  <2>5. worker'.wire \in Seq(Nat) /\ Len(worker'.wire) = n + m
    BY <2>1, <2>4
  <2>6. DOMAIN worker'.wire = 1..(n + m)
    BY <2>5
  <2> QED
    BY <2>1, <2>2, <2>3, <2>4, <2>5, <2>6
<1>6. worker' \in [pre : Seq(Nat), pending : SUBSET Nat, said : Saying, wire : Seq(Nat)]
  <2>1. worker.pending \cup W!Queued \in SUBSET Nat /\ "ready" \in Saying /\ <<>> \in Seq(Nat)
    BY <1>3, EmptySeq DEF Saying
  <2>2. worker.wire \o worker.pre \in Seq(Nat)
    BY <1>1, <1>5
  <2> QED
    BY <1>1, <2>1, <2>2 DEF RequestsInv, QueueType
<1>7. W!Queued' = {}
  BY <1>1, EmptySeq DEF W!Queued
<1>8. W!EachAnsweredOnce'
  <2>1. W!Requests' = W!Requests
    BY <1>1 DEF W!Requests
  <2> QED
    BY <1>1, <1>7, <2>1 DEF RequestsInv, W!EachAnsweredOnce
<1>9. /\ \A i \in 1..n : worker.wire[i] \in Nat /\ worker.wire[i] <= Len(answers)
      /\ \A i \in 1..m : worker.pre[i] \in Nat /\ worker.pre[i] <= Len(answers)
      /\ \A i, j \in 1..n : i < j => worker.wire[i] < worker.wire[j]
      /\ \A i, j \in 1..m : i < j => worker.pre[i] < worker.pre[j]
      /\ \A i \in 1..n, j \in 1..m : worker.wire[i] < worker.pre[j]
  BY <1>4, Waiting DEF RequestsInv, WaitingInOrder, W!OrderKept
<1>10. \A i, j \in 1..(n + m) : i < j => worker'.wire[i] < worker'.wire[j]
  <2> TAKE i, j \in 1..(n + m)
  <2> HAVE i < j
  <2>1. CASE j <= n
    <3>1. i \in 1..n /\ j \in 1..n
      BY <2>1
    <3> QED
      BY <1>5, <1>9, <3>1
  <2>2. CASE i <= n /\ j > n
    <3>1. i \in 1..n /\ j \in (n + 1)..(n + m) /\ j - n \in 1..m
      BY <2>2
    <3> QED
      BY <1>5, <1>9, <3>1
  <2>3. CASE i > n
    <3>1. /\ i \in (n + 1)..(n + m) /\ j \in (n + 1)..(n + m)
          /\ i - n \in 1..m /\ j - n \in 1..m /\ i - n < j - n
      BY <2>3
    <3> QED
      BY <1>5, <1>9, <3>1
  <2> QED
    BY <2>1, <2>2, <2>3
<1>11. \A i \in 1..(n + m) : worker'.wire[i] <= Len(answers)
  <2> TAKE i \in 1..(n + m)
  <2>1. CASE i <= n
    <3>1. i \in 1..n
      BY <2>1
    <3> QED
      BY <1>5, <1>9, <3>1
  <2>2. CASE i > n
    <3>1. i \in (n + 1)..(n + m) /\ i - n \in 1..m
      BY <2>2
    <3> QED
      BY <1>5, <1>9, <3>1
  <2> QED
    BY <2>1, <2>2
<1>12. WaitingInOrder'
  <2>1. DOMAIN worker'.pre = {}
    BY <1>1, EmptySeq
  <2> QED
    BY <1>1, <1>5, <1>10, <1>11, <2>1 DEF WaitingInOrder, W!OrderKept
<1>13. /\ worker'.pending \cup W!Queued' \subseteq W!Requests /\ answers' \in Seq({0, 1})
       /\ WaitsOnce'
  BY <1>1, <1>3, <1>7 DEF RequestsInv, QueueType, WaitsOnce
<1> QED
  BY <1>1, <1>6, <1>8, <1>12, <1>13, SameRequests

LEMMA RequestsClosed ==
  ASSUME RequestsInv, NEW b \in BOOLEAN, W!OnClosed(b)
  PROVE  RequestsInv' /\ worker'.pre = <<>> /\ worker'.pending = {}
<1>1. /\ worker'.pre = <<>> /\ worker'.pending = {} /\ worker'.wire = worker.wire
      /\ W!Answer(worker.pending \cup W!Queued)
      /\ worker' \in [pre : Seq(Nat), pending : SUBSET Nat, said : Saying, wire : Seq(Nat)]
  BY EmptySeq DEF RequestsInv, QueueType, W!OnClosed, Saying
<1>2. /\ answers' \in Seq({0, 1}) /\ Len(answers') = Len(answers)
      /\ \A r \in W!Requests : answers'[r] = IF r \in worker.pending \cup W!Queued THEN 1 ELSE answers[r]
  BY <1>1, AnswersGiven DEF RequestsInv
<1>3. W!Queued' = {} /\ DOMAIN worker'.pre = {}
  BY <1>1, EmptySeq DEF W!Queued
<1>4. W!EachAnsweredOnce'
  <2>1. W!Requests' = W!Requests
    BY <1>2 DEF W!Requests
  <2> QED
    BY <1>1, <1>2, <1>3, <2>1 DEF RequestsInv, W!EachAnsweredOnce
<1>5. WaitingInOrder'
  BY <1>1, <1>2, <1>3 DEF RequestsInv, WaitingInOrder, W!OrderKept
<1>6. WaitsOnce' /\ worker'.pending \cup W!Queued' \subseteq W!Requests
  BY <1>1, <1>3 DEF WaitsOnce
<1> QED
  BY <1>1, <1>2, <1>4, <1>5, <1>6, SameRequests

\* The queues, the answers and the frames sent are left alone.
LEMMA RequestsStay ==
  ASSUME RequestsInv, worker' \in [pre : Seq(Nat), pending : SUBSET Nat, said : Saying, wire : Seq(Nat)],
         worker'.pre = worker.pre, worker'.pending = worker.pending, worker'.wire = worker.wire,
         answers' = answers
  PROVE  RequestsInv'
<1>1. W!Requests' = W!Requests /\ W!Queued' = W!Queued
  BY DEF W!Requests, W!Queued
<1>2. W!EachAnsweredOnce' /\ WaitingInOrder'
  BY <1>1 DEF RequestsInv, WaitingInOrder, W!OrderKept, W!EachAnsweredOnce
<1>3. WaitsOnce'
  BY <1>1 DEF RequestsInv, WaitsOnce
<1> QED
  BY <1>1, <1>2, <1>3, SameRequests DEF RequestsInv, QueueType

LEMMA RequestsIdle ==
  ASSUME RequestsInv, W!Idle \/ W!OnAuthFailed
  PROVE  RequestsInv' /\ worker'.pre = worker.pre /\ worker'.pending = worker.pending
<1>1. /\ worker' \in [pre : Seq(Nat), pending : SUBSET Nat, said : Saying, wire : Seq(Nat)]
      /\ worker'.pre = worker.pre /\ worker'.pending = worker.pending /\ worker'.wire = worker.wire
      /\ answers' = answers
  BY DEF RequestsInv, QueueType, W!Idle, W!OnAuthFailed, Saying
<1> QED
  BY <1>1, RequestsStay

LEMMA RequestsSettle ==
  ASSUME RequestsInv, NEW r \in W!Requests, W!Settles(r)
  PROVE  RequestsInv' /\ worker'.pre = worker.pre /\ worker'.pending = worker.pending \ {r}
<1>1. /\ r \in worker.pending /\ W!Answer({r})
      /\ worker'.pre = worker.pre /\ worker'.pending = worker.pending \ {r} /\ worker'.wire = worker.wire
      /\ worker' \in [pre : Seq(Nat), pending : SUBSET Nat, said : Saying, wire : Seq(Nat)]
  BY DEF RequestsInv, QueueType, W!Settles
<1>2. /\ answers' \in Seq({0, 1}) /\ Len(answers') = Len(answers)
      /\ \A q \in W!Requests : answers'[q] = IF q \in {r} THEN 1 ELSE answers[q]
  BY <1>1, AnswersGiven DEF RequestsInv
<1>3. W!Queued' = W!Queued /\ W!Requests' = W!Requests
  BY <1>1, <1>2 DEF W!Queued, W!Requests
<1>4. r \notin W!Queued /\ WaitsOnce'
  BY <1>1, <1>3 DEF RequestsInv, WaitsOnce
<1>5. W!EachAnsweredOnce'
  BY <1>1, <1>2, <1>3, <1>4 DEF RequestsInv, W!EachAnsweredOnce
<1>6. WaitingInOrder'
  BY <1>1, <1>2 DEF RequestsInv, WaitingInOrder, W!OrderKept
<1> QED
  BY <1>1, <1>2, <1>3, <1>4, <1>5, <1>6, SameRequests DEF RequestsInv, QueueType

\* An answer is added.
LEMMA Appended ==
  ASSUME QueueType, NEW x \in {0, 1}, answers' = Append(answers, x)
  PROVE  /\ answers' \in Seq({0, 1}) /\ Len(answers') = Len(answers) + 1
         /\ Len(answers) + 1 \notin W!Requests
         /\ W!Requests' = W!Requests \cup {Len(answers) + 1}
         /\ \A r \in W!Requests : answers'[r] = answers[r]
         /\ answers'[Len(answers) + 1] = x
<1>1. PICK n \in Nat : n = Len(answers)
  BY Waiting
<1>2. W!Requests = 1..n
  BY <1>1 DEF W!Requests
<1>3. /\ answers' \in Seq({0, 1}) /\ Len(answers') = n + 1
      /\ \A r \in 1..n : answers'[r] = answers[r]
      /\ answers'[n + 1] = x
  BY <1>1 DEF QueueType
<1>4. W!Requests' = 1..(n + 1)
  BY <1>3 DEF W!Requests
<1>5. 1..(n + 1) = 1..n \cup {n + 1} /\ n + 1 \notin 1..n
  OBVIOUS
<1> QED
  BY <1>1, <1>2, <1>3, <1>4, <1>5

\* A request that is answered at once.
LEMMA RequestRefused ==
  ASSUME RequestsInv, answers' = Append(answers, 1), UNCHANGED worker
  PROVE  RequestsInv'
<1>1. /\ answers' \in Seq({0, 1}) /\ Len(answers') = Len(answers) + 1
      /\ Len(answers) + 1 \notin W!Requests
      /\ W!Requests' = W!Requests \cup {Len(answers) + 1}
      /\ \A r \in W!Requests : answers'[r] = answers[r]
      /\ answers'[Len(answers) + 1] = 1
  BY Appended DEF RequestsInv
<1>2. W!Queued' = W!Queued
  BY DEF W!Queued
<1>3. QueueType' /\ WaitsOnce'
  BY <1>1, <1>2 DEF RequestsInv, QueueType, WaitsOnce
<1>4. W!EachAnsweredOnce'
  BY <1>1, <1>2 DEF RequestsInv, QueueType, W!EachAnsweredOnce
<1>5. WaitingInOrder'
  <2>1. \A m \in DOMAIN worker.wire : worker.wire[m] \in Nat /\ worker.wire[m] <= Len(answers)
    BY Waiting DEF RequestsInv, WaitingInOrder
  <2>2. \A m \in DOMAIN worker.wire : worker.wire[m] <= Len(answers) + 1
    BY <2>1, Waiting DEF RequestsInv
  <2> QED
    BY <1>1, <2>2 DEF RequestsInv, WaitingInOrder, W!OrderKept
<1> QED
  BY <1>3, <1>4, <1>5 DEF RequestsInv

\* A request that waits for the transport.
LEMMA RequestQueued ==
  ASSUME RequestsInv, answers' = Append(answers, 0),
         worker' = [worker EXCEPT !.pre = Append(@, Len(answers) + 1)]
  PROVE  RequestsInv' /\ worker'.pending = worker.pending
<1>1. /\ answers' \in Seq({0, 1}) /\ Len(answers') = Len(answers) + 1
      /\ Len(answers) + 1 \notin W!Requests
      /\ W!Requests' = W!Requests \cup {Len(answers) + 1}
      /\ \A r \in W!Requests : answers'[r] = answers[r]
      /\ answers'[Len(answers) + 1] = 0
  BY Appended DEF RequestsInv
<1>2. PICK n \in Nat, m \in Nat : n = Len(answers) /\ m = Len(worker.pre)
  BY Waiting DEF RequestsInv
<1>3. /\ worker'.pending = worker.pending /\ worker'.wire = worker.wire /\ worker'.said = worker.said
      /\ worker'.pre = Append(worker.pre, n + 1)
      /\ worker' \in [pre : Seq(Nat), pending : SUBSET Nat, said : Saying, wire : Seq(Nat)]
  <2>1. worker.pre \in Seq(Nat) /\ n + 1 \in Nat
    BY DEF RequestsInv, QueueType
  <2>2. Append(worker.pre, n + 1) \in Seq(Nat)
    BY <2>1, AppendProperties
  <2> QED
    BY <1>2, <2>2 DEF RequestsInv, QueueType
<1>4. /\ DOMAIN worker.pre = 1..m /\ DOMAIN worker'.pre = 1..(m + 1)
      /\ \A i \in 1..m : worker'.pre[i] = worker.pre[i]
      /\ worker'.pre[m + 1] = n + 1
  <2>1. worker.pre \in Seq(Nat) /\ n + 1 \in Nat
    BY DEF RequestsInv, QueueType
  <2>2. /\ Append(worker.pre, n + 1) \in Seq(Nat) /\ Len(Append(worker.pre, n + 1)) = m + 1
        /\ \A i \in 1..m : Append(worker.pre, n + 1)[i] = worker.pre[i]
        /\ Append(worker.pre, n + 1)[m + 1] = n + 1
    BY <1>2, <2>1, AppendProperties
  <2> QED
    BY <1>2, <1>3, <2>1, <2>2
<1>5. W!Queued = {worker.pre[i] : i \in 1..m} /\ W!Queued' = {worker'.pre[i] : i \in 1..(m + 1)}
  <2>1. Len(worker'.pre) = m + 1
    BY <1>3, <1>4, LenProperties
  <2> QED
    BY <1>2, <2>1 DEF W!Queued
<1>6. W!Queued' = W!Queued \cup {n + 1}
  <2>1. \A i \in 1..(m + 1) : i \in 1..m \/ i = m + 1
    OBVIOUS
  <2>2. \A i \in 1..m : i \in 1..(m + 1)
    OBVIOUS
  <2>3. m + 1 \in 1..(m + 1)
    OBVIOUS
  <2> QED
    BY <1>4, <1>5, <2>1, <2>2, <2>3
<1>7. QueueType' /\ WaitsOnce'
  BY <1>1, <1>2, <1>3, <1>6 DEF RequestsInv, QueueType, WaitsOnce
<1>8. W!EachAnsweredOnce'
  BY <1>1, <1>2, <1>3, <1>6 DEF RequestsInv, QueueType, W!EachAnsweredOnce
<1>9. WaitingInOrder'
  <2>1. /\ \A i \in DOMAIN worker.wire : worker.wire[i] \in Nat /\ worker.wire[i] <= n
        /\ \A i \in 1..m : worker.pre[i] \in Nat /\ worker.pre[i] <= n
        /\ \A i, j \in 1..m : i < j => worker.pre[i] < worker.pre[j]
        /\ \A i \in DOMAIN worker.wire, j \in 1..m : worker.wire[i] < worker.pre[j]
    BY <1>2, Waiting DEF RequestsInv, WaitingInOrder
  <2>2. \A i, j \in 1..(m + 1) : i < j => worker'.pre[i] < worker'.pre[j]
    <3> TAKE i, j \in 1..(m + 1)
    <3> HAVE i < j
    <3>1. i \in 1..m /\ (j \in 1..m \/ j = m + 1)
      OBVIOUS
    <3>2. worker'.pre[i] = worker.pre[i] /\ worker.pre[i] \in Nat /\ worker.pre[i] <= n
      BY <1>4, <2>1, <3>1
    <3>3. CASE j \in 1..m
      BY <1>4, <2>1, <3>1, <3>3
    <3>4. CASE j = m + 1
      <4>1. worker'.pre[j] = n + 1
        BY <1>4, <3>4
      <4>2. \A x \in Nat : x <= n => x < n + 1
        OBVIOUS
      <4> QED
        BY <3>2, <4>1, <4>2
    <3> QED
      BY <3>1, <3>3, <3>4
  <2>3. \A i \in DOMAIN worker.wire, j \in 1..(m + 1) : worker'.wire[i] < worker'.pre[j]
    <3> TAKE i \in DOMAIN worker.wire, j \in 1..(m + 1)
    <3>1. j \in 1..m \/ j = m + 1
      OBVIOUS
    <3> QED
      BY <1>3, <1>4, <2>1, <3>1
  <2>4. \A i \in DOMAIN worker.wire : worker'.wire[i] <= n + 1
    BY <1>3, <2>1
  <2> QED
    BY <1>1, <1>2, <1>3, <1>4, <2>2, <2>3, <2>4 DEF RequestsInv, WaitingInOrder, W!OrderKept
<1> QED
  BY <1>3, <1>7, <1>8, <1>9 DEF RequestsInv

\* A request that is sent at once: nothing waits.
LEMMA RequestSent ==
  ASSUME RequestsInv, answers' = Append(answers, 0), worker.pre = <<>>,
         worker' = [worker EXCEPT !.pending = @ \cup {Len(answers) + 1}, !.wire = Append(@, Len(answers) + 1)]
  PROVE  RequestsInv' /\ worker'.pre = <<>>
<1>1. /\ answers' \in Seq({0, 1}) /\ Len(answers') = Len(answers) + 1
      /\ Len(answers) + 1 \notin W!Requests
      /\ W!Requests' = W!Requests \cup {Len(answers) + 1}
      /\ \A r \in W!Requests : answers'[r] = answers[r]
      /\ answers'[Len(answers) + 1] = 0
  BY Appended DEF RequestsInv
<1>2. PICK n \in Nat, m \in Nat : n = Len(answers) /\ m = Len(worker.wire)
  BY Waiting DEF RequestsInv
<1>3. worker.wire \in Seq(Nat) /\ n + 1 \in Nat
  BY DEF RequestsInv, QueueType
<1>4. /\ Append(worker.wire, n + 1) \in Seq(Nat) /\ Len(Append(worker.wire, n + 1)) = m + 1
      /\ \A i \in 1..m : Append(worker.wire, n + 1)[i] = worker.wire[i]
      /\ Append(worker.wire, n + 1)[m + 1] = n + 1
  BY <1>2, <1>3, AppendProperties
<1>5. /\ worker'.pending = worker.pending \cup {n + 1} /\ worker'.wire = Append(worker.wire, n + 1)
      /\ worker'.pre = <<>>
      /\ worker' \in [pre : Seq(Nat), pending : SUBSET Nat, said : Saying, wire : Seq(Nat)]
  BY <1>2, <1>3, <1>4 DEF RequestsInv, QueueType
<1>6. /\ DOMAIN worker.wire = 1..m /\ DOMAIN worker'.wire = 1..(m + 1) /\ Len(worker'.wire) = m + 1
      /\ \A i \in 1..m : worker'.wire[i] = worker.wire[i]
      /\ worker'.wire[m + 1] = n + 1
  BY <1>2, <1>3, <1>4, <1>5
<1>7. W!Queued' = {} /\ W!Queued = {} /\ DOMAIN worker'.pre = {}
  BY <1>5, EmptySeq DEF W!Queued
<1>8. QueueType' /\ WaitsOnce'
  BY <1>1, <1>2, <1>5, <1>7 DEF RequestsInv, QueueType, WaitsOnce
<1>9. W!EachAnsweredOnce'
  BY <1>1, <1>2, <1>5, <1>7 DEF RequestsInv, QueueType, W!EachAnsweredOnce
<1>10. WaitingInOrder'
  <2>1. /\ \A i \in 1..m : worker.wire[i] \in Nat /\ worker.wire[i] <= n
        /\ \A i, j \in 1..m : i < j => worker.wire[i] < worker.wire[j]
    BY <1>2, <1>6, Waiting DEF RequestsInv, WaitingInOrder, W!OrderKept
  <2>2. \A i, j \in 1..(m + 1) : i < j => worker'.wire[i] < worker'.wire[j]
    <3> TAKE i, j \in 1..(m + 1)
    <3> HAVE i < j
    <3>1. i \in 1..m /\ (j \in 1..m \/ j = m + 1)
      OBVIOUS
    <3> QED
      BY <1>6, <2>1, <3>1
  <2>3. \A i \in 1..(m + 1) : worker'.wire[i] <= n + 1
    <3> TAKE i \in 1..(m + 1)
    <3>1. i \in 1..m \/ i = m + 1
      OBVIOUS
    <3> QED
      BY <1>6, <2>1, <3>1
  <2> QED
    BY <1>1, <1>2, <1>6, <1>7, <2>2, <2>3 DEF WaitingInOrder, W!OrderKept
<1> QED
  BY <1>5, <1>8, <1>9, <1>10 DEF RequestsInv

-----------------------------------------------------------------------------
(* The worker's invariant *)

\* The part of WorkerInv that relates the queues to the transport.
QueuesFollow == W!InFlightOnOpen /\ NoneBehind

LEMMA FollowOpen ==
  ASSUME t'.cur # 0, t'.open, t'.writer, worker'.pre = <<>>
  PROVE  QueuesFollow'
BY DEF QueuesFollow, W!InFlightOnOpen, NoneBehind, W!IsOpen

LEMMA FollowClosed ==
  ASSUME worker'.pre = <<>>, worker'.pending = {}
  PROVE  QueuesFollow'
BY DEF QueuesFollow, W!InFlightOnOpen, NoneBehind

LEMMA FollowRefused ==
  ASSUME t'.cur = 0, worker'.said = "auth-failed"
  PROVE  QueuesFollow'
BY DEF QueuesFollow, W!InFlightOnOpen, NoneBehind, W!IsOpen

\* The transport is as open as it was, and no more is in flight or waits.
LEMMA FollowSame ==
  ASSUME QueuesFollow, W!IsOpen(t)' <=> W!IsOpen(t), worker'.said = worker.said,
         worker'.pending \subseteq worker.pending, worker'.pre = worker.pre
  PROVE  QueuesFollow'
BY DEF QueuesFollow, W!InFlightOnOpen, NoneBehind, W!IsOpen

LEMMA WorkerStep ==
  ASSUME WorkerInv, W!Next
  PROVE  RequestsInv' /\ QueuesFollow'
<1>1. TransportInv /\ RequestsInv /\ QueuesFollow /\ QueueType /\ t \in Transport
  BY DEF WorkerInv, QueuesFollow, RequestsInv, TransportInv, TransportType
<1>2. TransportInv'
  BY <1>1, TransportStep
<1>3. W!Idle => RequestsInv' /\ worker'.pre = worker.pre /\ worker'.pending = worker.pending
                /\ worker'.said = worker.said
  BY <1>1, RequestsIdle, Says
<1>4. W!OnAuthFailed => RequestsInv' /\ worker'.said = "auth-failed"
  BY <1>1, RequestsIdle, Says
<1>5. \A b \in BOOLEAN : W!OnClosed(b) => RequestsInv' /\ worker'.pre = <<>> /\ worker'.pending = {}
  BY <1>1, RequestsClosed
<1>6. W!OnReady => RequestsInv' /\ worker'.pre = <<>>
  BY <1>1, RequestsReady
<1>7. t'.cur = 0 => ~t'.open /\ ~W!IsOpen(t)'
  BY <1>2 DEF TransportInv, CurrentMatches, W!IsOpen
<1>8. t.cur = 0 => ~W!IsOpen(t)
  BY DEF W!IsOpen
<1>9. W!Nothing(t).cur = 0
  BY <1>1, TransportFields
<1>10. CASE W!Connect \/ W!ReconnectTimer
  <2>1. UNCHANGED <<worker, answers>>
    BY <1>10 DEF W!Connect, W!ReconnectTimer, W!DoConnect, W!Idle
  <2>2. t.cur = 0
    <3>1. W!Connect => conns = <<>>
      BY DEF W!Connect
    <3>2. W!ReconnectTimer => t.timer
      BY DEF W!ReconnectTimer
    <3> QED
      BY <1>1, <1>10, <3>1, <3>2, ConnectionNumbers DEF TransportInv, CurrentMatches
  <2>3. ~W!IsOpen(t)'
    <3>1. \A tr : W!DoConnect(tr) => ~t'.open \/ t'.cur = 0
      <4> TAKE tr
      <4> HAVE W!DoConnect(tr)
      <4>1. t'.cur # 0 => conns'[t'.cur] = "connecting"
        BY <1>1, <1>2 DEF W!DoConnect, TransportInv, TransportType
      <4> QED
        BY <1>2, <4>1 DEF TransportInv, CurrentMatches
    <3>2. W!Connect => ~t'.open \/ t'.cur = 0
      BY <3>1 DEF W!Connect
    <3>3. W!ReconnectTimer => ~t'.open \/ t'.cur = 0
      <4> HAVE W!ReconnectTimer
      <4>1. t' = [t EXCEPT !.timer = FALSE] => t'.cur = 0
        BY <1>1, <2>2 DEF Transport
      <4> QED
        BY <3>1, <4>1 DEF W!ReconnectTimer
    <3> QED
      BY <1>10, <3>2, <3>3 DEF W!IsOpen
  <2>4. RequestsInv'
    BY <1>3, <2>1 DEF W!Idle
  <2> QED
    BY <1>1, <1>8, <2>1, <2>2, <2>3, <2>4, FollowSame
<1>11. CASE W!ConstructorThrows
  <2>1. t.cur = 0 /\ (W!OnClosed(FALSE) \/ (W!Idle /\ t' = W!ScheduleReconnect([t EXCEPT !.timer = FALSE])))
    BY <1>1, <1>11 DEF TransportInv, CurrentMatches, W!ConstructorThrows
  <2>2. CASE W!OnClosed(FALSE)
    BY <1>5, <2>2, FollowClosed
  <2>3. CASE W!Idle /\ t' = W!ScheduleReconnect([t EXCEPT !.timer = FALSE])
    <3>1. t'.cur = 0
      BY <1>1, <2>1, <2>3 DEF W!ScheduleReconnect, Transport
    <3> QED
      BY <1>1, <1>3, <1>7, <1>8, <2>1, <2>3, <3>1, FollowSame
  <2> QED
    BY <2>1, <2>2, <2>3
<1>12. ASSUME NEW c \in DOMAIN conns, W!SocketOpens(c) PROVE RequestsInv' /\ QueuesFollow'
  <2>1. t.cur = c /\ t' = [t EXCEPT !.open = TRUE, !.writer = TRUE] /\ W!OnReady /\ c # 0
    BY <1>1, <1>12, ConnectionNumbers DEF TransportInv, W!OneTransport, W!SocketOpens
  <2>2. t'.cur # 0 /\ t'.open /\ t'.writer
    BY <1>1, <2>1 DEF Transport
  <2> QED
    BY <1>6, <2>1, <2>2, FollowOpen
<1>13. ASSUME NEW c \in DOMAIN conns, NEW b \in BOOLEAN, W!SocketCloses(c, b)
       PROVE  RequestsInv' /\ QueuesFollow'
  <2>1. \/ W!OnAuthFailed /\ t' = [W!Nothing(t) EXCEPT !.msg = FALSE]
        \/ W!OnClosed(TRUE)
    BY <1>13 DEF W!SocketCloses
  <2>2. t' = [W!Nothing(t) EXCEPT !.msg = FALSE] => t'.cur = 0
    BY <1>1, <1>9 DEF W!Nothing, Transport
  <2> QED
    BY <1>4, <1>5, <2>1, <2>2, FollowRefused, FollowClosed
<1>14. ASSUME NEW c \in DOMAIN conns, W!Ready(c) PROVE RequestsInv' /\ QueuesFollow'
  <2>1. W!Idle /\ t.cur = c /\ c # 0 /\ conns[c] = "connecting" /\ t' = [t EXCEPT !.open = TRUE, !.auth = c]
    BY <1>1, <1>14, ConnectionNumbers DEF TransportInv, W!OneTransport, W!Ready, W!IsCurrent
  <2>2. ~t.writer /\ t'.writer = t.writer
    BY <1>1, <2>1 DEF TransportInv, CurrentMatches, Transport
  <2>3. ~W!IsOpen(t) /\ ~W!IsOpen(t)'
    BY <2>2 DEF W!IsOpen
  <2> QED
    BY <1>1, <1>3, <2>1, <2>3, FollowSame
<1>15. ASSUME NEW c \in DOMAIN conns, W!ReadyRejected(c) PROVE RequestsInv' /\ QueuesFollow'
  <2>1. \/ W!OnAuthFailed /\ t' = [W!Nothing(t) EXCEPT !.handled = TRUE, !.auth = 0]
        \/ W!Idle /\ UNCHANGED t
    BY <1>15 DEF W!ReadyRejected
  <2>2. t' = [W!Nothing(t) EXCEPT !.handled = TRUE, !.auth = 0] => t'.cur = 0
    BY <1>1, <1>9 DEF W!Nothing, Transport
  <2>3. UNCHANGED t => (W!IsOpen(t)' <=> W!IsOpen(t))
    BY DEF W!IsOpen
  <2> QED
    BY <1>1, <1>3, <1>4, <2>1, <2>2, <2>3, FollowRefused, FollowSame
<1>16. ASSUME NEW c \in DOMAIN conns, W!AuthTimer(c) PROVE RequestsInv' /\ QueuesFollow'
  <2>1. W!Idle /\ t' = [t EXCEPT !.auth = 0]
    BY <1>16 DEF W!AuthTimer, W!Idle
  <2>2. W!IsOpen(t)' <=> W!IsOpen(t)
    BY <1>1, <2>1 DEF W!IsOpen, Transport
  <2> QED
    BY <1>1, <1>3, <2>1, <2>2, FollowSame
<1>17. ASSUME NEW c \in DOMAIN conns, W!StreamAttached(c) PROVE RequestsInv' /\ QueuesFollow'
  <2>1. /\ t.cur = c /\ c # 0 /\ W!OnReady /\ t.open
        /\ t' = [t EXCEPT !.writer = TRUE, !.auth = 0]
    BY <1>1, <1>17, ConnectionNumbers
       DEF TransportInv, CurrentMatches, W!OneTransport, W!StreamAttached, W!IsCurrent
  <2>2. t'.cur # 0 /\ t'.open /\ t'.writer
    BY <1>1, <2>1 DEF Transport
  <2> QED
    BY <1>6, <2>1, <2>2, FollowOpen
<1>18. ASSUME NEW c \in DOMAIN conns, W!FailTransport(c) PROVE RequestsInv' /\ QueuesFollow'
  <2>1. W!OnClosed(TRUE) \/ (W!Idle /\ UNCHANGED t)
    BY <1>18 DEF W!FailTransport
  <2>2. UNCHANGED t => (W!IsOpen(t)' <=> W!IsOpen(t))
    BY DEF W!IsOpen
  <2> QED
    BY <1>1, <1>3, <1>5, <2>1, <2>2, FollowClosed, FollowSame
<1>19. ASSUME NEW c \in DOMAIN conns, W!HandleClosed(c) PROVE RequestsInv' /\ QueuesFollow'
  <2>1. \/ W!OnClosed(TRUE)
        \/ W!Idle /\ UNCHANGED t
        \/ W!OnAuthFailed /\ t' = [W!Nothing(t) EXCEPT !.handled = TRUE, !.auth = 0]
    BY <1>19 DEF W!HandleClosed
  <2>2. t' = [W!Nothing(t) EXCEPT !.handled = TRUE, !.auth = 0] => t'.cur = 0
    BY <1>1, <1>9 DEF W!Nothing, Transport
  <2>3. UNCHANGED t => (W!IsOpen(t)' <=> W!IsOpen(t))
    BY DEF W!IsOpen
  <2> QED
    BY <1>1, <1>3, <1>4, <1>5, <2>1, <2>2, <2>3, FollowClosed, FollowRefused, FollowSame
<1>20. CASE W!Request
  <2>1. UNCHANGED t /\ (W!IsOpen(t)' <=> W!IsOpen(t))
    BY <1>20 DEF W!Request, W!IsOpen
  <2>2. \/ answers' = Append(answers, 1) /\ worker' = worker
        \/ /\ answers' = Append(answers, 0) /\ ~W!IsOpen(t)
           /\ worker' = [worker EXCEPT !.pre = Append(@, Len(answers) + 1)]
        \/ /\ answers' = Append(answers, 0) /\ W!IsOpen(t)
           /\ worker' = [worker EXCEPT !.pending = @ \cup {Len(answers) + 1},
                                       !.wire = Append(@, Len(answers) + 1)]
    BY <1>20 DEF W!Request
  <2>3. CASE answers' = Append(answers, 1) /\ worker' = worker
    BY <1>1, <2>1, <2>3, RequestRefused, FollowSame
  <2>4. CASE /\ answers' = Append(answers, 0) /\ ~W!IsOpen(t)
             /\ worker' = [worker EXCEPT !.pre = Append(@, Len(answers) + 1)]
    <3>1. RequestsInv' /\ worker'.pending = worker.pending /\ worker'.said = worker.said
      BY <1>1, <2>4, RequestQueued DEF QueueType
    <3> QED
      BY <1>1, <2>1, <2>4, <3>1 DEF QueuesFollow, W!InFlightOnOpen, NoneBehind, W!IsOpen
  <2>5. CASE /\ answers' = Append(answers, 0) /\ W!IsOpen(t)
             /\ worker' = [worker EXCEPT !.pending = @ \cup {Len(answers) + 1},
                                         !.wire = Append(@, Len(answers) + 1)]
    <3>1. RequestsInv' /\ worker'.pre = <<>>
      BY <1>1, <2>5, RequestSent DEF QueuesFollow, NoneBehind
    <3> QED
      BY <2>1, <2>5, <3>1 DEF QueuesFollow, W!InFlightOnOpen, NoneBehind, W!IsOpen
  <2> QED
    BY <2>2, <2>3, <2>4, <2>5
<1>21. CASE W!SendRefused
  <2>1. answers' = Append(answers, 1) /\ worker' = worker /\ UNCHANGED t /\ (W!IsOpen(t)' <=> W!IsOpen(t))
    BY <1>21 DEF W!SendRefused, W!IsOpen
  <2> QED
    BY <1>1, <2>1, RequestRefused, FollowSame
<1>22. ASSUME NEW r \in W!Requests, W!Settles(r) PROVE RequestsInv' /\ QueuesFollow'
  <2>1. RequestsInv' /\ worker'.pre = worker.pre /\ worker'.pending \subseteq worker.pending
    BY <1>1, <1>22, RequestsSettle
  <2>2. UNCHANGED t /\ (W!IsOpen(t)' <=> W!IsOpen(t)) /\ worker'.said = worker.said
    BY <1>1, <1>22 DEF W!Settles, W!IsOpen, QueueType
  <2> QED
    BY <1>1, <2>1, <2>2, FollowSame
<1> QED
  BY <1>10, <1>11, <1>12, <1>13, <1>14, <1>15, <1>16, <1>17, <1>18, <1>19, <1>20, <1>21, <1>22 DEF W!Next

LEMMA WorkerInit == W!Init => WorkerInv
<1> SUFFICES ASSUME W!Init PROVE WorkerInv
  OBVIOUS
<1>1. /\ conns = <<>> /\ answers = <<>>
      /\ worker = [pre |-> <<>>, pending |-> {}, said |-> "nothing", wire |-> <<>>]
  BY DEF W!Init
<1>2. PICK k \in {"ws", "wt"} :
        t = [kind |-> k, cur |-> 0, msg |-> FALSE, open |-> FALSE, writer |-> FALSE,
             timer |-> FALSE, auth |-> 0, handled |-> TRUE, failed |-> FALSE]
  BY DEF W!Init
<1>3. \A S : <<>> \in Seq(S) /\ Len(<<>>) = 0 /\ DOMAIN <<>> = {}
  BY EmptySeq
<1>4. TransportInv
  <2>1. t \in Transport /\ t.cur = 0 /\ t.auth = 0 /\ ~t.open /\ ~t.writer
    BY <1>2 DEF Transport
  <2>2. worker.said \in Saying
    BY <1>1 DEF Saying
  <2> QED
    BY <1>1, <1>3, <2>1, <2>2 DEF TransportInv, TransportType, CurrentMatches, W!OneTransport
<1>5. W!Queued = {} /\ W!Requests = {} /\ worker.pending = {}
  BY <1>1, <1>3 DEF W!Queued, W!Requests
<1>6. QueueType
  BY <1>1, <1>3, <1>5 DEF QueueType, Saying
<1>7. W!EachAnsweredOnce /\ WaitsOnce
  BY <1>5 DEF W!EachAnsweredOnce, WaitsOnce
<1>8. WaitingInOrder
  BY <1>1, <1>3 DEF WaitingInOrder, W!OrderKept
<1>9. W!InFlightOnOpen /\ NoneBehind
  BY <1>1, <1>5 DEF W!InFlightOnOpen, NoneBehind
<1> QED
  BY <1>4, <1>6, <1>7, <1>8, <1>9 DEF WorkerInv, RequestsInv

LEMMA WorkerStays == WorkerInv /\ UNCHANGED workerVars => WorkerInv'
<1> SUFFICES ASSUME WorkerInv, UNCHANGED workerVars PROVE WorkerInv'
  OBVIOUS
<1>1. UNCHANGED <<conns, t, worker, answers>>
  BY DEF workerVars
<1>2. TransportInv'
  BY <1>1 DEF WorkerInv, TransportInv, TransportType, CurrentMatches, W!OneTransport
<1>3. W!Idle
  BY <1>1 DEF W!Idle
<1>4. RequestsInv'
  BY <1>3, RequestsIdle DEF WorkerInv
<1>5. W!InFlightOnOpen' /\ NoneBehind'
  BY <1>1 DEF WorkerInv, W!InFlightOnOpen, NoneBehind, W!IsOpen
<1> QED
  BY <1>2, <1>4, <1>5 DEF WorkerInv

\* What a behaviour of the carriers does to one of its parts.
LEMMA CarriersSteps ==
  ASSUME [CarriersNext]_CarriersVars
  PROVE  (W!Next \/ UNCHANGED workerVars) /\ (B!Next \/ UNCHANGED brokerVars) /\ [Next]_ioVars
BY DEF CarriersNext, CarriersVars, Broker, Worker, DeviceIo

LEMMA WorkerInvariant == CarriersSpec => []WorkerInv
<1>1. CarriersInit => WorkerInv
  BY WorkerInit DEF CarriersInit
<1>2. WorkerInv /\ [CarriersNext]_CarriersVars => WorkerInv'
  <2> SUFFICES ASSUME WorkerInv, [CarriersNext]_CarriersVars PROVE WorkerInv'
    OBVIOUS
  <2>1. CASE W!Next
    <3>1. TransportInv'
      BY <2>1, TransportStep DEF WorkerInv, RequestsInv
    <3>2. RequestsInv' /\ QueuesFollow'
      BY <2>1, WorkerStep
    <3> QED
      BY <3>1, <3>2 DEF WorkerInv, QueuesFollow
  <2> QED
    BY <2>1, CarriersSteps, WorkerStays
<1> QED
  BY <1>1, <1>2, PTL DEF CarriersSpec

\* The requests of a page over either transport (worker/index.js, websocket.js,
\* webtransport.js): each is answered once, they reach the daemon in the order the
\* page made them, and one in flight is on the one connection that is open, or
\* the bridge was told to replace the plane; whatever connections fail, and in
\* whatever order their callbacks run.
THEOREM RequestsAreKept == CarriersSpec => []RequestsKept
<1>1. WorkerInv => RequestsKept
  <2> SUFFICES ASSUME WorkerInv PROVE RequestsKept
    OBVIOUS
  <2>1. W!TypeOK
    <3>1. \A c \in DOMAIN conns : conns[c] \in ConnectionState
      BY DEF WorkerInv, TransportInv, TransportType
    <3>2. \A r \in W!Requests : answers[r] \in {0, 1}
      BY Waiting DEF WorkerInv, RequestsInv
    <3> QED
      BY <3>1, <3>2 DEF W!TypeOK, WorkerInv, TransportInv, TransportType, ConnectionState, Saying,
                        RequestsInv, QueueType
  <2> QED
    BY <2>1 DEF RequestsKept, WorkerInv, TransportInv, RequestsInv, WaitingInOrder
<1> QED
  BY <1>1, WorkerInvariant, PTL

-----------------------------------------------------------------------------
(* The broker *)

\* Types of the two bridges, of what is under way and of the page.
UpMessage == [k : {"authA", "closing"}] \cup [k : {"attach", "detach"}, r : Nat, dev : Device]
DownMessage == [k : {"authB", "attached", "detached"}, r : Nat]
AskedFor == [r : Nat, k : {"attach", "stale", "undo", "end", "quiet"}, dev : Device]
Attachment == [doc : B!Doc, dev : Device, port : B!Doc \X Nat]
ReportType == [n : Nat, doc : B!Doc, dev : Device, port : B!Doc \X Nat]
ChildType ==
  [doc : B!Doc, otp : BOOLEAN, asked : BOOLEAN, offer : BOOLEAN, pairing : BOOLEAN, paired : BOOLEAN,
   pend : SUBSET AskedFor, attached : SUBSET Device, next : Nat, crossed : SUBSET Device]
TopType ==
  [ctx : [B!Doc -> {"none", "new", "paired", "gone"}], att : SUBSET Attachment,
   open : SUBSET (B!Doc \X Nat), own : SUBSET Device, shared : SUBSET Device,
   lost : SUBSET Device, pending : SUBSET ReportType]
WireType ==
  [pairOffer : BOOLEAN, brokerOffer : SUBSET B!Doc, candidate : BOOLEAN, reports : SUBSET ReportType,
   up : [B!Doc -> Seq(UpMessage)], down : [B!Doc -> Seq(DownMessage)]]
PageType == [port : [Device -> Nat], sent : Nat, waiting : SUBSET ReportType]

BrokerTypes == child \in ChildType /\ top \in TopType /\ wire \in WireType /\ page \in PageType

\* The last that a queue says of a device is whether it is one of ws; if it says
\* nothing, the top frame has done it (hs).
Concerns(m, d) == m.k \in {"attach", "detach"} /\ m.dev = d
Said(q, ws, hs) ==
  \A d \in Device :
    /\ \A i \in DOMAIN q :
         Concerns(q[i], d) /\ (\A j \in DOMAIN q : j > i => ~Concerns(q[j], d)) => (q[i].k = "attach" <=> d \in ws)
    /\ (\A i \in DOMAIN q : ~Concerns(q[i], d)) => (d \in hs <=> d \in ws)

Wanted == {d \in Device : B!Wants(child, d)}
Had == {d \in Device : \E a \in top.att : a.doc = child.doc /\ a.dev = d}

\* How far the current document has come, and that later ones have not come.
Pairing ==
  /\ \A d \in B!Doc : d > child.doc => /\ top.ctx[d] = "none" /\ wire.up[d] = <<>> /\ wire.down[d] = <<>>
                                       /\ d \notin wire.brokerOffer
  /\ child.doc \in wire.brokerOffer => top.ctx[child.doc] = "none"
  /\ ~child.asked => top.ctx[child.doc] = "none" /\ child.doc \notin wire.brokerOffer
  /\ child.paired => top.ctx[child.doc] = "paired"
  /\ \A i \in DOMAIN wire.down[child.doc] :
       wire.down[child.doc][i].k = "authB" => top.ctx[child.doc] = "paired"

\* What the top frame will serve when it has read what was sent (ws): devices that the
\* child wants, all of them but those of which the end of a plane crossed an attachment.
Serves(ws) ==
  /\ Said(wire.up[child.doc], ws, Had)
  /\ ws \subseteq Wanted
  /\ \A d \in Wanted : d \in child.crossed \/ d \in ws

Attaching ==
  /\ \A a \in top.att : a.doc <= child.doc
  /\ ~child.paired => /\ child.pend = {} /\ child.attached = {}
                      /\ \A a \in top.att : a.doc # child.doc
                      /\ \A i \in DOMAIN wire.up[child.doc] : wire.up[child.doc][i].k = "authA"
  /\ \A i \in DOMAIN wire.up[child.doc] : wire.up[child.doc][i].k # "closing"
  /\ \E ws : Serves(ws)

\* The runtime ports of the top frame tp, but for those of ds.
Used(tp, d) == d \in tp.own \/ (\E a \in tp.att : a.dev = d) \/ \E w \in tp.pending : w.dev = d
Served(tp, ds) ==
  /\ \A d \in tp.own : d \in tp.shared \cup tp.lost \cup ds
  /\ \A a \in tp.att : a.dev \in tp.shared \cup tp.lost \cup ds
  /\ \A w \in tp.pending : \E a \in tp.att : a.doc = w.doc /\ a.dev = w.dev
  /\ \A a \in tp.att : tp.ctx[a.doc] # "gone"
UsedPorts(tp, ds) == \A d \in tp.shared \ ds : Used(tp, d)
WellServed(tp) == Served(tp, {}) /\ UsedPorts(tp, {})

\* How far the two have come with each other, and what each holds of the other.
BrokerInv == BrokerTypes /\ Pairing /\ Attaching /\ WellServed(top)

-----------------------------------------------------------------------------
(* The runtime ports of the top frame *)

LEMMA MaybePorts ==
  ASSUME NEW tp \in TopType, NEW ds, Served(tp, {}), UsedPorts(tp, ds)
  PROVE  LET u == B!MaybeDisconnect(tp, ds)
         IN  u \in TopType /\ u.ctx = tp.ctx /\ u.att = tp.att /\ WellServed(u)
<1> DEFINE s == {d \in tp.shared : d \in ds => Used(tp, d)}
           u == B!MaybeDisconnect(tp, ds)
<1>1. u = [tp EXCEPT !.shared = s]
  BY DEF B!MaybeDisconnect, Used
<1>2. s \in SUBSET Device /\ s \subseteq tp.shared /\ (\A d \in s : Used(tp, d))
      /\ \A d \in tp.shared : Used(tp, d) => d \in s
  BY DEF TopType, UsedPorts
<1> HIDE DEF u, s
<1>3. u \in TopType
  BY <1>1, <1>2 DEF TopType
<1>4. /\ u.ctx = tp.ctx /\ u.att = tp.att /\ u.own = tp.own /\ u.lost = tp.lost /\ u.pending = tp.pending
      /\ u.shared = s
  BY <1>1 DEF TopType
<1>5. Served(u, {})
  BY <1>2, <1>4 DEF Served, Used
<1>6. UsedPorts(u, {})
  BY <1>2, <1>4 DEF UsedPorts, Used
<1> QED
  BY <1>3, <1>4, <1>5, <1>6 DEF u, WellServed

LEMMA EnsurePorts ==
  ASSUME NEW tp \in TopType, NEW d \in Device, Served(tp, {d}), UsedPorts(tp, {d}), Used(tp, d)
  PROVE  LET u == B!Ensure(tp, d)
         IN  u \in TopType /\ u.ctx = tp.ctx /\ u.att = tp.att /\ WellServed(u)
<1> DEFINE s == tp.shared \cup {d}
           l == tp.lost \ {d}
           u == B!Ensure(tp, d)
<1>1. u = [tp EXCEPT !.shared = s, !.lost = l]
  BY DEF B!Ensure
<1>2. s \in SUBSET Device /\ l \in SUBSET Device /\ s \cup l = tp.shared \cup tp.lost \cup {d}
      /\ \A e \in s : Used(tp, e)
  BY DEF TopType, UsedPorts
<1> HIDE DEF u, s, l
<1>3. u \in TopType
  BY <1>1, <1>2 DEF TopType
<1>4. /\ u.ctx = tp.ctx /\ u.att = tp.att /\ u.own = tp.own /\ u.lost = l /\ u.pending = tp.pending
      /\ u.shared = s
  BY <1>1 DEF TopType
<1>5. Served(u, {})
  BY <1>2, <1>4 DEF Served
<1>6. UsedPorts(u, {})
  BY <1>2, <1>4 DEF UsedPorts, Used
<1> QED
  BY <1>3, <1>4, <1>5, <1>6 DEF u, WellServed

LEMMA RemovePorts ==
  ASSUME NEW tp \in TopType, NEW as \in SUBSET tp.att, WellServed(tp)
  PROVE  LET u == B!Remove(tp, as)
         IN  u \in TopType /\ u.ctx = tp.ctx /\ u.att = tp.att \ as /\ WellServed(u)
<1> DEFINE at == tp.att \ as
           op == tp.open \ {a.port : a \in as}
           pe == {w \in tp.pending : \A a \in as : <<w.doc, w.dev>> # <<a.doc, a.dev>>}
           ds == {a.dev : a \in as}
           left == [tp EXCEPT !.att = at, !.open = op, !.pending = pe]
<1>1. B!Remove(tp, as) = B!MaybeDisconnect(left, ds)
  BY DEF B!Remove
<1>2. /\ at \in SUBSET Attachment /\ op \in SUBSET (B!Doc \X Nat) /\ pe \in SUBSET ReportType
  BY DEF TopType
<1>3. Served(tp, {}) /\ UsedPorts(tp, {})
  BY DEF WellServed
<1>4. /\ at \subseteq tp.att
      /\ \A w \in pe : \E a \in at : a.doc = w.doc /\ a.dev = w.dev
  BY <1>3 DEF Served
<1>5. ASSUME NEW d \in tp.shared \ ds
      PROVE  d \in tp.own \/ (\E a \in at : a.dev = d) \/ \E w \in pe : w.dev = d
  <2>1. Used(tp, d) /\ d \notin ds
    BY <1>3 DEF UsedPorts
  <2>2. \A a \in tp.att : a.dev = d => a \in at
    BY <2>1
  <2>3. \A w \in tp.pending : w.dev = d => w \in pe
    BY <2>1
  <2> QED
    BY <2>1, <2>2, <2>3 DEF Used
<1> HIDE DEF at, op, pe, ds
<1>6. left \in TopType
  BY <1>2 DEF TopType
<1>7. /\ left.ctx = tp.ctx /\ left.att = at /\ left.own = tp.own /\ left.lost = tp.lost
      /\ left.pending = pe /\ left.shared = tp.shared
  BY DEF TopType
<1> HIDE DEF left
<1>8. Served(left, {})
  BY <1>3, <1>4, <1>7 DEF Served
<1>9. UsedPorts(left, ds)
  BY <1>5, <1>7 DEF UsedPorts, Used
<1> QED
  BY <1>1, <1>6, <1>7, <1>8, <1>9, MaybePorts, ZenonT(40) DEF at

LEMMA DestroyPorts ==
  ASSUME NEW tp \in TopType, NEW docs \in SUBSET B!Doc, WellServed(tp)
  PROVE  LET u == B!Destroy(tp, docs)
         IN  /\ u \in TopType /\ WellServed(u)
             /\ u.ctx = [d \in B!Doc |-> IF d \in docs THEN "gone" ELSE tp.ctx[d]]
             /\ u.att = {a \in tp.att : a.doc \notin docs}
<1> DEFINE as == {a \in tp.att : a.doc \in docs}
           v == B!Remove(tp, as)
           cx == [d \in B!Doc |-> IF d \in docs THEN "gone" ELSE tp.ctx[d]]
           u == B!Destroy(tp, docs)
<1>1. v \in TopType /\ v.ctx = tp.ctx /\ v.att = tp.att \ as /\ WellServed(v)
  <2>1. as \in SUBSET tp.att
    OBVIOUS
  <2> HIDE DEF as
  <2> QED
    BY <2>1, RemovePorts
<1>2. u = [v EXCEPT !.ctx = [d \in B!Doc |-> IF d \in docs THEN "gone" ELSE @[d]]]
  BY DEF B!Destroy
<1> HIDE DEF v
<1>3. u = [v EXCEPT !.ctx = cx]
  BY <1>1, <1>2
<1>4. cx \in [B!Doc -> {"none", "new", "paired", "gone"}]
  BY DEF TopType
<1>5. v.att = {a \in tp.att : a.doc \notin docs}
  BY <1>1
<1>6. \A a \in v.att : a.doc \in B!Doc /\ cx[a.doc] = v.ctx[a.doc]
  BY <1>1, <1>5 DEF TopType, Attachment
<1> HIDE DEF u, cx, as
<1>7. u \in TopType
  BY <1>1, <1>3, <1>4 DEF TopType
<1>8. /\ u.ctx = cx /\ u.att = v.att /\ u.own = v.own /\ u.lost = v.lost /\ u.pending = v.pending
      /\ u.shared = v.shared
  BY <1>1, <1>3 DEF TopType
<1>9. WellServed(u)
  BY <1>1, <1>6, <1>8, ZenonT(40) DEF WellServed, Served, UsedPorts, Used
<1> QED
  BY <1>5, <1>7, <1>8, <1>9 DEF u, cx

-----------------------------------------------------------------------------
(* What a queue says *)

LEMMA TailFacts ==
  ASSUME NEW S, NEW q \in Seq(S), q # <<>>
  PROVE  /\ Tail(q) \in Seq(S) /\ Head(q) \in S /\ Head(q) = q[1] /\ 1 \in DOMAIN q
         /\ DOMAIN q = 1..Len(q) /\ Len(q) \in Nat \ {0}
         /\ DOMAIN Tail(q) = 1..(Len(q) - 1)
         /\ \A i \in DOMAIN Tail(q) : i + 1 \in DOMAIN q /\ Tail(q)[i] = q[i + 1]
<1>1. Len(q) \in Nat \ {0} /\ DOMAIN q = 1..Len(q)
  BY EmptySeq, LenProperties
<1>2. Tail(q) \in Seq(S) /\ Head(q) \in S /\ Len(Tail(q)) = Len(q) - 1
      /\ \A i \in 1..Len(Tail(q)) : Tail(q)[i] = q[i + 1]
  BY HeadTailProperties
<1>3. DOMAIN Tail(q) = 1..Len(Tail(q))
  BY <1>2, LenProperties
<1>4. Head(q) = q[1]
  BY <1>1, SMT
<1> QED
  BY <1>1, <1>2, <1>3, <1>4

LEMMA AppendFacts ==
  ASSUME NEW S, NEW q \in Seq(S), NEW m \in S
  PROVE  /\ Append(q, m) \in Seq(S) /\ Len(q) \in Nat /\ DOMAIN q = 1..Len(q)
         /\ DOMAIN Append(q, m) = 1..(Len(q) + 1)
         /\ Append(q, m)[Len(q) + 1] = m
         /\ \A i \in DOMAIN q : i \in DOMAIN Append(q, m) /\ Append(q, m)[i] = q[i]
<1>1. Len(q) \in Nat /\ DOMAIN q = 1..Len(q)
  BY LenProperties
<1>2. Append(q, m) \in Seq(S) /\ Len(Append(q, m)) = Len(q) + 1
      /\ (\A i \in 1..Len(q) : Append(q, m)[i] = q[i]) /\ Append(q, m)[Len(q) + 1] = m
  BY AppendProperties
<1>3. DOMAIN Append(q, m) = 1..Len(Append(q, m))
  BY <1>2, LenProperties
<1> QED
  BY <1>1, <1>2, <1>3

\* The top frame does what the first message says.
LEMMA SaidTail ==
  ASSUME NEW q \in Seq(UpMessage), q # <<>>, NEW ws, NEW hs, NEW gs, Said(q, ws, hs),
         \A d \in Device : d \in gs <=> IF Concerns(Head(q), d) THEN Head(q).k = "attach" ELSE d \in hs
  PROVE  Said(Tail(q), ws, gs)
<1> SUFFICES ASSUME NEW d \in Device
             PROVE  /\ \A i \in DOMAIN Tail(q) :
                         Concerns(Tail(q)[i], d) /\ (\A j \in DOMAIN Tail(q) : j > i => ~Concerns(Tail(q)[j], d))
                         => (Tail(q)[i].k = "attach" <=> d \in ws)
                    /\ (\A i \in DOMAIN Tail(q) : ~Concerns(Tail(q)[i], d)) => (d \in gs <=> d \in ws)
  BY DEF Said
<1>1. /\ \A i \in DOMAIN q :
           Concerns(q[i], d) /\ (\A j \in DOMAIN q : j > i => ~Concerns(q[j], d)) => (q[i].k = "attach" <=> d \in ws)
      /\ (\A i \in DOMAIN q : ~Concerns(q[i], d)) => (d \in hs <=> d \in ws)
  BY DEF Said
<1> DEFINE tl == Tail(q)
           n == Len(q)
<1>2. /\ n \in Nat \ {0} /\ DOMAIN q = 1..n /\ Head(q) = q[1] /\ DOMAIN tl = 1..(n - 1)
      /\ \A i \in 1..(n - 1) : tl[i] = q[i + 1]
  BY TailFacts
<1> HIDE DEF tl, n
<1>3. \A j \in 1..n : j > 1 => j - 1 \in 1..(n - 1) /\ q[j] = tl[j - 1]
  BY <1>2
<1>4. ASSUME NEW i \in DOMAIN tl, Concerns(tl[i], d), \A j \in DOMAIN tl : j > i => ~Concerns(tl[j], d)
      PROVE  tl[i].k = "attach" <=> d \in ws
  <2>1. i \in 1..(n - 1) /\ i + 1 \in 1..n /\ q[i + 1] = tl[i]
    BY <1>2
  <2>2. ASSUME NEW j \in 1..n, j > i + 1 PROVE ~Concerns(q[j], d)
    <3>1. j - 1 \in 1..(n - 1) /\ q[j] = tl[j - 1] /\ j - 1 > i
      BY <1>2, <1>3, <2>1, <2>2
    <3> QED
      BY <1>2, <1>4, <3>1
  <2> QED
    BY <1>1, <1>2, <1>4, <2>1, <2>2
<1>5. ASSUME \A i \in DOMAIN tl : ~Concerns(tl[i], d)
      PROVE  d \in gs <=> d \in ws
  <2>1. \A j \in 1..n : j > 1 => ~Concerns(q[j], d)
    BY <1>2, <1>3, <1>5
  <2>2. 1 \in 1..n /\ \A j \in 1..n : j = 1 \/ j > 1
    BY <1>2
  <2>3. CASE Concerns(q[1], d)
    BY <1>1, <1>2, <2>1, <2>2, <2>3
  <2>4. CASE ~Concerns(q[1], d)
    BY <1>1, <1>2, <2>1, <2>2, <2>4
  <2> QED
    BY <2>3, <2>4
<1> QED
  BY <1>4, <1>5 DEF tl

\* The child wants what it says last.
LEMMA SaidAppend ==
  ASSUME NEW q \in Seq(UpMessage), NEW m \in UpMessage, NEW ws, NEW vs, NEW hs, Said(q, ws, hs),
         \A d \in Device : d \in vs <=> IF Concerns(m, d) THEN m.k = "attach" ELSE d \in ws
  PROVE  Said(Append(q, m), vs, hs)
<1> DEFINE p == Append(q, m)
           n == Len(q)
<1>1. /\ n \in Nat /\ DOMAIN q = 1..n /\ DOMAIN p = 1..(n + 1) /\ p[n + 1] = m
      /\ \A i \in 1..n : p[i] = q[i]
  BY AppendFacts
<1> HIDE DEF p, n
<1>2. SUFFICES ASSUME NEW d \in Device
               PROVE  /\ \A i \in DOMAIN p :
                           Concerns(p[i], d) /\ (\A j \in DOMAIN p : j > i => ~Concerns(p[j], d))
                           => (p[i].k = "attach" <=> d \in vs)
                      /\ (\A i \in DOMAIN p : ~Concerns(p[i], d)) => (d \in hs <=> d \in vs)
  BY DEF Said, p
<1>3. /\ \A i \in DOMAIN q :
           Concerns(q[i], d) /\ (\A j \in DOMAIN q : j > i => ~Concerns(q[j], d)) => (q[i].k = "attach" <=> d \in ws)
      /\ (\A i \in DOMAIN q : ~Concerns(q[i], d)) => (d \in hs <=> d \in ws)
  BY DEF Said
<1>4. n + 1 \in 1..(n + 1) /\ (\A i \in 1..n : i \in 1..(n + 1) /\ n + 1 > i)
      /\ \A i \in 1..(n + 1) : i = n + 1 \/ i \in 1..n
  BY <1>1
<1>5. ASSUME NEW i \in DOMAIN p, Concerns(p[i], d), \A j \in DOMAIN p : j > i => ~Concerns(p[j], d)
      PROVE  p[i].k = "attach" <=> d \in vs
  <2>1. CASE i = n + 1
    BY <1>1, <1>5, <2>1
  <2>2. CASE i \in 1..n
    <3>1. ~Concerns(m, d)
      BY <1>1, <1>4, <1>5, <2>2
    <3>2. \A j \in DOMAIN q : j > i => ~Concerns(q[j], d)
      BY <1>1, <1>4, <1>5
    <3> QED
      BY <1>1, <1>3, <1>5, <2>2, <3>1, <3>2
  <2> QED
    BY <1>1, <1>4, <2>1, <2>2
<1>6. ASSUME \A i \in DOMAIN p : ~Concerns(p[i], d)
      PROVE  d \in hs <=> d \in vs
  BY <1>1, <1>3, <1>4, <1>6
<1> QED
  BY <1>5, <1>6

-----------------------------------------------------------------------------
(* Steps of which the bridges say nothing to each other *)

\* The runtime ports, the top frame's own planes and the reports.
LEMMA PortsStep ==
  ASSUME BrokerInv, top' \in TopType, WellServed(top'), top'.ctx = top.ctx, top'.att = top.att,
         child' = child, wire' \in WireType, page' \in PageType,
         wire'.up = wire.up, wire'.down = wire.down, wire'.brokerOffer = wire.brokerOffer
  PROVE  BrokerInv'
<1>1. BrokerTypes' /\ WellServed(top)'
  BY DEF BrokerInv, BrokerTypes
<1>2. Pairing'
  BY DEF BrokerInv, Pairing
<1>3. Wanted' = Wanted /\ Had' = Had
  BY DEF Wanted, B!Wants, Had
<1>4. Attaching'
  <2>1. PICK ws : Serves(ws)
    BY DEF BrokerInv, Attaching
  <2>2. Serves(ws)'
    BY <1>3, <2>1 DEF Serves, Said
  <2> QED
    BY <2>2 DEF BrokerInv, Attaching
<1> QED
  BY <1>1, <1>2, <1>4 DEF BrokerInv

\* The offer and its timer.
LEMMA OfferStep ==
  ASSUME BrokerInv, child' \in ChildType, child'.doc = child.doc, child'.paired = child.paired,
         child'.pend = child.pend, child'.attached = child.attached, child'.crossed = child.crossed,
         child.asked => child'.asked, (~child.asked /\ child'.asked) \/ wire'.brokerOffer = wire.brokerOffer,
         top' = top, page' = page, wire' \in WireType, wire'.up = wire.up, wire'.down = wire.down,
         \A d \in B!Doc : d \in wire'.brokerOffer =>
           d \in wire.brokerOffer \/ (d = child.doc /\ ~child.asked)
  PROVE  BrokerInv'
<1>1. BrokerTypes' /\ WellServed(top)'
  BY DEF BrokerInv, BrokerTypes
<1>2. Pairing'
  <2>1. child.doc \in Nat /\ child.doc \in B!Doc
    BY BrokerAssumption DEF BrokerInv, BrokerTypes, ChildType, B!Doc
  <2>2. \A d \in B!Doc : d > child.doc => d # child.doc
    BY <2>1 DEF B!Doc
  <2> QED
    BY <2>1, <2>2 DEF BrokerInv, Pairing
<1>3. Wanted' = Wanted /\ Had' = Had
  BY DEF Wanted, B!Wants, Had
<1>4. Attaching'
  <2>1. PICK ws : Serves(ws)
    BY DEF BrokerInv, Attaching
  <2>2. Serves(ws)'
    BY <1>3, <2>1 DEF Serves, Said
  <2> QED
    BY <2>2 DEF BrokerInv, Attaching
<1> QED
  BY <1>1, <1>2, <1>4 DEF BrokerInv

LEMMA BrokerInit == B!Init => BrokerInv
<1> SUFFICES ASSUME B!Init PROVE BrokerInv
  OBVIOUS
<1> DEFINE first == B!NewChild(1)
<1>1. 1 \in B!Doc /\ \A d \in B!Doc : d \in Nat
  BY BrokerAssumption DEF B!Doc
<1>2. child = first /\ first = [doc |-> 1, otp |-> TRUE, asked |-> FALSE, offer |-> FALSE, pairing |-> FALSE,
                                paired |-> FALSE, pend |-> {}, attached |-> {}, next |-> 1,
                                crossed |-> {}]
  BY DEF B!Init, B!NewChild
<1> HIDE DEF first
<1>3. /\ child \in ChildType /\ child.doc = 1 /\ ~child.paired /\ ~child.asked
      /\ child.pend = {} /\ child.attached = {}
  BY <1>1, <1>2 DEF ChildType
<1>4. /\ top \in TopType /\ top.att = {} /\ top.own = {} /\ top.shared = {} /\ top.pending = {}
      /\ \A d \in B!Doc : top.ctx[d] = "none"
  BY DEF B!Init, TopType
<1>5. <<>> \in Seq(UpMessage) /\ <<>> \in Seq(DownMessage) /\ DOMAIN <<>> = {}
  BY EmptySeq
<1>6. /\ wire \in WireType /\ wire.brokerOffer = {}
      /\ \A d \in B!Doc : wire.up[d] = <<>> /\ wire.down[d] = <<>>
  BY <1>5 DEF B!Init, WireType
<1>7. page \in PageType
  BY DEF B!Init, PageType
<1>8. Pairing
  BY <1>1, <1>3, <1>4, <1>5, <1>6 DEF Pairing
<1>9. Wanted = {} /\ Had = {}
  BY <1>3, <1>4 DEF Wanted, B!Wants, Had
<1>12. Serves({})
  BY <1>1, <1>3, <1>5, <1>6, <1>9 DEF Serves, Said
<1>10. Attaching
  BY <1>1, <1>3, <1>4, <1>5, <1>6, <1>12 DEF Attaching
<1>11. WellServed(top)
  BY <1>4 DEF WellServed, Served, UsedPorts
<1> QED
  BY <1>3, <1>4, <1>6, <1>7, <1>8, <1>10, <1>11 DEF BrokerInv, BrokerTypes

-----------------------------------------------------------------------------
(* Reports, and the top frame's own planes *)

LEMMA OwnPlaneSteps ==
  ASSUME BrokerInv, NEW d \in Device, B!OwnPlaneOpens(d) \/ B!OwnPlaneCloses(d)
  PROVE  BrokerInv'
<1>1. top \in TopType /\ Served(top, {}) /\ UsedPorts(top, {})
      /\ wire' = wire /\ wire \in WireType /\ page' = page /\ page \in PageType /\ child' = child
  BY DEF BrokerInv, BrokerTypes, WellServed, B!OwnPlaneOpens, B!OwnPlaneCloses
<1>2. CASE B!OwnPlaneOpens(d)
  <2> DEFINE ow == top.own \cup {d}
             x == [top EXCEPT !.own = ow]
  <2>1. top' = B!Ensure(x, d)
    BY <1>2 DEF B!OwnPlaneOpens
  <2>2. ow \in SUBSET Device
    BY <1>1 DEF TopType
  <2>3. d \in ow /\ top.own \subseteq ow /\ \A e \in ow : e \in top.own \/ e = d
    OBVIOUS
  <2> HIDE DEF ow
  <2>4. x \in TopType /\ x.ctx = top.ctx /\ x.att = top.att /\ x.own = ow /\ x.lost = top.lost
        /\ x.pending = top.pending /\ x.shared = top.shared
    BY <1>1, <2>2 DEF TopType
  <2> HIDE DEF x
  <2>5. Served(x, {d}) /\ UsedPorts(x, {d}) /\ Used(x, d)
    BY <1>1, <2>3, <2>4 DEF Served, UsedPorts, Used
  <2>6. top' \in TopType /\ top'.ctx = x.ctx /\ top'.att = x.att /\ WellServed(top')
    BY <2>1, <2>4, <2>5, EnsurePorts
  <2> QED
    BY <1>1, <2>4, <2>6, PortsStep
<1>3. CASE B!OwnPlaneCloses(d)
  <2> DEFINE ow == top.own \ {d}
             x == [top EXCEPT !.own = ow]
  <2>1. top' = B!MaybeDisconnect(x, {d})
    BY <1>3 DEF B!OwnPlaneCloses
  <2>2. ow \in SUBSET Device
    BY <1>1 DEF TopType
  <2>3. ow \subseteq top.own /\ \A e \in top.own : e \in ow \/ e = d
    OBVIOUS
  <2> HIDE DEF ow
  <2>4. x \in TopType /\ x.ctx = top.ctx /\ x.att = top.att /\ x.own = ow /\ x.lost = top.lost
        /\ x.pending = top.pending /\ x.shared = top.shared
    BY <1>1, <2>2 DEF TopType
  <2> HIDE DEF x
  <2>5. Served(x, {}) /\ UsedPorts(x, {d})
    BY <1>1, <2>3, <2>4 DEF Served, UsedPorts, Used
  <2>6. top' \in TopType /\ top'.ctx = x.ctx /\ top'.att = x.att /\ WellServed(top')
    BY <2>1, <2>4, <2>5, MaybePorts
  <2> QED
    BY <1>1, <2>4, <2>6, PortsStep
<1> QED
  BY <1>2, <1>3

LEMMA AnsweredPage ==
  ASSUME page \in PageType, NEW ws, B!Answered(ws)
  PROVE  page' \in PageType
<1> DEFINE wt == page.waiting \ ws
<1>1. page' = [page EXCEPT !.waiting = wt] /\ wt \in SUBSET ReportType
  BY DEF B!Answered, PageType
<1> HIDE DEF wt
<1> QED
  BY <1>1 DEF PageType

LEMMA ReportStep ==
  ASSUME BrokerInv, NEW d \in Device, B!Report(d)
  PROVE  BrokerInv'
<1> DEFINE w == [n |-> page.sent + 1, doc |-> child.doc, dev |-> d, port |-> <<child.doc, page.port[d]>>]
           wt == page.waiting \cup {w}
           rs == wire.reports \cup {w}
           se == page.sent + 1
<1>1. /\ top \in TopType /\ WellServed(top) /\ wire \in WireType /\ page \in PageType /\ child \in ChildType
      /\ top' = top /\ child' = child
  BY DEF BrokerInv, BrokerTypes, B!Report
<1>2. page' = [page EXCEPT !.sent = se, !.waiting = wt] /\ wire' = [wire EXCEPT !.reports = rs]
  BY DEF B!Report
<1>3. w \in ReportType /\ se \in Nat
  BY <1>1 DEF ReportType, PageType, ChildType
<1> HIDE DEF w, se
<1>4. wt \in SUBSET ReportType /\ rs \in SUBSET ReportType
  BY <1>1, <1>3 DEF PageType, WireType
<1> HIDE DEF wt, rs
<1>5. page' \in PageType
  BY <1>1, <1>2, <1>3, <1>4 DEF PageType
<1>6. wire' \in WireType /\ wire'.up = wire.up /\ wire'.down = wire.down /\ wire'.brokerOffer = wire.brokerOffer
  BY <1>1, <1>2, <1>4 DEF WireType
<1> QED
  BY <1>1, <1>5, <1>6, PortsStep

LEMMA TopDataMessageStep ==
  ASSUME BrokerInv, NEW w \in wire.reports, B!HandleTopChildDataMessage(w)
  PROVE  BrokerInv'
<1>1. /\ top \in TopType /\ Served(top, {}) /\ UsedPorts(top, {}) /\ WellServed(top)
      /\ wire \in WireType /\ page \in PageType /\ child' = child
  BY DEF BrokerInv, BrokerTypes, WellServed, B!HandleTopChildDataMessage
<1>2. wire' \in WireType /\ wire'.up = wire.up /\ wire'.down = wire.down /\ wire'.brokerOffer = wire.brokerOffer
  <2> DEFINE rs == wire.reports \ {w}
  <2>1. wire' = [wire EXCEPT !.reports = rs] /\ rs \in SUBSET ReportType
    BY <1>1 DEF B!HandleTopChildDataMessage, WireType
  <2> HIDE DEF rs
  <2> QED
    BY <1>1, <2>1 DEF WireType
<1>3. w \in ReportType
  BY <1>1 DEF WireType
<1>4. CASE top' = top
  <2>1. page' \in PageType
    BY <1>1, <1>4, AnsweredPage DEF B!HandleTopChildDataMessage
  <2> QED
    BY <1>1, <1>2, <1>4, <2>1, PortsStep
<1>5. CASE top' # top
  <2> DEFINE pe == top.pending \cup {w}
             x == [top EXCEPT !.pending = pe]
  <2>1. top' = B!Ensure(x, w.dev) /\ page' = page /\ \E a \in top.att : a.doc = w.doc /\ a.dev = w.dev
    BY <1>5 DEF B!HandleTopChildDataMessage, B!Of
  <2>2. pe \in SUBSET ReportType
    BY <1>1, <1>3 DEF TopType
  <2>3. w \in pe /\ top.pending \subseteq pe /\ \A e \in pe : e \in top.pending \/ e = w
    OBVIOUS
  <2> HIDE DEF pe
  <2>4. x \in TopType /\ x.ctx = top.ctx /\ x.att = top.att /\ x.own = top.own /\ x.lost = top.lost
        /\ x.pending = pe /\ x.shared = top.shared
    BY <1>1, <2>2 DEF TopType
  <2> HIDE DEF x
  <2>5. Served(x, {w.dev}) /\ UsedPorts(x, {w.dev}) /\ Used(x, w.dev)
    BY <1>1, <2>1, <2>3, <2>4 DEF Served, UsedPorts, Used
  <2>6. w.dev \in Device
    BY <1>3 DEF ReportType
  <2>7. top' \in TopType /\ top'.ctx = x.ctx /\ top'.att = x.att /\ WellServed(top')
    BY <2>1, <2>4, <2>5, <2>6, EnsurePorts
  <2> QED
    BY <1>1, <1>2, <2>1, <2>4, <2>7, PortsStep
<1> QED
  BY <1>4, <1>5

LEMMA ReportAnsweredStep ==
  ASSUME BrokerInv, NEW w \in top.pending, B!ReportAnswered(w)
  PROVE  BrokerInv'
<1>1. /\ top \in TopType /\ Served(top, {}) /\ UsedPorts(top, {})
      /\ wire' = wire /\ wire \in WireType /\ page \in PageType /\ child' = child
  BY DEF BrokerInv, BrokerTypes, WellServed, B!ReportAnswered
<1>2. page' \in PageType
  BY <1>1, AnsweredPage DEF B!ReportAnswered
<1> DEFINE pe == top.pending \ {w}
           x == [top EXCEPT !.pending = pe]
<1>3. top' = B!MaybeDisconnect(x, {w.dev})
  BY DEF B!ReportAnswered
<1>4. pe \in SUBSET ReportType
  BY <1>1 DEF TopType
<1>5. pe \subseteq top.pending /\ \A e \in top.pending : e \in pe \/ e = w
  OBVIOUS
<1> HIDE DEF pe
<1>6. x \in TopType /\ x.ctx = top.ctx /\ x.att = top.att /\ x.own = top.own /\ x.lost = top.lost
      /\ x.pending = pe /\ x.shared = top.shared
  BY <1>1, <1>4 DEF TopType
<1> HIDE DEF x
<1>7. Served(x, {}) /\ UsedPorts(x, {w.dev})
  BY <1>1, <1>5, <1>6 DEF Served, UsedPorts, Used
<1>8. top' \in TopType /\ top'.ctx = x.ctx /\ top'.att = x.att /\ WellServed(top')
  BY <1>3, <1>6, <1>7, MaybePorts
<1> QED
  BY <1>1, <1>2, <1>6, <1>8, PortsStep

LEMMA PortLostStep ==
  ASSUME BrokerInv, NEW d \in Device, B!RuntimePortLost(d)
  PROVE  BrokerInv'
<1>1. /\ top \in TopType /\ Served(top, {}) /\ UsedPorts(top, {})
      /\ wire' = wire /\ wire \in WireType /\ page \in PageType /\ child' = child
  BY DEF BrokerInv, BrokerTypes, WellServed, B!RuntimePortLost
<1>2. page' \in PageType
  BY <1>1, AnsweredPage DEF B!RuntimePortLost
<1> DEFINE ws == {w \in top.pending : w.dev = d}
           pe == top.pending \ ws
           sh == top.shared \ {d}
           lo == top.lost \cup {d}
<1>3. top' = [top EXCEPT !.shared = sh, !.lost = lo, !.pending = pe]
  BY DEF B!RuntimePortLost
<1>4. pe \in SUBSET ReportType /\ sh \in SUBSET Device /\ lo \in SUBSET Device
  BY <1>1 DEF TopType
<1>5. /\ pe \subseteq top.pending /\ \A e \in top.pending : e \in pe \/ e.dev = d
      /\ sh \subseteq top.shared /\ d \notin sh /\ sh \cup lo = top.shared \cup top.lost \cup {d}
      /\ d \in lo /\ top.lost \subseteq lo /\ \A e \in top.shared : e \in sh \/ e = d
  OBVIOUS
<1> HIDE DEF ws, pe, sh, lo
<1>6. /\ top' \in TopType /\ top'.ctx = top.ctx /\ top'.att = top.att /\ top'.own = top.own /\ top'.lost = lo
      /\ top'.pending = pe /\ top'.shared = sh
  BY <1>1, <1>3, <1>4 DEF TopType
<1>7. WellServed(top')
  BY <1>1, <1>5, <1>6 DEF WellServed, Served, UsedPorts, Used
<1> QED
  BY <1>1, <1>2, <1>6, <1>7, PortsStep

-----------------------------------------------------------------------------
(* Pairing *)

LEMMA TypesOfBroker ==
  ASSUME BrokerInv
  PROVE  /\ child \in ChildType /\ top \in TopType /\ wire \in WireType /\ page \in PageType
         /\ child.doc \in B!Doc /\ \A d \in B!Doc : d \in Nat
         /\ wire.up \in [B!Doc -> Seq(UpMessage)] /\ wire.down \in [B!Doc -> Seq(DownMessage)]
         /\ top.ctx \in [B!Doc -> {"none", "new", "paired", "gone"}]
         /\ child.next \in Nat /\ child.pend \in SUBSET AskedFor /\ child.attached \in SUBSET Device
         /\ child.crossed \in SUBSET Device
BY BrokerAssumption DEF BrokerInv, BrokerTypes, ChildType, WireType, TopType, B!Doc

LEMMA ChildOfferSteps ==
  ASSUME BrokerInv, B!HandleFanoutChildOffer \/ B!HandleFanoutPairOffer \/ B!PairTimer
  PROVE  BrokerInv'
<1> USE TypesOfBroker
<1>1. CASE B!HandleFanoutChildOffer
  <2> DEFINE bo == wire.brokerOffer \cup {child.doc}
  <2>1. /\ child' = [child EXCEPT !.asked = TRUE] /\ ~child.asked
        /\ wire' = [wire EXCEPT !.pairOffer = TRUE, !.brokerOffer = bo]
        /\ top' = top /\ page' = page
    BY <1>1 DEF B!HandleFanoutChildOffer
  <2>2. bo \in SUBSET B!Doc /\ \A d \in bo : d \in wire.brokerOffer \/ d = child.doc
    BY DEF WireType
  <2> HIDE DEF bo
  <2>3. /\ child' \in ChildType /\ child'.doc = child.doc /\ child'.paired = child.paired
        /\ child'.pend = child.pend /\ child'.attached = child.attached /\ child'.asked = TRUE
        /\ child'.crossed = child.crossed
    BY <2>1 DEF ChildType
  <2>4. wire' \in WireType /\ wire'.up = wire.up /\ wire'.down = wire.down /\ wire'.brokerOffer = bo
    BY <2>1, <2>2 DEF WireType
  <2> QED
    BY <2>1, <2>2, <2>3, <2>4, OfferStep
<1>2. CASE B!HandleFanoutPairOffer
  <2>1. /\ child' = [child EXCEPT !.offer = child.otp]
        /\ wire' = [wire EXCEPT !.pairOffer = FALSE]
        /\ top' = top /\ page' = page
    BY <1>2 DEF B!HandleFanoutPairOffer
  <2>2. child.otp \in BOOLEAN
    BY DEF ChildType
  <2>3. /\ child' \in ChildType /\ child'.doc = child.doc /\ child'.paired = child.paired
        /\ child'.pend = child.pend /\ child'.attached = child.attached /\ (child'.asked <=> child.asked)
        /\ child'.crossed = child.crossed
    BY <2>1, <2>2 DEF ChildType
  <2>4. wire' \in WireType /\ wire'.up = wire.up /\ wire'.down = wire.down
        /\ wire'.brokerOffer = wire.brokerOffer
    BY <2>1 DEF WireType
  <2> QED
    BY <2>1, <2>3, <2>4, OfferStep
<1>3. CASE B!PairTimer
  <2>1. /\ child' = [child EXCEPT !.pairing = FALSE, !.offer = FALSE, !.otp = FALSE]
        /\ top' = top /\ page' = page /\ wire' = wire
    BY <1>3 DEF B!PairTimer
  <2>2. /\ child' \in ChildType /\ child'.doc = child.doc /\ child'.paired = child.paired
        /\ child'.pend = child.pend /\ child'.attached = child.attached /\ (child'.asked <=> child.asked)
        /\ child'.crossed = child.crossed
    BY <2>1 DEF ChildType
  <2> QED
    BY <2>1, <2>2, OfferStep
<1> QED
  BY <1>1, <1>2, <1>3

\* The child takes what it reads from the queue to its document.
DownGoes(dn) ==
  /\ \A d \in B!Doc : d # child.doc => dn[d] = wire.down[d]
  /\ \A i \in DOMAIN dn[child.doc] : \E j \in DOMAIN wire.down[child.doc] : dn[child.doc][i] = wire.down[child.doc][j]

\* What a step of the child's bridge leaves alone.
ChildStays ==
  /\ child' \in ChildType /\ child'.doc = child.doc /\ child'.asked = child.asked
  /\ top' = top /\ page' \in PageType
  /\ wire' \in WireType /\ wire'.brokerOffer = wire.brokerOffer /\ DownGoes(wire'.down)

LEMMA ChildStaysPaired ==
  ASSUME BrokerInv, ChildStays, \A d \in B!Doc : d > child.doc => wire'.up[d] = wire.up[d],
         child'.paired => top.ctx[child.doc] = "paired"
  PROVE  BrokerTypes' /\ WellServed(top)' /\ Pairing'
<1> USE TypesOfBroker
<1>1. BrokerTypes' /\ WellServed(top)'
  BY DEF BrokerInv, BrokerTypes, ChildStays
<1>2. Pairing'
  <2>1. ASSUME NEW d \in B!Doc, d > child.doc
        PROVE  top'.ctx[d] = "none" /\ wire'.up[d] = <<>> /\ wire'.down[d] = <<>> /\ d \notin wire'.brokerOffer
    <3>1. d # child.doc
      BY <2>1
    <3>2. top.ctx[d] = "none" /\ wire.up[d] = <<>> /\ wire.down[d] = <<>> /\ d \notin wire.brokerOffer
      BY <2>1 DEF BrokerInv, Pairing
    <3> QED
      BY <2>1, <3>1, <3>2 DEF ChildStays, DownGoes
  <2>2. \A i \in DOMAIN wire'.down[child.doc] :
          wire'.down[child.doc][i].k = "authB" => top.ctx[child.doc] = "paired"
    BY DEF BrokerInv, Pairing, ChildStays, DownGoes
  <2>3. /\ child.doc \in wire.brokerOffer => top.ctx[child.doc] = "none"
        /\ ~child.asked => top.ctx[child.doc] = "none" /\ child.doc \notin wire.brokerOffer
    BY DEF BrokerInv, Pairing
  <2> QED
    BY <2>1, <2>2, <2>3 DEF Pairing, ChildStays
<1> QED
  BY <1>1, <1>2

\* The child sends message m: what it says is what the child wants of the device, but
\* for the end of a plane that crosses an attachment.
Quiet == ~child.paired => /\ child.pend = {} /\ child.attached = {}
                          /\ \A a \in top.att : a.doc # child.doc
                          /\ \A i \in DOMAIN wire.up[child.doc] : wire.up[child.doc][i].k = "authA"
LatestAttached == \A a \in top.att : a.doc <= child.doc
NotClosing == \A i \in DOMAIN wire.up[child.doc] : wire.up[child.doc][i].k # "closing"
Serving == \E ws : Serves(ws)
LEMMA AttachingThen ==
  ASSUME Quiet', LatestAttached', NotClosing', Serving'
  PROVE  Attaching'
BY DEF Attaching, Quiet, LatestAttached, NotClosing, Serving

LEMMA ChildSends ==
  ASSUME BrokerInv, NEW m \in UpMessage, m.k # "closing", ChildStays, child'.paired = child.paired,
         wire'.up = [wire.up EXCEPT ![child.doc] = Append(@, m)],
         child.paired \/ (m.k = "authA" /\ child'.pend = {} /\ child'.attached = {}),
         \A d \in Device :
           /\ ~Concerns(m, d) => (d \in Wanted' <=> d \in Wanted) /\ (d \in child'.crossed <=> d \in child.crossed)
           /\ Concerns(m, d) /\ m.k = "attach" => d \in Wanted'
           /\ Concerns(m, d) /\ m.k # "attach" => d \notin Wanted' \/ d \in child'.crossed
  PROVE  BrokerInv'
<1> USE TypesOfBroker
<1>1. BrokerTypes' /\ WellServed(top)' /\ Pairing'
  <2>1. \A d \in B!Doc : d > child.doc => wire'.up[d] = wire.up[d]
    OBVIOUS
  <2>2. child'.paired => top.ctx[child.doc] = "paired"
    BY DEF BrokerInv, Pairing
  <2> QED
    BY <2>1, <2>2, ChildStaysPaired
<1> DEFINE q == wire.up[child.doc]
<1>2. child'.doc = child.doc /\ top' = top
  BY DEF ChildStays
<1>4. q \in Seq(UpMessage) /\ wire'.up[child.doc] = Append(q, m)
  OBVIOUS
<1>5. Had' = Had
  BY <1>2 DEF Had
<1>6. PICK ws : Said(q, ws, Had) /\ ws \subseteq Wanted /\ \A d \in Wanted : d \in child.crossed \/ d \in ws
  BY DEF BrokerInv, Attaching, Serves
<1> DEFINE said == {d \in Device : IF Concerns(m, d) THEN m.k = "attach" ELSE d \in ws}
<1>10. Said(Append(q, m), said, Had)
  <2>1. \A d \in Device : d \in said <=> IF Concerns(m, d) THEN m.k = "attach" ELSE d \in ws
    OBVIOUS
  <2> HIDE DEF q, said
  <2> QED
    BY <1>4, <1>6, <2>1, SaidAppend
<1>11. said \subseteq Wanted'
  BY <1>6
<1>12. ASSUME NEW d \in Wanted' PROVE d \in child'.crossed \/ d \in said
  <2>1. d \in Device
    BY DEF Wanted
  <2> QED
    BY <1>6, <2>1
<1>7. /\ \A i \in DOMAIN q : q[i].k # "closing" /\ (~child.paired => q[i].k = "authA")
      /\ \A a \in top.att : a.doc <= child.doc
      /\ ~child.paired => \A a \in top.att : a.doc # child.doc
  BY DEF BrokerInv, Attaching
<1> HIDE DEF q, said
<1>8. \A i \in DOMAIN Append(q, m) :
        Append(q, m)[i].k # "closing" /\ (~child.paired => Append(q, m)[i].k = "authA")
  BY <1>4, <1>7, AppendFacts
<1>13. wire'.up[child'.doc] = Append(q, m)
  BY <1>2, <1>4
<1>14. PICK vs : /\ Said(Append(q, m), vs, Had) /\ vs \subseteq Wanted'
                 /\ \A d \in Wanted' : d \in child'.crossed \/ d \in vs
  BY <1>10, <1>11, <1>12
<1>9. Attaching'
  <2>1. Serves(vs)'
    <3>1. Said(wire'.up[child'.doc], vs, Had')
      BY <1>5, <1>13, <1>14
    <3> QED
      BY <1>14, <3>1 DEF Serves, Said
  <2>2. Quiet'
    BY <1>2, <1>7, <1>8, <1>13 DEF Quiet
  <2>3. LatestAttached'
    BY <1>2, <1>7 DEF LatestAttached
  <2>4. NotClosing'
    BY <1>8, <1>13 DEF NotClosing
  <2>5. Serving'
    BY <2>1 DEF Serving
  <2> QED
    BY <2>2, <2>3, <2>4, <2>5, AttachingThen
<1> QED
  BY <1>1, <1>9 DEF BrokerInv

LEMMA BrokerCandidateStep ==
  ASSUME BrokerInv, B!HandleBrokerCandidate
  PROVE  BrokerInv'
<1> USE TypesOfBroker
<1>1. CASE child.offer /\ ~child.paired /\ ~child.pairing
  <2> DEFINE m == [k |-> "authA"]
             up == [wire.up EXCEPT ![child.doc] = Append(@, m)]
  <2>1. /\ child' = [child EXCEPT !.pairing = TRUE]
        /\ wire' = [wire EXCEPT !.candidate = FALSE, !.up = up]
        /\ top' = top /\ page' = page
    BY <1>1 DEF B!HandleBrokerCandidate, WireType
  <2>2. m \in UpMessage /\ m.k = "authA"
    BY DEF UpMessage
  <2>3. \A d : ~Concerns(m, d)
    BY DEF Concerns
  <2> HIDE DEF m
  <2>4. up \in [B!Doc -> Seq(UpMessage)]
    BY <2>2, AppendFacts
  <2>5. /\ child' \in ChildType /\ child'.doc = child.doc /\ child'.paired = child.paired
        /\ child'.pend = child.pend /\ child'.attached = child.attached /\ child'.asked = child.asked
        /\ child'.crossed = child.crossed
    BY <2>1 DEF ChildType
  <2> HIDE DEF up
  <2>6. wire' \in WireType /\ wire'.up = up /\ wire'.down = wire.down
        /\ wire'.brokerOffer = wire.brokerOffer
    BY <2>1, <2>4 DEF WireType
  <2>7. Wanted' = Wanted
    BY <2>5 DEF Wanted, B!Wants
  <2>10. ChildStays
    BY <2>1, <2>5, <2>6 DEF ChildStays, DownGoes
  <2>8. /\ child.pend = {} /\ child.attached = {}
    BY <1>1 DEF BrokerInv, Attaching
  <2>9. wire'.up = [wire.up EXCEPT ![child.doc] = Append(@, m)]
    BY <2>6 DEF up
  <2> QED
    BY <2>2, <2>3, <2>5, <2>7, <2>8, <2>9, <2>10, ChildSends
<1>2. CASE ~(child.offer /\ ~child.paired /\ ~child.pairing)
  <2>1. /\ child' = child /\ wire' = [wire EXCEPT !.candidate = FALSE]
        /\ top' = top /\ page' = page
    BY <1>2 DEF B!HandleBrokerCandidate
  <2>2. wire' \in WireType /\ wire'.up = wire.up /\ wire'.down = wire.down
        /\ wire'.brokerOffer = wire.brokerOffer
    BY <2>1 DEF WireType
  <2> QED
    BY <2>1, <2>2, OfferStep
<1> QED
  BY <1>1, <1>2

\* The contexts of docs go, or the child's comes; none of a child that has paired.
ContextsGo(docs, cx) ==
  /\ top'.att = {a \in top.att : a.doc \notin docs} /\ top'.ctx = cx
  /\ \A d \in docs : d <= child.doc
  /\ \A d \in B!Doc : d \notin docs /\ d # child.doc => cx[d] = top.ctx[d]
  /\ child.doc \in docs => ~child.paired /\ top.ctx[child.doc] \notin {"none", "paired"}
  /\ child.doc \notin docs => cx[child.doc] = top.ctx[child.doc] \/ child.doc \in wire.brokerOffer
  /\ child.doc \in wire'.brokerOffer => cx[child.doc] = "none"
  /\ wire'.up = wire.up /\ wire'.down = wire.down /\ wire'.brokerOffer \subseteq wire.brokerOffer

LEMMA ContextStep ==
  ASSUME BrokerInv, NEW docs \in SUBSET B!Doc, NEW cx, ContextsGo(docs, cx),
         top' \in TopType, WellServed(top'), child' = child, page' = page, wire' \in WireType
  PROVE  BrokerInv'
<1> USE TypesOfBroker
<1> USE DEF ContextsGo
<1>1. BrokerTypes' /\ WellServed(top)'
  BY DEF BrokerInv, BrokerTypes
<1>2. Pairing'
  <2>1. ASSUME NEW d \in B!Doc, d > child.doc
        PROVE  cx[d] = "none" /\ wire'.up[d] = <<>> /\ wire'.down[d] = <<>> /\ d \notin wire'.brokerOffer
    <3>1. d \notin docs /\ d # child.doc
      BY <2>1
    <3> QED
      BY <2>1, <3>1 DEF BrokerInv, Pairing
  <2>2. child.paired => cx[child.doc] = "paired"
    BY DEF BrokerInv, Pairing
  <2>3. ~child.asked => cx[child.doc] = "none" /\ child.doc \notin wire'.brokerOffer
    BY DEF BrokerInv, Pairing
  <2>4. \A i \in DOMAIN wire.down[child.doc] :
          wire.down[child.doc][i].k = "authB" => cx[child.doc] = "paired"
    BY DEF BrokerInv, Pairing
  <2> QED
    BY <2>1, <2>2, <2>3, <2>4 DEF Pairing
<1>3. Had' = Had
  <2>1. \A a \in top.att : a.doc = child.doc => a \in top'.att
    BY DEF BrokerInv, Attaching
  <2>2. Had = {d \in Device : \E a \in top.att : a.doc = child.doc /\ a.dev = d}
        /\ Had' = {d \in Device : \E a \in top'.att : a.doc = child.doc /\ a.dev = d}
    BY DEF Had
  <2>3. top'.att \subseteq top.att
    OBVIOUS
  <2> QED
    BY <2>1, <2>2, <2>3
<1>4. Wanted' = Wanted
  BY DEF Wanted, B!Wants
<1>5. Attaching'
  <2>3. PICK ws : Serves(ws)
    BY DEF BrokerInv, Attaching
  <2>1. Serves(ws)'
    BY <1>3, <1>4, <2>3 DEF Serves, Said
  <2>2. top'.att \subseteq top.att
    OBVIOUS
  <2> QED
    BY <2>1, <2>2 DEF BrokerInv, Attaching
<1> QED
  BY <1>1, <1>2, <1>5 DEF BrokerInv

LEMMA BrokerOfferStep ==
  ASSUME BrokerInv, NEW d \in B!Doc, B!HandleFanoutBrokerOffer(d)
  PROVE  BrokerInv'
<1> USE TypesOfBroker
<1> DEFINE bo == wire.brokerOffer \ {d}
<1>1. d \in wire.brokerOffer /\ bo \in SUBSET B!Doc /\ bo \subseteq wire.brokerOffer /\ d \notin bo
  BY DEF B!HandleFanoutBrokerOffer, WireType
<1>2. child' = child /\ page' = page
  BY DEF B!HandleFanoutBrokerOffer
<1>3. CASE d = child.doc
  <2> DEFINE docs == {e \in B!Doc : e # d /\ top.ctx[e] \in {"new", "paired"}}
             u == B!Destroy(top, docs)
             cv == [e \in B!Doc |-> IF e \in docs THEN "gone" ELSE top.ctx[e]]
             cx == [cv EXCEPT ![d] = "new"]
  <2>1. top' = [u EXCEPT !.ctx[d] = "new"]
    BY <1>3 DEF B!HandleFanoutBrokerOffer
  <2>2. wire' = [wire EXCEPT !.brokerOffer = bo, !.candidate = TRUE]
    BY <1>3 DEF B!HandleFanoutBrokerOffer
  <2>3. docs \in SUBSET B!Doc /\ d \notin docs /\ \A e \in docs : top.ctx[e] # "none"
    OBVIOUS
  <2>4. cv \in [B!Doc -> {"none", "new", "paired", "gone"}]
    OBVIOUS
  <2>5. cx \in [B!Doc -> {"none", "new", "paired", "gone"}] /\ cx[d] = "new"
        /\ \A e \in B!Doc \ {d} : cx[e] = IF e \in docs THEN "gone" ELSE top.ctx[e]
    BY <2>4
  <2> HIDE DEF docs
  <2>6. u \in TopType /\ WellServed(u) /\ u.ctx = cv /\ u.att = {a \in top.att : a.doc \notin docs}
    BY <2>3, DestroyPorts DEF BrokerInv
  <2> HIDE DEF u
  <2>7. top' = [u EXCEPT !.ctx = cx]
    BY <2>1, <2>6 DEF TopType
  <2> HIDE DEF cv, cx
  <2>8. /\ top' \in TopType /\ top'.ctx = cx /\ top'.att = u.att /\ top'.own = u.own /\ top'.lost = u.lost
        /\ top'.pending = u.pending /\ top'.shared = u.shared
    BY <2>5, <2>6, <2>7 DEF TopType
  <2>9. \A a \in u.att : cx[a.doc] # "gone"
    <3>1. \A a \in u.att : a.doc \in B!Doc /\ u.ctx[a.doc] # "gone"
      BY <2>6 DEF WellServed, Served, TopType, Attachment
    <3> QED
      BY <2>5, <2>6, <3>1 DEF cv
  <2>10. WellServed(top')
    BY <2>6, <2>8, <2>9 DEF WellServed, Served, UsedPorts, Used
  <2>11. wire' \in WireType /\ wire'.up = wire.up /\ wire'.down = wire.down /\ wire'.brokerOffer = bo
    BY <1>1, <2>2 DEF WireType
  <2>12. \A e \in docs : e <= child.doc
    BY <2>3, SMTT(30) DEF BrokerInv, Pairing
  <2>13. top'.att = {a \in top.att : a.doc \notin docs}
    BY <2>6, <2>8
  <2> HIDE DEF bo
  <2>14. ContextsGo(docs, cx)
    BY <1>1, <1>3, <2>3, <2>5, <2>8, <2>11, <2>12, <2>13 DEF ContextsGo
  <2> QED
    BY <1>2, <2>3, <2>8, <2>10, <2>11, <2>14, ContextStep
<1>4. CASE d # child.doc
  <2>1. top' = top /\ wire' = [wire EXCEPT !.brokerOffer = bo]
    BY <1>4 DEF B!HandleFanoutBrokerOffer
  <2> HIDE DEF bo
  <2>2. wire' \in WireType /\ wire'.up = wire.up /\ wire'.down = wire.down /\ wire'.brokerOffer = bo
    BY <1>1, <2>1 DEF WireType
  <2>3. top.att = {a \in top.att : a.doc \notin {}} /\ WellServed(top)
    BY DEF BrokerInv
  <2>4. child.doc \in bo => top.ctx[child.doc] = "none"
    BY <1>1 DEF BrokerInv, Pairing
  <2>5. ContextsGo({}, top.ctx)
    BY <1>1, <2>1, <2>2, <2>3, <2>4 DEF ContextsGo
  <2> QED
    BY <1>2, <2>1, <2>2, <2>3, <2>5, ContextStep
<1> QED
  BY <1>3, <1>4

LEMMA TopPairTimerStep ==
  ASSUME BrokerInv, NEW d \in B!Doc, B!TopPairTimer(d)
  PROVE  BrokerInv'
<1> USE TypesOfBroker
<1> DEFINE docs == {d}
           cx == [e \in B!Doc |-> IF e \in docs THEN "gone" ELSE top.ctx[e]]
<1>1. top.ctx[d] = "new" /\ top' = B!Destroy(top, docs) /\ child' = child /\ wire' = wire /\ page' = page
  BY DEF B!TopPairTimer
<1>2. top' \in TopType /\ WellServed(top') /\ top'.ctx = cx /\ top'.att = {a \in top.att : a.doc \notin docs}
  <2>1. docs \in SUBSET B!Doc
    OBVIOUS
  <2> HIDE DEF docs
  <2> QED
    BY <1>1, <2>1, DestroyPorts DEF BrokerInv
<1>3. d <= child.doc
  BY <1>1 DEF BrokerInv, Pairing
<1>4. \A e \in B!Doc : e # d => cx[e] = top.ctx[e]
  OBVIOUS
<1> HIDE DEF cx
<1>5. child.doc = d => ~child.paired /\ child.doc \notin wire.brokerOffer
  BY <1>1 DEF BrokerInv, Pairing
<1>6. child.doc \in wire.brokerOffer => cx[child.doc] = "none"
  BY <1>4, <1>5 DEF BrokerInv, Pairing
<1>7. ContextsGo(docs, cx) /\ docs \in SUBSET B!Doc
  BY <1>1, <1>2, <1>3, <1>4, <1>5, <1>6 DEF ContextsGo
<1> QED
  BY <1>1, <1>2, <1>7, ContextStep

-----------------------------------------------------------------------------
(* The child's requests *)

\* The child c asks for k of d.
LEMMA PostFields ==
  ASSUME NEW c \in ChildType, NEW k \in {"attach", "stale", "undo", "end", "quiet"}, NEW d \in Device
  PROVE  LET u == B!Post(c, k, d)
         IN  /\ u \in ChildType /\ u.doc = c.doc /\ u.paired = c.paired /\ u.asked = c.asked
             /\ u.attached = c.attached /\ u.crossed = c.crossed
             /\ u.pend = c.pend \cup {[r |-> c.next, k |-> k, dev |-> d]}
<1> DEFINE q == [r |-> c.next, k |-> k, dev |-> d]
           pe == c.pend \cup {q}
           nx == c.next + 1
           u == B!Post(c, k, d)
<1>1. u = [c EXCEPT !.pend = pe, !.next = nx]
  BY DEF B!Post
<1>2. q \in AskedFor /\ nx \in Nat
  BY DEF AskedFor, ChildType
<1> HIDE DEF q, nx
<1>3. pe \in SUBSET AskedFor
  BY <1>2 DEF ChildType
<1> HIDE DEF pe, u
<1>4. u \in ChildType /\ u.doc = c.doc /\ u.paired = c.paired /\ u.asked = c.asked
      /\ u.attached = c.attached /\ u.crossed = c.crossed /\ u.pend = pe
  BY <1>1, <1>2, <1>3 DEF ChildType
<1> QED
  BY <1>4 DEF u, pe, q

\* The set of what is crossed changes.
LEMMA CrossedFields ==
  ASSUME NEW c \in ChildType, NEW cr \in SUBSET Device, NEW u, u = [c EXCEPT !.crossed = cr]
  PROVE  /\ u \in ChildType /\ u.doc = c.doc /\ u.paired = c.paired /\ u.asked = c.asked
         /\ u.attached = c.attached /\ u.crossed = cr /\ u.pend = c.pend
BY DEF ChildType

LEMMA AsksFields ==
  ASSUME NEW c \in ChildType, NEW d \in Device
  PROVE  LET u == B!Asks(c, d)
         IN  /\ u \in ChildType /\ u.doc = c.doc /\ u.paired = c.paired /\ u.asked = c.asked
             /\ u.attached = c.attached /\ u.crossed = c.crossed \ {d}
             /\ u.pend = c.pend \cup {[r |-> c.next, k |-> "attach", dev |-> d]}
<1> DEFINE v == B!Post(c, "attach", d)
           u == B!Asks(c, d)
<1>1. /\ v \in ChildType /\ v.doc = c.doc /\ v.paired = c.paired /\ v.asked = c.asked
      /\ v.attached = c.attached /\ v.crossed = c.crossed
      /\ v.pend = c.pend \cup {[r |-> c.next, k |-> "attach", dev |-> d]}
  BY PostFields
<1>2. u = [v EXCEPT !.crossed = v.crossed \ {d}]
  BY DEF B!Asks
<1>3. v.crossed \ {d} \in SUBSET Device
  BY <1>1 DEF ChildType
<1> HIDE DEF v, u
<1>4. /\ u \in ChildType /\ u.doc = v.doc /\ u.paired = v.paired /\ u.asked = v.asked
      /\ u.attached = v.attached /\ u.crossed = v.crossed \ {d} /\ u.pend = v.pend
  BY <1>1, <1>2, <1>3, CrossedFields
<1> QED
  BY <1>1, <1>4 DEF u

LEMMA EndsFields ==
  ASSUME NEW c \in ChildType, NEW k \in {"undo", "end", "quiet"}, NEW d \in Device
  PROVE  LET u == B!Ends(c, k, d)
         IN  /\ u \in ChildType /\ u.doc = c.doc /\ u.paired = c.paired /\ u.asked = c.asked
             /\ u.attached = c.attached
             /\ u.crossed = IF B!Wants(c, d) THEN c.crossed \cup {d} ELSE c.crossed
             /\ u.pend = c.pend \cup {[r |-> c.next, k |-> k, dev |-> d]}
<1> DEFINE v == B!Post(c, k, d)
           u == B!Ends(c, k, d)
           cr == IF B!Wants(c, d) THEN c.crossed \cup {d} ELSE c.crossed
<1>1. /\ v \in ChildType /\ v.doc = c.doc /\ v.paired = c.paired /\ v.asked = c.asked
      /\ v.attached = c.attached /\ v.crossed = c.crossed
      /\ v.pend = c.pend \cup {[r |-> c.next, k |-> k, dev |-> d]}
  <2>1. k \in {"attach", "stale", "undo", "end", "quiet"}
    OBVIOUS
  <2> QED
    BY <2>1, PostFields
<1>2. u = [v EXCEPT !.crossed = cr]
  BY <1>1 DEF B!Ends
<1>3. cr \in SUBSET Device
  BY DEF ChildType
<1> HIDE DEF v, u, cr
<1>4. /\ u \in ChildType /\ u.doc = v.doc /\ u.paired = v.paired /\ u.asked = v.asked
      /\ u.attached = v.attached /\ u.crossed = cr /\ u.pend = v.pend
  BY <1>1, <1>2, <1>3 DEF ChildType
<1> QED
  BY <1>1, <1>4 DEF u, cr

\* A request is taken from those that wait.
LEMMA WithoutFields ==
  ASSUME BrokerInv, NEW q
  PROVE  LET u == B!Without(q)
         IN  /\ u \in ChildType /\ u.doc = child.doc /\ u.paired = child.paired /\ u.asked = child.asked
             /\ u.attached = child.attached /\ u.crossed = child.crossed /\ u.pend = child.pend \ {q}
             /\ u.next = child.next
<1> USE TypesOfBroker
<1> DEFINE pe == child.pend \ {q}
<1>1. pe \in SUBSET AskedFor /\ B!Without(q) = [child EXCEPT !.pend = pe]
  BY DEF B!Without
<1> HIDE DEF pe
<1>2. /\ B!Without(q) \in ChildType /\ B!Without(q).doc = child.doc /\ B!Without(q).paired = child.paired
      /\ B!Without(q).asked = child.asked /\ B!Without(q).attached = child.attached
      /\ B!Without(q).crossed = child.crossed /\ B!Without(q).pend = pe /\ B!Without(q).next = child.next
  BY <1>1 DEF ChildType
<1> QED
  BY <1>2 DEF pe

\* Sent changes the queue of the child's document only, by one message.
Sent(x, w, c, k, d) == x = [w EXCEPT !.up[c.doc] = Append(@, [k |-> k, r |-> c.next, dev |-> d])]
SaysOf(us, vs, doc, k, d) ==
  \E m \in UpMessage :
    /\ m.k = k /\ \A e \in Device : Concerns(m, e) <=> e = d
    /\ us = [vs EXCEPT ![doc] = Append(@, m)]

LEMMA WireSends ==
  ASSUME NEW w \in WireType, NEW c \in ChildType, NEW k \in {"attach", "detach"}, NEW d \in Device,
         NEW x, Sent(x, w, c, k, d)
  PROVE  /\ x \in WireType /\ x.down = w.down /\ x.brokerOffer = w.brokerOffer
         /\ SaysOf(x.up, w.up, c.doc, k, d)
<1> DEFINE m == [k |-> k, r |-> c.next, dev |-> d]
           up == [w.up EXCEPT ![c.doc] = Append(@, m)]
<1>1. c.next \in Nat /\ c.doc \in B!Doc /\ w.up \in [B!Doc -> Seq(UpMessage)]
  BY DEF ChildType, WireType
<1>2. m \in UpMessage /\ m.k = k /\ \A e \in Device : Concerns(m, e) <=> e = d
  BY <1>1 DEF UpMessage, Concerns
<1>3. x = [w EXCEPT !.up = up]
  BY DEF Sent, WireType
<1> HIDE DEF m
<1>4. up \in [B!Doc -> Seq(UpMessage)]
  BY <1>1, <1>2, AppendFacts
<1>6. SaysOf(up, w.up, c.doc, k, d)
  BY <1>2 DEF SaysOf
<1> HIDE DEF up
<1>5. x \in WireType /\ x.down = w.down /\ x.brokerOffer = w.brokerOffer /\ x.up = up
  BY <1>3, <1>4 DEF WireType
<1> QED
  BY <1>5, <1>6

LEMMA AttachStep ==
  ASSUME BrokerInv, NEW d \in Device, B!AttachNmBroker(d)
  PROVE  BrokerInv'
<1> USE TypesOfBroker
<1> DEFINE q == [r |-> child.next, k |-> "attach", dev |-> d]
<1>1. /\ child.paired /\ child' = B!Asks(child, d) /\ wire' = [wire EXCEPT !.up[child.doc] = Append(@, [k |-> "attach", r |-> child.next, dev |-> d])]
      /\ top' = top /\ page' = page
  BY DEF B!AttachNmBroker, B!Sends
<1>2. /\ child' \in ChildType /\ child'.doc = child.doc /\ child'.paired = child.paired
      /\ child'.asked = child.asked /\ child'.attached = child.attached /\ child'.crossed = child.crossed \ {d}
      /\ child'.pend = child.pend \cup {q}
  BY <1>1, AsksFields
<1>3. q.k = "attach" /\ q.dev = d
  OBVIOUS
<1> HIDE DEF q
<1>4. DownGoes(wire.down)
  BY DEF DownGoes
<1>9. Sent(wire', wire, child, "attach", d) /\ "attach" \in {"attach", "detach"}
  BY <1>1 DEF Sent
<1>5. /\ wire' \in WireType /\ wire'.down = wire.down /\ wire'.brokerOffer = wire.brokerOffer
      /\ SaysOf(wire'.up, wire.up, child.doc, "attach", d)
  BY <1>9, WireSends
<1>10. DownGoes(wire'.down)
  BY <1>4, <1>5
<1>6. PICK m \in UpMessage :
        /\ m.k = "attach" /\ \A e \in Device : Concerns(m, e) <=> e = d
        /\ wire'.up = [wire.up EXCEPT ![child.doc] = Append(@, m)]
  BY <1>5 DEF SaysOf
<1>7. ChildStays
  BY <1>1, <1>2, <1>5, <1>10 DEF ChildStays
<1>8. /\ d \in Wanted'
      /\ \A e \in Device : e # d => (e \in Wanted' <=> e \in Wanted) /\ (e \in child'.crossed <=> e \in child.crossed)
  BY <1>2, <1>3 DEF Wanted, B!Wants
<1> QED
  BY <1>1, <1>2, <1>6, <1>7, <1>8, ChildSends

\* The bridge c, which wants what the child wants but for d, asks for the end of d.
LEMMA EndStep ==
  ASSUME BrokerInv, child.paired, NEW d \in Device, NEW k \in {"undo", "end", "quiet"},
         NEW w \in WireType, w.up = wire.up, w.brokerOffer = wire.brokerOffer, DownGoes(w.down),
         NEW c \in ChildType, c.doc = child.doc, c.paired = child.paired, c.asked = child.asked,
         c.crossed = child.crossed,
         \A e \in Device : e # d => (B!Wants(c, e) <=> B!Wants(child, e)),
         child' = B!Ends(c, k, d), NEW b \in ChildType, b.doc = child.doc,
         Sent(wire', w, b, "detach", d),
         top' = top, page' \in PageType
  PROVE  BrokerInv'
<1> USE TypesOfBroker
<1> DEFINE q == [r |-> c.next, k |-> k, dev |-> d]
<1>1. /\ child' \in ChildType /\ child'.doc = c.doc /\ child'.paired = c.paired
      /\ child'.asked = c.asked /\ child'.attached = c.attached
      /\ child'.crossed = IF B!Wants(c, d) THEN c.crossed \cup {d} ELSE c.crossed
      /\ child'.pend = c.pend \cup {q}
  BY EndsFields
<1>2. q.k \notin {"attach", "stale"}
  OBVIOUS
<1> HIDE DEF q
<1>3. \A e \in Device : e \in Wanted' <=> B!Wants(c, e)
  BY <1>1, <1>2 DEF Wanted, B!Wants
<1>4. /\ wire' \in WireType /\ wire'.down = w.down /\ wire'.brokerOffer = wire.brokerOffer
      /\ SaysOf(wire'.up, wire.up, child.doc, "detach", d)
  <2>0. "detach" \in {"attach", "detach"}
    OBVIOUS
  <2>1. /\ wire' \in WireType /\ wire'.down = w.down /\ wire'.brokerOffer = w.brokerOffer
        /\ SaysOf(wire'.up, w.up, b.doc, "detach", d)
    BY <2>0, WireSends
  <2> QED
    BY <2>1
<1>11. DownGoes(wire'.down)
  BY <1>4
<1>5. PICK m \in UpMessage :
        /\ m.k = "detach" /\ \A e \in Device : Concerns(m, e) <=> e = d
        /\ wire'.up = [wire.up EXCEPT ![child.doc] = Append(@, m)]
  BY <1>4 DEF SaysOf
<1>6. ChildStays
  BY <1>1, <1>4, <1>11 DEF ChildStays
<1>7. \A e \in Device : e # d => (e \in Wanted' <=> e \in Wanted) /\ (e \in child'.crossed <=> e \in child.crossed)
  BY <1>1, <1>3 DEF Wanted
<1>8. d \notin Wanted' \/ d \in child'.crossed
  BY <1>1, <1>3
<1>9. child'.paired = child.paired
  BY <1>1
<1> QED
  BY <1>5, <1>6, <1>7, <1>8, <1>9, ChildSends

LEMMA DetachedFields ==
  ASSUME NEW c \in ChildType, NEW d \in Device
  PROVE  LET u == [c EXCEPT !.attached = @ \ {d}]
         IN  /\ u \in ChildType /\ u.doc = c.doc /\ u.paired = c.paired /\ u.asked = c.asked
             /\ u.crossed = c.crossed
             /\ \A e \in Device : e # d => (B!Wants(u, e) <=> B!Wants(c, e))
<1> DEFINE at == c.attached \ {d}
           u == [c EXCEPT !.attached = @ \ {d}]
<1>1. u = [c EXCEPT !.attached = at] /\ at \in SUBSET Device /\ \A e \in Device : e # d => (e \in at <=> e \in c.attached)
  BY DEF ChildType
<1> HIDE DEF at, u
<1>2. u \in ChildType /\ u.doc = c.doc /\ u.paired = c.paired /\ u.asked = c.asked
      /\ u.crossed = c.crossed /\ u.pend = c.pend /\ u.attached = at
  BY <1>1 DEF ChildType
<1>3. \A e \in Device : e # d => (B!Wants(u, e) <=> B!Wants(c, e))
  BY <1>1, <1>2 DEF B!Wants
<1> QED
  BY <1>2, <1>3 DEF u

\* detachNmBroker, of the bridge c
LEMMA DetachedStep ==
  ASSUME BrokerInv, child.paired, NEW d \in Device, NEW k \in {"undo", "end", "quiet"},
         NEW w \in WireType, w.up = wire.up, w.brokerOffer = wire.brokerOffer, DownGoes(w.down),
         NEW c \in ChildType, c.doc = child.doc, c.paired = child.paired, c.asked = child.asked,
         c.crossed = child.crossed,
         \A e \in Device : e # d => (B!Wants(c, e) <=> B!Wants(child, e)),
         B!Detach(w, c, k, d), top' = top, page' \in PageType
  PROVE  BrokerInv'
<1> DEFINE u == [c EXCEPT !.attached = @ \ {d}]
<1>1. /\ u \in ChildType /\ u.doc = c.doc /\ u.paired = c.paired /\ u.asked = c.asked
      /\ u.crossed = c.crossed
      /\ \A e \in Device : e # d => (B!Wants(u, e) <=> B!Wants(c, e))
  BY DetachedFields
<1>2. child' = B!Ends(u, k, d) /\ Sent(wire', w, u, "detach", d)
  BY DEF B!Detach, B!Sends, Sent
<1> HIDE DEF u
<1>3. /\ u.doc = child.doc /\ u.paired = child.paired /\ u.asked = child.asked /\ u.crossed = child.crossed
      /\ \A e \in Device : e # d => (B!Wants(u, e) <=> B!Wants(child, e))
  BY <1>1
<1> QED
  BY <1>1, <1>2, <1>3, EndStep

LEMMA DetachStep ==
  ASSUME BrokerInv, NEW d \in Device, B!DetachNmBroker(d)
  PROVE  BrokerInv'
<1> USE TypesOfBroker
<1>1. d \in child.attached /\ B!Detach(wire, child, "end", d) /\ top' = top /\ page' = page
  BY DEF B!DetachNmBroker
<1>2. child.paired
  BY <1>1 DEF BrokerInv, Attaching
<1>3. DownGoes(wire.down)
  BY DEF DownGoes
<1> QED
  BY <1>1, <1>2, <1>3, DetachedStep

\* The child's page, and answers that the child has read.
LEMMA PageTold ==
  ASSUME page \in PageType, NEW ds, B!HandleDataPlaneUnavailable(ds)
  PROVE  page' \in PageType
<1> DEFINE po == [d \in Device |-> IF d \in ds THEN 0 ELSE page.port[d]]
           wt == {w \in page.waiting : w.dev \notin ds}
<1>1. page' = [page EXCEPT !.port = po, !.waiting = wt]
  BY DEF B!HandleDataPlaneUnavailable
<1>2. po \in [Device -> Nat] /\ wt \in SUBSET ReportType
  BY DEF PageType
<1> HIDE DEF po, wt
<1> QED
  BY <1>1, <1>2 DEF PageType

LEMMA PageGetsPort ==
  ASSUME page \in PageType, NEW q \in AskedFor, B!HandleBrokerDataPort(q)
  PROVE  page' \in PageType
<1>1. q.dev \in Device /\ q.r \in Nat
  BY DEF AskedFor
<1>2. PICK wt : wt \in SUBSET ReportType
                /\ (page' = [page EXCEPT !.port[q.dev] = q.r, !.waiting = wt] \/ page' = [page EXCEPT !.port[q.dev] = 0])
  <2> DEFINE wt == IF page.port[q.dev] = 0 THEN page.waiting ELSE {w \in page.waiting : w.dev # q.dev}
  <2>1. wt \in SUBSET ReportType
    BY DEF PageType
  <2>2. page' = [page EXCEPT !.port[q.dev] = q.r, !.waiting = wt] \/ page' = [page EXCEPT !.port[q.dev] = 0]
    BY DEF B!HandleBrokerDataPort, PageType
  <2> HIDE DEF wt
  <2> QED
    BY <2>1, <2>2
<1>3. [page.port EXCEPT ![q.dev] = q.r] \in [Device -> Nat] /\ [page.port EXCEPT ![q.dev] = 0] \in [Device -> Nat]
  BY <1>1 DEF PageType
<1> QED
  BY <1>2, <1>3 DEF PageType

\* The child sends nothing, and wants what it wanted.
LEMMA ChildReads ==
  ASSUME BrokerInv, ChildStays, wire'.up = wire.up,
         child'.paired => top.ctx[child.doc] = "paired",
         child.paired => child'.paired,
         ~child'.paired => child'.pend = {} /\ child'.attached = {},
         Wanted' = Wanted, child'.crossed = child.crossed
  PROVE  BrokerInv'
<1> USE TypesOfBroker
<1>1. BrokerTypes' /\ WellServed(top)' /\ Pairing'
  BY ChildStaysPaired
<1>2. child'.doc = child.doc /\ top' = top
  BY DEF ChildStays
<1>3. Had' = Had
  BY <1>2 DEF Had
<1>4. Attaching'
  <2>1. PICK ws : Serves(ws)
    BY DEF BrokerInv, Attaching
  <2>2. Serves(ws)'
    BY <1>2, <1>3, <2>1 DEF Serves, Said
  <2> QED
    BY <1>2, <2>2 DEF BrokerInv, Attaching
<1> QED
  BY <1>1, <1>4 DEF BrokerInv

\* A generation begins: what the bridge c wants stays.
LEMMA SupersededFields ==
  ASSUME NEW c \in ChildType, NEW d \in Device
  PROVE  LET u == B!Superseded(c, d)
         IN  /\ u \in ChildType /\ u.doc = c.doc /\ u.paired = c.paired /\ u.asked = c.asked
             /\ u.crossed = c.crossed /\ \A e \in Device : B!Wants(u, e) <=> B!Wants(c, e)
<1> DEFINE F(q) == IF q.k = "attach" /\ q.dev = d THEN [q EXCEPT !.k = "stale"] ELSE q
           pe == {F(q) : q \in c.pend}
           u == B!Superseded(c, d)
<1>1. ASSUME NEW q \in c.pend
      PROVE  /\ F(q) \in AskedFor /\ F(q).dev = q.dev
             /\ F(q).k \in {"attach", "stale"} <=> q.k \in {"attach", "stale"}
  <2>1. q \in AskedFor
    BY DEF ChildType
  <2> QED
    BY <2>1 DEF AskedFor
<1>2. u = [c EXCEPT !.pend = pe]
  BY DEF B!Superseded
<1> HIDE DEF F
<1>3. pe \in SUBSET AskedFor
  BY <1>1
<1>4. \A e \in Device : (\E q \in pe : q.k \in {"attach", "stale"} /\ q.dev = e)
                         <=> \E q \in c.pend : q.k \in {"attach", "stale"} /\ q.dev = e
  BY <1>1
<1> HIDE DEF pe, u
<1>5. u \in ChildType /\ u.doc = c.doc /\ u.paired = c.paired /\ u.asked = c.asked
      /\ u.crossed = c.crossed /\ u.attached = c.attached /\ u.pend = pe
  BY <1>2, <1>3 DEF ChildType
<1>6. \A e \in Device : B!Wants(u, e) <=> B!Wants(c, e)
  BY <1>4, <1>5 DEF B!Wants
<1> QED
  BY <1>5, <1>6 DEF u

LEMMA OverStep ==
  ASSUME BrokerInv, NEW w \in WireType, w.up = wire.up, w.brokerOffer = wire.brokerOffer, DownGoes(w.down),
         NEW q \in child.pend, B!Over(w, q), top' = top
  PROVE  BrokerInv'
<1> USE TypesOfBroker
<1> DEFINE c == B!Without(q)
<1>1. q \in AskedFor /\ q.dev \in Device /\ child.paired
  BY DEF AskedFor, BrokerInv, Attaching
<1>2. /\ c \in ChildType /\ c.doc = child.doc /\ c.paired = child.paired /\ c.asked = child.asked
      /\ c.attached = child.attached /\ c.crossed = child.crossed /\ c.pend = child.pend \ {q}
      /\ c.next = child.next
  BY WithoutFields
<1> HIDE DEF c
<1>3. /\ \A e \in Device : e # q.dev => (B!Wants(c, e) <=> B!Wants(child, e))
      /\ q.k \notin {"attach", "stale"} => \A e \in Device : B!Wants(c, e) <=> B!Wants(child, e)
  BY <1>1, <1>2 DEF B!Wants
<1>4. CASE q.k \in {"attach", "stale"}
  <2>1. /\ child' = B!Ends(c, "undo", q.dev) /\ page' = page
        /\ Sent(wire', w, child, "detach", q.dev)
    BY <1>4 DEF B!Over, B!Sends, Sent, c
  <2>2. "undo" \in {"undo", "end", "quiet"} /\ page' \in PageType
    BY <2>1
  <2> QED
    BY <1>1, <1>2, <1>3, <2>1, <2>2, EndStep
<1>5. CASE q.k = "undo" /\ q.dev \in child.attached
  <2>1. B!Detach(w, c, "quiet", q.dev) /\ page' = page
    BY <1>5 DEF B!Over, c
  <2>2. "quiet" \in {"undo", "end", "quiet"} /\ page' \in PageType
    BY <2>1
  <2> QED
    BY <1>1, <1>2, <1>3, <2>1, <2>2, DetachedStep
<1>6. CASE q.k \notin {"attach", "stale"} /\ ~(q.k = "undo" /\ q.dev \in child.attached)
  <2>1. child' = B!Superseded(c, q.dev) /\ wire' = w
    BY <1>6 DEF B!Over, c
  <2>2. page' \in PageType
    BY <1>6, PageTold DEF B!Over
  <2>3. /\ child' \in ChildType /\ child'.doc = c.doc /\ child'.paired = c.paired /\ child'.asked = c.asked
        /\ child'.crossed = c.crossed /\ \A e \in Device : B!Wants(child', e) <=> B!Wants(c, e)
    BY <1>1, <1>2, <2>1, SupersededFields
  <2>4. ChildStays /\ wire'.up = wire.up
    BY <1>2, <2>1, <2>2, <2>3 DEF ChildStays
  <2>5. Wanted' = Wanted
    <3>1. \A e \in Device : B!Wants(child, e)' <=> B!Wants(child, e)
      BY <1>3, <1>6, <2>3 DEF B!Wants
    <3> QED
      BY <3>1 DEF Wanted
  <2>6. top.ctx[child.doc] = "paired"
    BY <1>1 DEF BrokerInv, Pairing
  <2>7. child'.paired = child.paired /\ child'.crossed = child.crossed
    BY <1>2, <2>3
  <2> QED
    BY <1>1, <2>4, <2>5, <2>6, <2>7, ChildReads
<1> QED
  BY <1>4, <1>5, <1>6

LEMMA RequestTimerStep ==
  ASSUME BrokerInv, NEW q \in child.pend, B!RequestTimer(q)
  PROVE  BrokerInv'
<1>1. B!Over(wire, q) /\ top' = top
  BY DEF B!RequestTimer
<1>2. DownGoes(wire.down)
  BY DEF DownGoes
<1> QED
  BY <1>1, <1>2, OverStep, TypesOfBroker

LEMMA ChildReceivesStep ==
  ASSUME BrokerInv, B!ChildReceives
  PROVE  BrokerInv'
<1> USE TypesOfBroker
<1> DEFINE q == wire.down[child.doc]
           dn == [wire.down EXCEPT ![child.doc] = Tail(@)]
           m == Head(q)
           w == [wire EXCEPT !.down = dn]
           asked == {x \in child.pend : x.r = m.r}
<1>1. /\ q \in Seq(DownMessage) /\ q # <<>> /\ top' = top
      /\ IF m.k = "authB" THEN B!HandleAuthB /\ wire' = w
         ELSE IF asked = {} THEN UNCHANGED <<child, page>> /\ wire' = w
         ELSE \E x \in asked : B!HandleChildBrokerMessage(w, x)
  <2>1. w = [wire EXCEPT !.down[child.doc] = Tail(@)]
    BY DEF WireType
  <2> QED
    BY <2>1 DEF B!ChildReceives
<1>2. Tail(q) \in Seq(DownMessage) /\ m \in DownMessage /\ m = q[1] /\ 1 \in DOMAIN q
      /\ \A i \in DOMAIN Tail(q) : i + 1 \in DOMAIN q /\ Tail(q)[i] = q[i + 1]
  BY <1>1, TailFacts
<1>3. dn \in [B!Doc -> Seq(DownMessage)] /\ dn[child.doc] = Tail(q)
      /\ \A d \in B!Doc : d # child.doc => dn[d] = wire.down[d]
  BY <1>2
<1>4. m.k = "authB" => top.ctx[child.doc] = "paired"
  BY <1>2 DEF BrokerInv, Pairing
<1> HIDE DEF dn, m
<1>5. DownGoes(dn)
  BY <1>2, <1>3 DEF DownGoes
<1> HIDE DEF q
<1>6. w \in WireType /\ w.up = wire.up /\ w.brokerOffer = wire.brokerOffer /\ w.down = dn
  BY <1>3 DEF WireType
<1> HIDE DEF w
<1>7. /\ child.paired => top.ctx[child.doc] = "paired"
      /\ ~child.paired => child.pend = {} /\ child.attached = {}
  BY DEF BrokerInv, Pairing, Attaching
<1>8. CASE m.k = "authB"
  <2>1. page' = page /\ wire' = w
    BY <1>1, <1>8 DEF B!HandleAuthB
  <2>2. /\ child' \in ChildType /\ child'.doc = child.doc /\ child'.asked = child.asked
        /\ child'.attached = child.attached /\ child'.pend = child.pend /\ child'.crossed = child.crossed
        /\ child.paired => child'.paired
    <3>1. CASE child.pairing
      <4>1. child' = [child EXCEPT !.pairing = FALSE, !.offer = FALSE, !.otp = FALSE, !.paired = TRUE]
        BY <1>1, <1>8, <3>1 DEF B!HandleAuthB
      <4> QED
        BY <4>1 DEF ChildType
    <3>2. CASE ~child.pairing
      BY <1>1, <1>8, <3>2 DEF B!HandleAuthB
    <3> QED
      BY <3>1, <3>2
  <2>3. Wanted' = Wanted
    BY <2>2 DEF Wanted, B!Wants
  <2>4. ChildStays
    BY <1>1, <1>5, <1>6, <2>1, <2>2 DEF ChildStays
  <2> QED
    BY <1>4, <1>6, <1>7, <1>8, <2>1, <2>2, <2>3, <2>4, ChildReads
<1>9. CASE m.k # "authB" /\ asked = {}
  <2>1. child' = child /\ page' = page /\ wire' = w
    BY <1>1, <1>9
  <2>2. Wanted' = Wanted
    BY <2>1 DEF Wanted, B!Wants
  <2>3. ChildStays
    BY <1>1, <1>5, <1>6, <2>1 DEF ChildStays
  <2> QED
    BY <1>6, <1>7, <2>1, <2>2, <2>3, ChildReads
<1>10. ASSUME NEW x \in child.pend, B!HandleChildBrokerMessage(w, x) PROVE BrokerInv'
  <2>1. x \in AskedFor /\ x.dev \in Device /\ child.paired
    BY <1>7 DEF AskedFor
  <2>2. CASE x.k \notin {"attach", "stale"}
    <3>1. B!Over(w, x)
      BY <1>10, <2>2 DEF B!HandleChildBrokerMessage
    <3> QED
      BY <1>1, <1>5, <1>6, <3>1, OverStep
  <2>3. CASE x.k \in {"attach", "stale"}
    <3> DEFINE c == B!Without(x)
               at == c.attached \cup {x.dev}
    <3>1. /\ child' = [c EXCEPT !.attached = at] /\ wire' = w /\ B!HandleBrokerDataPort(x)
      BY <1>10, <2>3 DEF B!HandleChildBrokerMessage
    <3>2. /\ c \in ChildType /\ c.doc = child.doc /\ c.paired = child.paired /\ c.asked = child.asked
          /\ c.attached = child.attached /\ c.crossed = child.crossed /\ c.pend = child.pend \ {x}
      BY WithoutFields
    <3> HIDE DEF c
    <3>3. at \in SUBSET Device /\ \A e \in Device : e \in at <=> e \in child.attached \/ e = x.dev
      BY <2>1, <3>2
    <3> HIDE DEF at
    <3>4. /\ child' \in ChildType /\ child'.doc = child.doc /\ child'.paired = child.paired
          /\ child'.asked = child.asked /\ child'.attached = at /\ child'.crossed = child.crossed
          /\ child'.pend = child.pend \ {x}
      BY <3>1, <3>2, <3>3 DEF ChildType
    <3>5. page' \in PageType
      BY <2>1, <3>1, PageGetsPort
    <3>6. ChildStays
      BY <1>1, <1>5, <1>6, <3>1, <3>4, <3>5 DEF ChildStays
    <3>7. Wanted' = Wanted
      <4>1. \A e \in Device : B!Wants(child, e)' <=> B!Wants(child, e)
        BY <2>3, <3>3, <3>4 DEF B!Wants
      <4> QED
        BY <4>1 DEF Wanted
    <3> QED
      BY <1>6, <1>7, <2>1, <3>1, <3>4, <3>6, <3>7, ChildReads
  <2> QED
    BY <2>2, <2>3
<1> QED
  BY <1>1, <1>8, <1>9, <1>10

\* A new document: nothing has been said of it, or to it.
LEMMA NavigatesStep ==
  ASSUME BrokerInv, NEW clean \in BOOLEAN, B!ChildNavigates(clean)
  PROVE  BrokerInv'
<1> USE TypesOfBroker
<1> DEFINE n == child.doc + 1
           q == wire.up[child.doc]
           closing == [k |-> "closing"]
           last == IF child.paired /\ clean THEN Append(q, closing) ELSE q
           up == [wire.up EXCEPT ![child.doc] = last]
           po == [d \in Device |-> 0]
<1>1. /\ child.doc < MaxDocs /\ child' = B!NewChild(n) /\ top' = top
      /\ wire' = [wire EXCEPT !.pairOffer = FALSE, !.candidate = FALSE, !.up = up]
      /\ page' = [page EXCEPT !.port = po, !.waiting = {}]
  BY DEF B!ChildNavigates, WireType
<1>2. n \in B!Doc /\ n > child.doc
  BY <1>1, BrokerAssumption DEF B!Doc
<1>3. closing \in UpMessage
  BY DEF UpMessage
<1>4. last \in Seq(UpMessage)
  BY <1>3, AppendFacts
<1> HIDE DEF last
<1>5. up \in [B!Doc -> Seq(UpMessage)] /\ \A d \in B!Doc : d # child.doc => up[d] = wire.up[d]
  BY <1>4
<1> HIDE DEF up
<1>6. wire' \in WireType /\ wire'.up = up /\ wire'.brokerOffer = wire.brokerOffer /\ wire'.down = wire.down
  BY <1>1, <1>5 DEF WireType
<1>7. po \in [Device -> Nat]
  OBVIOUS
<1> HIDE DEF po
<1>8. page' \in PageType
  BY <1>1, <1>7 DEF PageType
<1>9. child' = [doc |-> n, otp |-> TRUE, asked |-> FALSE, offer |-> FALSE, pairing |-> FALSE,
                paired |-> FALSE, pend |-> {}, attached |-> {}, next |-> 1, crossed |-> {}]
  BY <1>1 DEF B!NewChild
<1>10. child' \in ChildType /\ child'.doc = n /\ ~child'.paired /\ ~child'.asked
       /\ child'.pend = {} /\ child'.attached = {}
  BY <1>2, <1>9 DEF ChildType
<1>11. \A d \in B!Doc : d >= n => /\ top.ctx[d] = "none" /\ wire'.up[d] = <<>> /\ wire'.down[d] = <<>>
                                  /\ d \notin wire'.brokerOffer
  <2> SUFFICES ASSUME NEW d \in B!Doc, d >= n
               PROVE  /\ top.ctx[d] = "none" /\ wire'.up[d] = <<>> /\ wire'.down[d] = <<>>
                      /\ d \notin wire'.brokerOffer
    OBVIOUS
  <2>1. d > child.doc /\ d # child.doc
    BY <1>2
  <2> QED
    BY <1>5, <1>6, <2>1 DEF BrokerInv, Pairing
<1>12. top.ctx[n] = "none" /\ wire'.up[n] = <<>> /\ wire'.down[n] = <<>> /\ n \notin wire'.brokerOffer
  BY <1>2, <1>11
<1>13. DOMAIN <<>> = {}
  OBVIOUS
<1>14. Pairing'
  <2>1. \A d \in B!Doc : d > n => d >= n
    BY <1>2
  <2> QED
    BY <1>1, <1>10, <1>11, <1>12, <1>13, <2>1 DEF Pairing
<1>15. \A a \in top.att : a.doc \in B!Doc /\ a.doc < n
  <2>1. \A a \in top.att : a.doc \in B!Doc
    BY DEF TopType, Attachment
  <2>2. \A a \in top.att : a.doc <= child.doc
    BY DEF BrokerInv, Attaching
  <2> QED
    BY <1>2, <2>1, <2>2
<1> HIDE DEF n
<1>16. Wanted' = {} /\ Had' = {}
  BY <1>1, <1>2, <1>10, <1>15 DEF Wanted, B!Wants, Had
<1>17. Said(wire'.up[n], {}, {})
  BY <1>12, <1>13 DEF Said
<1>18. Attaching'
  <2>1. Serves({})'
    <3>1. Said(wire'.up[child'.doc], {}, Had')
      BY <1>10, <1>16, <1>17
    <3> QED
      BY <1>16, <3>1 DEF Serves, Said
  <2>2. \A a \in top.att : a.doc <= n /\ a.doc # n
    BY <1>2, <1>15
  <2> QED
    BY <1>1, <1>10, <1>12, <1>13, <2>1, <2>2 DEF Attaching
<1>19. BrokerTypes' /\ WellServed(top)'
  BY <1>1, <1>6, <1>8, <1>10 DEF BrokerInv, BrokerTypes
<1> QED
  BY <1>14, <1>18, <1>19 DEF BrokerInv

-----------------------------------------------------------------------------
(* What the top frame reads *)

\* The devices that the attachments as are of, for doc
AttachedIn(as, doc) == {d \in Device : \E a \in as : a.doc = doc /\ a.dev = d}

\* It reads the first message of doc, and answers with what is in ms.
Took(doc, ms) ==
  /\ wire.up[doc] # <<>>
  /\ \E dn \in Seq(DownMessage) :
       /\ wire' = [wire EXCEPT !.up[doc] = Tail(@), !.down[doc] = dn]
       /\ \A i \in DOMAIN dn : dn[i] \in ms \/ \E j \in DOMAIN wire.down[doc] : dn[i] = wire.down[doc][j]
  /\ child' = child /\ page' = page

LEMMA TopReads ==
  ASSUME BrokerInv, NEW doc \in B!Doc, NEW ms, Took(doc, ms), top' \in TopType, WellServed(top'),
         \A d \in B!Doc : d # doc => top'.ctx[d] = top.ctx[d],
         \A a \in Attachment : a.doc # doc => (a \in top'.att <=> a \in top.att),
         doc = child.doc =>
           /\ \A d \in Device : d \in AttachedIn(top'.att, doc) <=>
                IF Concerns(Head(wire.up[doc]), d) THEN Head(wire.up[doc]).k = "attach"
                                                   ELSE d \in AttachedIn(top.att, doc)
           /\ ~child.paired => top'.att = top.att
           /\ top.ctx[doc] = "none" => top'.ctx[doc] = "none"
           /\ top.ctx[doc] = "paired" => top'.ctx[doc] = "paired"
           /\ \A x \in ms : x.k = "authB" => top'.ctx[doc] = "paired"
  PROVE  BrokerInv'
<1> USE TypesOfBroker
<1> DEFINE q == wire.up[doc]
           up == [wire.up EXCEPT ![doc] = Tail(@)]
<1>1. PICK dn \in Seq(DownMessage) :
        /\ wire' = [wire EXCEPT !.up[doc] = Tail(@), !.down[doc] = dn]
        /\ \A i \in DOMAIN dn : dn[i] \in ms \/ \E j \in DOMAIN wire.down[doc] : dn[i] = wire.down[doc][j]
  BY DEF Took
<1>2. q \in Seq(UpMessage) /\ q # <<>> /\ child' = child /\ page' = page
  BY DEF Took
<1>3. /\ Tail(q) \in Seq(UpMessage)
      /\ \A i \in DOMAIN Tail(q) : i + 1 \in DOMAIN q /\ Tail(q)[i] = q[i + 1]
  BY <1>2, TailFacts
<1> DEFINE down == [wire.down EXCEPT ![doc] = dn]
<1>4. wire' = [wire EXCEPT !.up = up, !.down = down]
  BY <1>1 DEF WireType
<1>5. /\ up \in [B!Doc -> Seq(UpMessage)] /\ up[doc] = Tail(q) /\ down[doc] = dn
      /\ down \in [B!Doc -> Seq(DownMessage)]
      /\ \A d \in B!Doc : d # doc => up[d] = wire.up[d] /\ down[d] = wire.down[d]
  BY <1>3
<1> HIDE DEF up, down
<1>6. wire' \in WireType /\ wire'.up = up /\ wire'.down = down /\ wire'.brokerOffer = wire.brokerOffer
  BY <1>4, <1>5 DEF WireType
<1>7. BrokerTypes' /\ WellServed(top)'
  BY <1>2, <1>6 DEF BrokerInv, BrokerTypes
<1>8. doc <= child.doc
  BY <1>2 DEF BrokerInv, Pairing
<1>9. Pairing'
  <2>1. ASSUME NEW d \in B!Doc, d > child.doc
        PROVE  top'.ctx[d] = "none" /\ up[d] = <<>> /\ down[d] = <<>> /\ d \notin wire.brokerOffer
    <3>1. d # doc
      BY <1>8, <2>1
    <3> QED
      BY <1>5, <2>1, <3>1 DEF BrokerInv, Pairing
  <2>2. /\ child.doc \in wire.brokerOffer => top'.ctx[child.doc] = "none"
        /\ ~child.asked => top'.ctx[child.doc] = "none" /\ child.doc \notin wire.brokerOffer
        /\ child.paired => top'.ctx[child.doc] = "paired"
    BY DEF BrokerInv, Pairing
  <2>3. ASSUME NEW i \in DOMAIN down[child.doc], down[child.doc][i].k = "authB"
        PROVE  top'.ctx[child.doc] = "paired"
    <3>1. CASE doc = child.doc
      BY <1>1, <1>5, <2>3, <3>1 DEF BrokerInv, Pairing
    <3>2. CASE doc # child.doc
      BY <1>5, <2>3, <3>2 DEF BrokerInv, Pairing
    <3> QED
      BY <3>1, <3>2
  <2> QED
    BY <1>2, <1>6, <2>1, <2>2, <2>3 DEF Pairing
<1>10. Wanted' = Wanted
  BY <1>2 DEF Wanted, B!Wants
<1>18. PICK ws : Serves(ws)
  BY DEF BrokerInv, Attaching
<1>11. Had = AttachedIn(top.att, child.doc) /\ Had' = AttachedIn(top'.att, child.doc)
  BY <1>2 DEF Had, AttachedIn
<1>12. \A a \in top.att : a \in Attachment
  BY DEF TopType
<1>13. \A a \in top'.att : a \in Attachment
  BY DEF TopType
<1>14. Said(wire'.up[child'.doc], ws, Had')
  <2>1. Said(wire.up[child.doc], ws, AttachedIn(top.att, child.doc))
    BY <1>11, <1>18 DEF Serves
  <2>2. CASE doc = child.doc
    <3>1. Said(Tail(q), ws, AttachedIn(top'.att, doc))
      BY <1>2, <2>1, <2>2, SaidTail
    <3> QED
      BY <1>2, <1>5, <1>6, <1>11, <2>2, <3>1
  <2>3. CASE doc # child.doc
    <3>1. AttachedIn(top'.att, child.doc) = AttachedIn(top.att, child.doc)
      BY <1>12, <1>13, <2>3 DEF AttachedIn
    <3> QED
      BY <1>2, <1>5, <1>6, <1>11, <2>1, <2>3, <3>1
  <2> QED
    BY <2>2, <2>3
<1>15. ASSUME NEW i \in DOMAIN up[child.doc]
       PROVE  up[child.doc][i].k # "closing" /\ (~child.paired => up[child.doc][i].k = "authA")
  <2>1. CASE doc = child.doc
    <3>1. \A j \in DOMAIN q : q[j].k # "closing" /\ (~child.paired => q[j].k = "authA")
      BY <2>1 DEF BrokerInv, Attaching
    <3>2. up[child.doc] = Tail(q)
      BY <1>5, <2>1
    <3> HIDE DEF q
    <3>3. i + 1 \in DOMAIN q /\ Tail(q)[i] = q[i + 1]
      BY <1>3, <1>15, <3>2
    <3> QED
      BY <3>1, <3>2, <3>3
  <2>2. CASE doc # child.doc
    BY <1>5, <1>15, <2>2 DEF BrokerInv, Attaching
  <2> QED
    BY <2>1, <2>2
<1>16. ASSUME NEW a \in top'.att
       PROVE  a.doc <= child.doc /\ (~child.paired => a.doc # child.doc)
  <2>1. CASE a \in top.att
    BY <2>1 DEF BrokerInv, Attaching
  <2>2. CASE a \notin top.att
    <3>1. a.doc = doc
      BY <1>13, <1>16, <2>2
    <3> QED
      BY <1>8, <1>16, <2>2, <3>1
  <2> QED
    BY <2>1, <2>2
<1>17. Attaching'
  <2>1. Serves(ws)'
    BY <1>2, <1>10, <1>14, <1>18 DEF Serves, Said
  <2>2. ~child.paired => child.pend = {} /\ child.attached = {}
    BY DEF BrokerInv, Attaching
  <2> QED
    BY <1>2, <1>6, <1>15, <1>16, <2>1, <2>2 DEF Attaching
<1> QED
  BY <1>7, <1>9, <1>17 DEF BrokerInv

\* Its answers
LEMMA TookAndAnswered ==
  ASSUME BrokerInv, NEW doc \in B!Doc, NEW x \in DownMessage, wire.up[doc] # <<>>,
         wire' = [wire EXCEPT !.up[doc] = Tail(@), !.down[doc] = Append(@, x)],
         child' = child, page' = page
  PROVE  Took(doc, {x})
<1> USE TypesOfBroker
<1> DEFINE q == wire.down[doc]
           dn == Append(q, x)
<1>1. dn \in Seq(DownMessage) /\ DOMAIN q = 1..Len(q) /\ DOMAIN dn = 1..(Len(q) + 1) /\ Len(q) \in Nat
      /\ dn[Len(q) + 1] = x /\ \A i \in DOMAIN q : dn[i] = q[i]
  BY AppendFacts
<1>2. \A i \in DOMAIN dn : dn[i] \in {x} \/ \E j \in DOMAIN q : dn[i] = q[j]
  <2> SUFFICES ASSUME NEW i \in DOMAIN dn PROVE dn[i] \in {x} \/ \E j \in DOMAIN q : dn[i] = q[j]
    OBVIOUS
  <2> HIDE DEF dn, q
  <2>1. i = Len(q) + 1 \/ i \in DOMAIN q
    BY <1>1
  <2> QED
    BY <1>1, <2>1
<1>3. wire' = [wire EXCEPT !.up[doc] = Tail(@), !.down[doc] = dn]
  BY DEF WireType
<1> HIDE DEF dn
<1> QED
  BY <1>1, <1>2, <1>3 DEF Took

LEMMA TookSilently ==
  ASSUME BrokerInv, NEW doc \in B!Doc, wire.up[doc] # <<>>, B!Taken(doc), child' = child, page' = page
  PROVE  Took(doc, {})
<1> USE TypesOfBroker
<1> DEFINE q == wire.down[doc]
<1>1. wire' = [wire EXCEPT !.up[doc] = Tail(@), !.down[doc] = q]
  BY DEF B!Taken, WireType
<1>2. q \in Seq(DownMessage) /\ \A i \in DOMAIN q : \E j \in DOMAIN q : q[i] = q[j]
  OBVIOUS
<1> QED
  BY <1>1, <1>2 DEF Took

LEMMA TopReceivesStep ==
  ASSUME BrokerInv, NEW doc \in B!Doc, B!TopReceives(doc)
  PROVE  BrokerInv'
<1> USE TypesOfBroker
<1> DEFINE m == Head(wire.up[doc])
<1>1. wire.up[doc] # <<>> /\ child' = child /\ page' = page
  BY DEF B!TopReceives
<1>2. /\ m \in UpMessage /\ m = wire.up[doc][1] /\ 1 \in DOMAIN wire.up[doc]
  BY <1>1, TailFacts
<1>3. doc = child.doc => m.k # "closing" /\ (~child.paired => m.k = "authA")
  BY <1>2 DEF BrokerInv, Attaching
<1>4. B!NmAttach(doc, m) \/ B!NmDetach(doc, m) \/ B!BrokerClosing(doc, m) \/ B!FanoutAuthA(doc, m)
      \/ B!Unheard(doc)
  BY DEF B!TopReceives
<1>5. top \in TopType /\ WellServed(top) /\ Served(top, {}) /\ UsedPorts(top, {})
      /\ \A a \in top.att : a \in Attachment
  BY DEF BrokerInv, WellServed, TopType
<1>6. doc = child.doc /\ top.ctx[doc] # "paired" => ~child.paired
  BY DEF BrokerInv, Pairing
<1>7. ASSUME m.k \notin {"attach", "detach"}
      PROVE  \A d \in Device : ~Concerns(m, d)
  BY <1>7 DEF Concerns
<1>8. m.k \in {"attach", "detach"} => m.r \in Nat /\ m.dev \in Device
  BY <1>2 DEF UpMessage
<1> HIDE DEF m
<1>9. CASE B!NmAttach(doc, m)
  <2> DEFINE a0 == [doc |-> doc, dev |-> m.dev, port |-> <<doc, m.r>>]
             at == {a \in top.att : <<a.doc, a.dev>> # <<doc, m.dev>>} \cup {a0}
             op == top.open \cup {<<doc, m.r>>}
             x == [top EXCEPT !.open = op, !.att = at]
             y == [k |-> "attached", r |-> m.r]
  <2>1. m.k = "attach" /\ top.ctx[doc] = "paired" /\ top' = B!Ensure(x, m.dev)
    BY <1>9 DEF B!NmAttach
  <2>2. wire' = [wire EXCEPT !.up[doc] = Tail(@), !.down[doc] = Append(@, y)]
    BY <1>9 DEF B!NmAttach, B!Answer
  <2>3. m.r \in Nat /\ m.dev \in Device
    BY <1>8, <2>1
  <2>4. y \in DownMessage /\ y.k = "attached"
    BY <2>3 DEF DownMessage
  <2> HIDE DEF y
  <2>5. Took(doc, {y})
    BY <1>1, <2>2, <2>4, TookAndAnswered
  <2>6. a0 \in Attachment /\ a0.doc = doc /\ a0.dev = m.dev
    BY <2>3 DEF Attachment
  <2> HIDE DEF a0
  <2>7. at \in SUBSET Attachment /\ op \in SUBSET (B!Doc \X Nat)
    BY <1>5, <2>3, <2>6 DEF TopType
  <2>8. /\ a0 \in at /\ \A a \in at : a \in top.att \/ a = a0
        /\ \A a \in top.att : (a.doc # doc \/ a.dev # m.dev) => a \in at
    OBVIOUS
  <2> HIDE DEF at, op
  <2>9. x \in TopType /\ x.ctx = top.ctx /\ x.att = at /\ x.own = top.own /\ x.lost = top.lost
        /\ x.pending = top.pending /\ x.shared = top.shared
    BY <1>5, <2>7 DEF TopType
  <2> HIDE DEF x
  <2>10. Served(x, {m.dev})
    <3>1. \A w \in x.pending : \E a \in x.att : a.doc = w.doc /\ a.dev = w.dev
      <4> SUFFICES ASSUME NEW w \in top.pending PROVE \E a \in at : a.doc = w.doc /\ a.dev = w.dev
        BY <2>9
      <4>1. PICK a \in top.att : a.doc = w.doc /\ a.dev = w.dev
        BY <1>5 DEF Served
      <4> QED
        BY <2>6, <2>8, <4>1
    <3> QED
      BY <1>5, <2>1, <2>6, <2>8, <2>9, <3>1 DEF Served
  <2>11. UsedPorts(x, {m.dev}) /\ Used(x, m.dev)
    BY <1>5, <2>6, <2>8, <2>9 DEF UsedPorts, Used
  <2>12. top' \in TopType /\ top'.ctx = top.ctx /\ top'.att = at /\ WellServed(top')
    BY <2>1, <2>3, <2>9, <2>10, <2>11, EnsurePorts
  <2>13. \A a \in Attachment : a.doc # doc => (a \in top'.att <=> a \in top.att)
    BY <2>6, <2>8, <2>12
  <2>14. \A d \in Device : Concerns(m, d) <=> d = m.dev
    BY <2>1 DEF Concerns
  <2>15. ASSUME NEW d \in Device
         PROVE  d \in AttachedIn(top'.att, doc) <=>
                  IF Concerns(m, d) THEN m.k = "attach" ELSE d \in AttachedIn(top.att, doc)
    <3>1. CASE d = m.dev
      BY <2>1, <2>6, <2>8, <2>12, <2>14, <3>1 DEF AttachedIn
    <3>2. CASE d # m.dev
      BY <2>6, <2>8, <2>12, <2>14, <3>2 DEF AttachedIn
    <3> QED
      BY <3>1, <3>2
  <2>16. doc = child.doc => child.paired
    BY <1>3, <2>1
  <2> QED
    BY <2>4, <2>5, <2>12, <2>13, <2>15, <2>16, TopReads DEF m
<1>10. CASE B!NmDetach(doc, m)
  <2> DEFINE as == {a \in top.att : a.doc = doc /\ a.dev = m.dev}
             u == B!Remove(top, as)
             y == [k |-> "detached", r |-> m.r]
  <2>1. m.k = "detach" /\ top' = B!MaybeDisconnect(u, {m.dev})
    <3>1. {a \in B!Of(doc) : a.dev = m.dev} = as
      BY DEF B!Of
    <3> QED
      BY <1>10, <3>1 DEF B!NmDetach
  <2>2. wire' = [wire EXCEPT !.up[doc] = Tail(@), !.down[doc] = Append(@, y)]
    BY <1>10 DEF B!NmDetach, B!Answer
  <2>3. m.r \in Nat /\ m.dev \in Device
    BY <1>8, <2>1
  <2>4. y \in DownMessage /\ y.k = "detached"
    BY <2>3 DEF DownMessage
  <2> HIDE DEF y
  <2>5. Took(doc, {y})
    BY <1>1, <2>2, <2>4, TookAndAnswered
  <2>6. as \in SUBSET top.att
    OBVIOUS
  <2>7. u \in TopType /\ u.ctx = top.ctx /\ u.att = top.att \ as /\ WellServed(u)
    <3> HIDE DEF as
    <3> QED
      BY <1>5, <2>6, RemovePorts
  <2> HIDE DEF u
  <2>8. top' \in TopType /\ top'.ctx = top.ctx /\ top'.att = top.att \ as /\ WellServed(top')
    <3>1. Served(u, {}) /\ UsedPorts(u, {m.dev})
      BY <2>7 DEF WellServed, UsedPorts
    <3> QED
      BY <2>1, <2>7, <3>1, MaybePorts
  <2>9. \A a \in Attachment : a.doc # doc => (a \in top'.att <=> a \in top.att)
    BY <2>8
  <2>10. ASSUME NEW d \in Device
         PROVE  d \in AttachedIn(top'.att, doc) <=>
                  IF Concerns(m, d) THEN m.k = "attach" ELSE d \in AttachedIn(top.att, doc)
    <3>1. Concerns(m, d) <=> d = m.dev
      BY <2>1 DEF Concerns
    <3> QED
      BY <2>1, <2>8, <3>1 DEF AttachedIn
  <2>11. doc = child.doc => child.paired
    BY <1>3, <2>1
  <2> QED
    BY <2>4, <2>5, <2>8, <2>9, <2>10, <2>11, TopReads DEF m
<1>11. CASE B!BrokerClosing(doc, m)
  <2> DEFINE as == {a \in top.att : a.doc = doc}
  <2>1. m.k = "closing" /\ top' = B!Remove(top, as) /\ B!Taken(doc)
    BY <1>11 DEF B!BrokerClosing, B!Of
  <2>2. as \in SUBSET top.att
    OBVIOUS
  <2>3. top' \in TopType /\ top'.ctx = top.ctx /\ top'.att = top.att \ as /\ WellServed(top')
    <3> HIDE DEF as
    <3> QED
      BY <1>5, <2>1, <2>2, RemovePorts
  <2>4. \A a \in Attachment : a.doc # doc => (a \in top'.att <=> a \in top.att)
    BY <2>3
  <2>5. Took(doc, {})
    BY <1>1, <2>1, TookSilently
  <2>6. doc # child.doc
    BY <1>3, <2>1
  <2> QED
    BY <2>3, <2>4, <2>5, <2>6, TopReads
<1>12. CASE B!FanoutAuthA(doc, m)
  <2> DEFINE y == [k |-> "authB", r |-> 0]
             cx == [top.ctx EXCEPT ![doc] = "paired"]
  <2>1. m.k = "authA" /\ top.ctx[doc] = "new" /\ top' = [top EXCEPT !.ctx = cx]
    BY <1>12 DEF B!FanoutAuthA, TopType
  <2>2. wire' = [wire EXCEPT !.up[doc] = Tail(@), !.down[doc] = Append(@, y)]
    BY <1>12 DEF B!FanoutAuthA
  <2>3. y \in DownMessage
    BY DEF DownMessage
  <2> HIDE DEF y
  <2>4. Took(doc, {y})
    BY <1>1, <2>2, <2>3, TookAndAnswered
  <2>5. cx \in [B!Doc -> {"none", "new", "paired", "gone"}] /\ cx[doc] = "paired"
        /\ \A d \in B!Doc : d # doc => cx[d] = top.ctx[d]
    OBVIOUS
  <2> HIDE DEF cx
  <2>6. top' \in TopType /\ top'.ctx = cx /\ top'.att = top.att /\ top'.own = top.own /\ top'.lost = top.lost
        /\ top'.pending = top.pending /\ top'.shared = top.shared
    BY <1>5, <2>1, <2>5 DEF TopType
  <2>7. \A a \in top.att : a.doc \in B!Doc
    BY <1>5 DEF Attachment
  <2>8. WellServed(top')
    BY <1>5, <2>5, <2>6, <2>7 DEF WellServed, Served, UsedPorts, Used
  <2>9. \A d \in Device : ~Concerns(m, d)
    BY <1>7, <2>1
  <2> QED
    BY <2>1, <2>4, <2>5, <2>6, <2>8, <2>9, TopReads, ZenonT(40) DEF m
<1>13. CASE B!Unheard(doc)
  <2>1. top.ctx[doc] = "gone" /\ B!Taken(doc) /\ top' = top
    BY <1>13 DEF B!Unheard
  <2>2. Took(doc, {})
    BY <1>1, <2>1, TookSilently
  <2>3. doc = child.doc => m.k = "authA"
    BY <1>3, <1>6, <2>1
  <2>4. doc = child.doc => \A d \in Device : ~Concerns(m, d)
    BY <1>7, <2>3
  <2> QED
    BY <1>5, <2>1, <2>2, <2>4, TopReads DEF m
<1> QED
  BY <1>4, <1>9, <1>10, <1>11, <1>12, <1>13

LEMMA BrokerStep == BrokerInv /\ B!Next => BrokerInv'
<1> SUFFICES ASSUME BrokerInv, B!Next PROVE BrokerInv'
  OBVIOUS
<1>1. CASE B!HandleFanoutChildOffer \/ B!HandleFanoutPairOffer \/ B!PairTimer
  BY <1>1, ChildOfferSteps
<1>2. CASE B!HandleBrokerCandidate
  BY <1>2, BrokerCandidateStep
<1>3. CASE B!ChildReceives
  BY <1>3, ChildReceivesStep
<1>4. ASSUME NEW d \in B!Doc, B!HandleFanoutBrokerOffer(d) \/ B!TopPairTimer(d) \/ B!TopReceives(d)
      PROVE  BrokerInv'
  BY <1>4, BrokerOfferStep, TopPairTimerStep, TopReceivesStep
<1>5. ASSUME NEW d \in Device, B!AttachNmBroker(d) \/ B!DetachNmBroker(d)
      PROVE  BrokerInv'
  BY <1>5, AttachStep, DetachStep
<1>6. ASSUME NEW d \in Device,
             B!OwnPlaneOpens(d) \/ B!OwnPlaneCloses(d) \/ B!Report(d) \/ B!RuntimePortLost(d)
      PROVE  BrokerInv'
  BY <1>6, OwnPlaneSteps, ReportStep, PortLostStep
<1>7. ASSUME NEW q \in child.pend, B!RequestTimer(q) PROVE BrokerInv'
  BY <1>7, RequestTimerStep
<1>8. ASSUME NEW w \in wire.reports, B!HandleTopChildDataMessage(w) PROVE BrokerInv'
  BY <1>8, TopDataMessageStep
<1>9. ASSUME NEW w \in top.pending, B!ReportAnswered(w) PROVE BrokerInv'
  BY <1>9, ReportAnsweredStep
<1>10. ASSUME NEW clean \in BOOLEAN, B!ChildNavigates(clean) PROVE BrokerInv'
  BY <1>10, NavigatesStep
<1> QED
  BY <1>1, <1>2, <1>3, <1>4, <1>5, <1>6, <1>7, <1>8, <1>9, <1>10 DEF B!Next

LEMMA BrokerStays == BrokerInv /\ UNCHANGED brokerVars => BrokerInv'
<1> SUFFICES ASSUME BrokerInv, UNCHANGED brokerVars PROVE BrokerInv'
  OBVIOUS
<1>1. child' = child /\ top' = top /\ wire' = wire /\ page' = page
  BY DEF brokerVars
<1>2. top \in TopType /\ WellServed(top) /\ wire \in WireType /\ page \in PageType
  BY DEF BrokerInv, BrokerTypes
<1> QED
  BY <1>1, <1>2, PortsStep

LEMMA BrokerInvariant == CarriersSpec => []BrokerInv
<1>1. CarriersInit => BrokerInv
  BY BrokerInit DEF CarriersInit
<1>2. BrokerInv /\ [CarriersNext]_CarriersVars => BrokerInv'
  BY CarriersSteps, BrokerStep, BrokerStays
<1> QED
  BY <1>1, <1>2, PTL DEF CarriersSpec

\* The broker of a child frame (bridge.js, handleTopBrokerMessage and
\* handleChildBrokerMessage): a child that has paired has a partner that has; when
\* nothing is under way the top frame serves nothing the child has not attached, and
\* all it has, unless a detachment crossed an attachment of the same device (the
\* requests name the device, not the attachment); and the top frame keeps a runtime
\* port for its users only, whatever timers run out, documents go and ports are lost
\* on the way.
THEOREM TheBridgesAgree == CarriersSpec => []BridgesAgree
<1>1. BrokerInv => BridgesAgree
  <2> SUFFICES ASSUME BrokerInv PROVE BridgesAgree
    OBVIOUS
  <2> USE TypesOfBroker
  <2>1. B!PairedTogether
    BY DEF B!PairedTogether, BrokerInv, Pairing
  <2>2. B!AttachmentsAgree
    <3> SUFFICES ASSUME B!Quiet, child.paired
                 PROVE  B!Served \subseteq child.attached /\ child.attached \ child.crossed \subseteq B!Served
      BY DEF B!AttachmentsAgree
    <3>1. child.pend = {} /\ wire.up[child.doc] = <<>>
      BY DEF B!Quiet
    <3>2. PICK ws : Serves(ws)
      BY DEF BrokerInv, Attaching
    <3>3. \A d \in Device : d \in Had <=> d \in ws
      <4>1. DOMAIN <<>> = {}
        OBVIOUS
      <4> QED
        BY <3>1, <3>2, <4>1 DEF Serves, Said
    <3>4. \A d \in Device : d \in Wanted <=> d \in child.attached
      BY <3>1 DEF Wanted, B!Wants
    <3>5. \A a \in top.att : a.dev \in Device
      BY DEF TopType, Attachment
    <3>6. B!Served = Had
      BY <3>5 DEF Had, B!Of, B!Served
    <3> QED
      BY <3>2, <3>3, <3>4, <3>6 DEF Had, Serves
  <2>3. B!PortForItsUsers
    <3>1. Served(top, {}) /\ UsedPorts(top, {})
      BY DEF BrokerInv, WellServed
    <3>2. ASSUME NEW c \in B!Doc, top.ctx[c] = "gone"
          PROVE  B!Of(c) = {} /\ \A w \in top.pending : w.doc # c
      <4>1. \A a \in top.att : a.doc # c
        BY <3>1, <3>2 DEF Served
      <4>2. \A w \in top.pending : w.doc # c
        BY <3>1, <4>1 DEF Served
      <4> QED
        BY <4>1, <4>2 DEF B!Of
    <3>3. ASSUME NEW d \in Device
          PROVE  LET attached == d \in top.own \/ \E a \in top.att : a.dev = d
                 IN  /\ d \in top.shared => attached \/ \E w \in top.pending : w.dev = d
                     /\ attached => d \in top.shared \cup top.lost
      BY <3>1 DEF Served, UsedPorts, Used
    <3> QED
      BY <3>2, <3>3 DEF B!PortForItsUsers
  <2> QED
    BY <2>1, <2>2, <2>3 DEF BridgesAgree
<1> QED
  BY <1>1, BrokerInvariant, PTL

-----------------------------------------------------------------------------
(* The device: what DeviceIo guarantees, it guarantees among the carriers. *)

LEMMA DevicePart == CarriersSpec => Spec
<1>1. CarriersInit => Init
  BY DEF CarriersInit
<1>2. [CarriersNext]_CarriersVars => [Next]_ioVars
  BY CarriersSteps
<1> QED
  BY <1>1, <1>2, PTL DEF CarriersSpec, Spec

\* A stop that has returned leaves no command waiting and no thread of the
\* lifetime running (device_mgr.rs, stop_entry): DeviceIoProofs.
THEOREM StopsStayClean == CarriersSpec => []StopsAreClean
<1>1. IoInv => TypeOK
  BY DEF IoInv
<1> QED
  BY <1>1, DevicePart, IoInvariant, StopsAreOver, PTL DEF StopsAreClean
=============================================================================
