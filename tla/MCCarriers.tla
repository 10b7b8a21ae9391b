------------------------------ MODULE MCCarriers ------------------------------
(***************************************************************************)
(* What carries the reports of a page: the data worker, over a WebSocket   *)
(* or a WebTransport, the native messaging broker, and the threads of the  *)
(* daemon that call the device.  A behaviour is about one of them, chosen  *)
(* at the start.                                                           *)
(***************************************************************************)
EXTENDS DeviceIo

CONSTANTS
  Device, MaxDocs, MaxRequests, MaxReports,        \* the broker
  MaxPreOpen, MaxConnections, MaxWorkerRequests,   \* the worker
  c1, c2                                           \* two clients of the daemon

\* A plan of DeviceIo: who opens, how many lifetimes and authorities there are,
\* and the limits that are not zero.
Plan(cs, l, a, limits) ==
  [clients |-> cs, lives |-> l, auths |-> a]
    @@ [b \in {"connects", "switches", "cmds", "inputs", "failures"} |->
          IF b \in DOMAIN limits THEN limits[b] ELSE 0]

IoPlans ==
  { Plan({c1}, 2, 3, [connects |-> 1, cmds |-> 1]),       \* a connection over two lifetimes
    Plan({c1}, 2, 2, [inputs |-> 2]),                     \* a late report, a full sink
    Plan({c1, c2}, 1, 2, [cmds |-> 2]),                   \* a full queue
    Plan({c1, c2}, 1, 2, [inputs |-> 2]),
    Plan({c1}, 1, 3, [connects |-> 1, cmds |-> 2]),
    Plan({c1}, 1, 3, [switches |-> 1, cmds |-> 1, inputs |-> 1, failures |-> 1]) }

VARIABLES
  part,
  child, top, wire, page,
  conns, t, worker, answers

\* A child frame has a document.
ASSUME BrokerAssumption == MaxDocs \in Nat \ {0}

\* Three requests of the first document, one of the next.
BrokerRequests == <<3, 1>>

B == INSTANCE NmBroker
W == INSTANCE DataWorker WITH MaxRequests <- MaxWorkerRequests

brokerVars == <<child, top, wire, page>>
workerVars == <<conns, t, worker, answers>>
CarriersVars == <<part, brokerVars, workerVars, ioVars>>

\* Parts that a behaviour is not about start in one state.
CarriersInit ==
  /\ B!Init /\ W!Init /\ Init
  /\ part \in {"broker", "worker", "device"}
  /\ part # "worker" => t.kind = "ws"
  /\ part # "device" => bound = Plan({c1}, 2, 2, [inputs |-> 2])

\* The steps of each component, in its part.
Broker(A) == part = "broker" /\ A /\ UNCHANGED <<part, workerVars, ioVars>>
Worker(A) == part = "worker" /\ A /\ UNCHANGED <<part, brokerVars, ioVars>>
DeviceIo(A) == part = "device" /\ A /\ UNCHANGED <<part, brokerVars, workerVars>>

CarriersNext == Broker(B!Next) \/ Worker(W!Next) \/ DeviceIo(Next)

CarriersSpec ==
  /\ CarriersInit /\ [][CarriersNext]_CarriersVars
  /\ WF_brokerVars(Broker(B!ChildReceives))
  /\ WF_brokerVars(Broker(\E q \in child.pend : B!RequestTimer(q)))
  /\ WF_brokerVars(Broker(\E d \in B!Doc : B!TopReceives(d)))
  /\ WF_brokerVars(Broker(\E w \in wire.reports : B!HandleTopChildDataMessage(w)))
  /\ WF_brokerVars(Broker(\E w \in top.pending : B!ReportAnswered(w)))
  /\ WF_workerVars(Worker(W!Connect))
  /\ WF_workerVars(Worker(W!ReconnectTimer))
  /\ WF_workerVars(Worker(W!SomeRequestSettles))
  /\ \A c \in 1..MaxConnections : WF_workerVars(Worker(W!CurrentComes(c)))

\* DataWorker: requests are answered once each and sent in order; what is in
\* flight can be answered, by one transport that is replaced when it fails.
RequestsKept == W!TypeOK /\ W!EachAnsweredOnce /\ W!OrderKept /\ W!InFlightOnOpen /\ W!OneTransport

\* NmBroker: a child that has paired has a partner that has; the top frame serves
\* nothing the child has given up, and all it has, but for ends that crossed an
\* attachment; the runtime ports serve exactly those attached.
BridgesAgree == B!PairedTogether /\ B!AttachmentsAgree /\ B!PortForItsUsers

\* (docs/DATA_PATH.md:69) A plane whose attachment is lost is unavailable.
LossEndsThePlane == B!LossEndsThePlane

\* DeviceIo: a stop that has returned leaves nothing of its lifetime running.
StopsAreClean == TypeOK /\ StoppedIsOver

\* Requests and reports end, with either carrier of the page.
CarriersEnd == W!RequestsSettle /\ B!ReportsEnd
===============================================================================
