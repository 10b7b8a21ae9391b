------------------------------- MODULE NmBroker -------------------------------
(***************************************************************************)
(* The native messaging broker (addon/js/content/isolated/bridge.js): the  *)
(* bridge of the top frame carries the reports of a child frame of its     *)
(* origin.  The two bridges pair over a private port, after an offer the   *)
(* background made to both; the child then attaches a data port for each   *)
(* device it opens, and the top frame serves all of them, and its own      *)
(* device, from one runtime port per device.                               *)
(*                                                                         *)
(* The child frame is replaced by new documents; timers of either side run *)
(* out at any moment; the background may drop a runtime port.  A document  *)
(* pairs at most once, so the port of document d is called d.              *)
(*                                                                         *)
(* Nothing keeps two attachments of a device apart: an open, a plane that  *)
(* did not become ready and a changed setting each start one, whatever is  *)
(* pending, and a detach names the device, not the attachment it ends.     *)
(***************************************************************************)
EXTENDS Integers, Sequences

CONSTANTS
  Device,
  MaxDocs,      \* bound: documents of the child frame
  MaxRequests,  \* bound: broker requests of each document
  MaxReports    \* bound: reports of the child's page

VARIABLES
  child,  \* the bridge of the child's current document
  top,    \* the bridge of the top frame
  wire,   \* what is under way
  page    \* the child's page: data ports, reports without an answer

vars == <<child, top, wire, page>>

Doc == 1..MaxDocs

-----------------------------------------------------------------------------
(* The top frame's runtime ports *)

\* maybeDisconnectRuntimeDataPort, for the devices ds
MaybeDisconnect(t, ds) ==
  LET used(d) == d \in t.own \/ (\E a \in t.att : a.dev = d) \/ (\E w \in t.pending : w.dev = d)
  IN  [t EXCEPT !.shared = {d \in @ : d \in ds => used(d)}]

\* ensureRuntimeDataPort
Ensure(t, d) == [t EXCEPT !.shared = @ \cup {d}, !.lost = @ \ {d}]

\* Attachments as are removed, with the requests they carried; their ports close.
Remove(t, as) ==
  LET left == [t EXCEPT !.att = @ \ as, !.open = @ \ {a.port : a \in as},
                        !.pending = {w \in @ : \A a \in as : <<w.doc, w.dev>> # <<a.doc, a.dev>>}]
  IN  MaybeDisconnect(left, {a.dev : a \in as})

Of(doc) == {a \in top.att : a.doc = doc}

\* destroyFrameContext, for the context of a child's document.  The child is sent
\* nmPlaneUnavailable under the top frame's key, which it does not have.
Destroy(t, docs) ==
  [Remove(t, {a \in t.att : a.doc \in docs}) EXCEPT
     !.ctx = [d \in Doc |-> IF d \in docs THEN "gone" ELSE @[d]]]

-----------------------------------------------------------------------------
(* Pairing *)

NewChild(d) ==
  [doc |-> d, otp |-> TRUE, asked |-> FALSE, offer |-> FALSE, pairing |-> FALSE, paired |-> FALSE,
   pend |-> {}, attached |-> {}, next |-> 1, crossed |-> {}]

\* startLocal's offer, and the background's handleFanoutChildOffer
HandleFanoutChildOffer ==
  /\ child.otp /\ ~child.asked
  /\ child' = [child EXCEPT !.asked = TRUE]
  /\ wire' = [wire EXCEPT !.pairOffer = TRUE, !.brokerOffer = @ \cup {child.doc}]
  /\ UNCHANGED <<top, page>>

HandleFanoutPairOffer ==
  /\ wire.pairOffer
  /\ wire' = [wire EXCEPT !.pairOffer = FALSE]
  /\ child' = [child EXCEPT !.offer = child.otp]
  /\ UNCHANGED <<top, page>>

\* The document may have gone since; contexts of earlier documents of the frame go.
HandleFanoutBrokerOffer(d) ==
  /\ d \in wire.brokerOffer
  /\ IF d = child.doc
     THEN /\ top' = [Destroy(top, {e \in Doc : e # d /\ top.ctx[e] \in {"new", "paired"}})
                       EXCEPT !.ctx[d] = "new"]
          /\ wire' = [wire EXCEPT !.brokerOffer = @ \ {d}, !.candidate = TRUE]
     ELSE wire' = [wire EXCEPT !.brokerOffer = @ \ {d}] /\ UNCHANGED top
  /\ UNCHANGED <<child, page>>

\* handleFanoutBrokerCandidate of both pages, handleBrokerCandidate, startBrokerPairing:
\* a candidate that comes before its offer is closed.
HandleBrokerCandidate ==
  /\ wire.candidate
  /\ IF child.offer /\ ~child.paired /\ ~child.pairing
     THEN /\ child' = [child EXCEPT !.pairing = TRUE]
          /\ wire' = [wire EXCEPT !.candidate = FALSE, !.up[child.doc] = Append(@, [k |-> "authA"])]
     ELSE wire' = [wire EXCEPT !.candidate = FALSE] /\ UNCHANGED child
  /\ UNCHANGED <<top, page>>

\* invalidateBrokerPairOffer, from the timer of five seconds
PairTimer ==
  /\ child.pairing
  /\ child' = [child EXCEPT !.pairing = FALSE, !.offer = FALSE, !.otp = FALSE]
  /\ UNCHANGED <<top, wire, page>>

\* The top frame's timer
TopPairTimer(d) ==
  /\ top.ctx[d] = "new"
  /\ top' = Destroy(top, {d})
  /\ UNCHANGED <<child, wire, page>>

-----------------------------------------------------------------------------
(* The child's requests *)

\* sendBrokerRequest, in the bridge c: a request of kind k about d
Post(c, k, d) == [c EXCEPT !.pend = @ \cup {[r |-> c.next, k |-> k, dev |-> d]}, !.next = @ + 1]
Sends(w, c, k, d) == wire' = [w EXCEPT !.up[c.doc] = Append(@, [k |-> k, r |-> c.next, dev |-> d])]

\* The bridge c has d attached, or has asked for it.
Wants(c, d) == d \in c.attached \/ \E q \in c.pend : q.k \in {"attach", "stale"} /\ q.dev = d

\* An attachment is asked for, or ended.  Crossed (history): an end was asked for
\* while the bridge wanted the device for another plane.
Asks(c, d) == [Post(c, "attach", d) EXCEPT !.crossed = @ \ {d}]
Ends(c, k, d) == [Post(c, k, d) EXCEPT !.crossed = IF Wants(c, d) THEN @ \cup {d} ELSE @]

\* attachNmBroker, for a plane that opens
AttachNmBroker(d) ==
  /\ child.paired /\ child.next <= MaxRequests[child.doc]
  /\ child' = Asks(child, d) /\ Sends(wire, child, "attach", d)
  /\ UNCHANGED <<top, page>>

\* detachNmBroker, for a plane that ends; despawnDataPlane goes on when it is over.
Detach(w, c, k, d) ==
  LET left == [c EXCEPT !.attached = @ \ {d}]
  IN  child' = Ends(left, k, d) /\ Sends(w, left, "detach", d)

DetachNmBroker(d) ==
  /\ d \in child.attached
  /\ Detach(wire, child, "end", d)
  /\ UNCHANGED <<top, page>>

\* despawnDataPlane begins a generation: planes that are being attached are behind it.
Superseded(c, d) ==
  [c EXCEPT !.pend = {IF q.k = "attach" /\ q.dev = d THEN [q EXCEPT !.k = "stale"] ELSE q : q \in @}]

\* A data port for d came, over request q: the page takes it, unless it has closed
\* the device or knows of a later plane; the reports over the one before it fail.
HandleBrokerDataPort(q) ==
  \/ /\ q.k = "stale" => page.port[q.dev] # 0
     /\ page' = [page EXCEPT !.port[q.dev] = q.r,
                             !.waiting = IF page.port[q.dev] = 0 THEN @ ELSE {w \in @ : w.dev # q.dev}]
  \/ page' = [page EXCEPT !.port[q.dev] = 0]

\* The page is told that planes have ended: it rejects their reports.
HandleDataPlaneUnavailable(ds) ==
  page' = [page EXCEPT !.port = [d \in Device |-> IF d \in ds THEN 0 ELSE @[d]],
                       !.waiting = {w \in @ : w.dev \notin ds}]

Without(q) == [child EXCEPT !.pend = @ \ {q}]

\* The request q is over without an attachment, and w is under way.  One for an
\* attachment is taken back; what follows ends the plane that the device has by then,
\* of which the page is not told.
Over(w, q) ==
  IF q.k \in {"attach", "stale"}
  THEN child' = Ends(Without(q), "undo", q.dev) /\ Sends(w, child, "detach", q.dev) /\ UNCHANGED page
  ELSE IF q.k = "undo" /\ q.dev \in child.attached
  THEN Detach(w, Without(q), "quiet", q.dev) /\ UNCHANGED page
  ELSE /\ child' = Superseded(Without(q), q.dev) /\ wire' = w
       /\ IF q.k = "end" THEN HandleDataPlaneUnavailable({q.dev}) ELSE UNCHANGED page

RequestTimer(q) ==
  /\ q \in child.pend
  /\ Over(wire, q)
  /\ UNCHANGED top

\* The handler of startBrokerPairing: fanoutAuthB.
HandleAuthB ==
  /\ child' = IF child.pairing THEN [child EXCEPT !.pairing = FALSE, !.offer = FALSE,
                                                   !.otp = FALSE, !.paired = TRUE]
              ELSE child
  /\ UNCHANGED page

\* handleChildBrokerMessage, and what waits for the answer to q.
HandleChildBrokerMessage(w, q) ==
  IF q.k \in {"attach", "stale"}
  THEN /\ child' = [Without(q) EXCEPT !.attached = @ \cup {q.dev}] /\ wire' = w
       /\ HandleBrokerDataPort(q)
  ELSE Over(w, q)

ChildReceives ==
  /\ wire.down[child.doc] # <<>>
  /\ LET m == Head(wire.down[child.doc])
         w == [wire EXCEPT !.down[child.doc] = Tail(@)]
         asked == {q \in child.pend : q.r = m.r}
     IN  IF m.k = "authB" THEN HandleAuthB /\ wire' = w
         ELSE IF asked = {} THEN UNCHANGED <<child, page>> /\ wire' = w
         ELSE \E q \in asked : HandleChildBrokerMessage(w, q)
  /\ UNCHANGED top

\* The child's document goes: destroyFrameContext of its bridge, unless the
\* process ended without it.
ChildNavigates(clean) ==
  /\ child.doc < MaxDocs
  /\ child' = NewChild(child.doc + 1)
  /\ wire' = [wire EXCEPT !.pairOffer = FALSE, !.candidate = FALSE,
                !.up[child.doc] = IF child.paired /\ clean THEN Append(@, [k |-> "closing"]) ELSE @]
  /\ page' = [page EXCEPT !.port = [d \in Device |-> 0], !.waiting = {}]
  /\ UNCHANGED top

-----------------------------------------------------------------------------
(* The top frame *)

Answer(doc, k, m) == wire' = [wire EXCEPT !.up[doc] = Tail(@), !.down[doc] = Append(@, [k |-> k, r |-> m.r])]
Taken(doc) == wire' = [wire EXCEPT !.up[doc] = Tail(@)]

\* handleTopBrokerMessage: nmAttach
NmAttach(doc, m) ==
  /\ m.k = "attach" /\ top.ctx[doc] = "paired"
  /\ top' = Ensure([top EXCEPT !.open = @ \cup {<<doc, m.r>>},
                               !.att = {a \in @ : <<a.doc, a.dev>> # <<doc, m.dev>>}
                                       \cup {[doc |-> doc, dev |-> m.dev, port |-> <<doc, m.r>>]}], m.dev)
  /\ Answer(doc, "attached", m)

\* (wrong variant) the attachment stays.
NmDetachSilent(doc, m) ==
  /\ m.k = "detach" /\ top.ctx[doc] = "paired"
  /\ top' = MaybeDisconnect([top EXCEPT !.open = {p \in @ : p[2] # m.r}], {m.dev})
  /\ Answer(doc, "detached", m)

\* handleTopBrokerMessage: nmDetach
NmDetach(doc, m) ==
  /\ m.k = "detach" /\ top.ctx[doc] = "paired"
  /\ top' = MaybeDisconnect(Remove(top, {a \in Of(doc) : a.dev = m.dev}), {m.dev})
  /\ Answer(doc, "detached", m)

\* handleTopBrokerMessage: brokerClosing
BrokerClosing(doc, m) ==
  /\ m.k = "closing" /\ top.ctx[doc] = "paired"
  /\ top' = Remove(top, Of(doc))
  /\ Taken(doc)

\* fanoutAuthA
FanoutAuthA(doc, m) ==
  /\ m.k = "authA" /\ top.ctx[doc] = "new"
  /\ top' = [top EXCEPT !.ctx[doc] = "paired"]
  /\ wire' = [wire EXCEPT !.up[doc] = Tail(@), !.down[doc] = Append(@, [k |-> "authB", r |-> 0])]

\* The context has gone.
Unheard(doc) == top.ctx[doc] = "gone" /\ Taken(doc) /\ UNCHANGED top

TopReceives(doc) ==
  /\ wire.up[doc] # <<>>
  /\ LET m == Head(wire.up[doc])
     IN  NmAttach(doc, m) \/ NmDetach(doc, m) \/ BrokerClosing(doc, m) \/ FanoutAuthA(doc, m) \/ Unheard(doc)
  /\ UNCHANGED <<child, page>>

\* The top frame opens and closes the device itself.
OwnPlaneOpens(d) ==
  /\ d \notin top.own
  /\ top' = Ensure([top EXCEPT !.own = @ \cup {d}], d)
  /\ UNCHANGED <<child, wire, page>>

OwnPlaneCloses(d) ==
  /\ d \in top.own
  /\ top' = MaybeDisconnect([top EXCEPT !.own = @ \ {d}], {d})
  /\ UNCHANGED <<child, wire, page>>

-----------------------------------------------------------------------------
(* Reports of the child's page *)

Report(d) ==
  /\ page.port[d] # 0 /\ page.sent < MaxReports
  /\ LET w == [n |-> page.sent + 1, doc |-> child.doc, dev |-> d, port |-> <<child.doc, page.port[d]>>]
     IN  /\ page' = [page EXCEPT !.sent = @ + 1, !.waiting = @ \cup {w}]
         /\ wire' = [wire EXCEPT !.reports = @ \cup {w}]
  /\ UNCHANGED <<child, top>>

Answered(ws) == page' = [page EXCEPT !.waiting = @ \ ws]

\* handleTopChildDataMessage; nothing is heard on a port that was closed.
HandleTopChildDataMessage(w) ==
  /\ w \in wire.reports
  /\ wire' = [wire EXCEPT !.reports = @ \ {w}]
  /\ IF w.port \notin top.open THEN UNCHANGED <<top, page>>
     ELSE IF \E a \in Of(w.doc) : a.dev = w.dev
     THEN top' = Ensure([top EXCEPT !.pending = @ \cup {w}], w.dev) /\ UNCHANGED page
     ELSE UNCHANGED top /\ Answered({w})
  /\ UNCHANGED child

\* The runtime port brings the answer.
ReportAnswered(w) ==
  /\ w \in top.pending /\ w.dev \in top.shared
  /\ top' = MaybeDisconnect([top EXCEPT !.pending = @ \ {w}], {w.dev})
  /\ Answered({w})
  /\ UNCHANGED <<child, wire>>

\* The runtime port is disconnected: attached pages are told, reports are answered.
RuntimePortLost(d) ==
  /\ d \in top.shared
  /\ LET ws == {w \in top.pending : w.dev = d}
     IN  /\ top' = [top EXCEPT !.shared = @ \ {d}, !.lost = @ \cup {d}, !.pending = @ \ ws]
         /\ Answered(ws)
  /\ UNCHANGED <<child, wire>>

-----------------------------------------------------------------------------
Init ==
  /\ child = NewChild(1)
  /\ top = [ctx |-> [d \in Doc |-> "none"], att |-> {}, open |-> {}, own |-> {}, shared |-> {},
            lost |-> {}, pending |-> {}]
  /\ wire = [pairOffer |-> FALSE, brokerOffer |-> {}, candidate |-> FALSE, reports |-> {},
             up |-> [d \in Doc |-> <<>>], down |-> [d \in Doc |-> <<>>]]
  /\ page = [port |-> [d \in Device |-> 0], sent |-> 0, waiting |-> {}]

Next ==
  \/ HandleFanoutChildOffer \/ HandleFanoutPairOffer \/ HandleBrokerCandidate \/ PairTimer \/ ChildReceives
  \/ \E d \in Doc : HandleFanoutBrokerOffer(d) \/ TopPairTimer(d) \/ TopReceives(d)
  \/ \E d \in Device : AttachNmBroker(d) \/ DetachNmBroker(d) \/ OwnPlaneOpens(d) \/ OwnPlaneCloses(d)
                       \/ Report(d) \/ RuntimePortLost(d)
  \/ \E q \in child.pend : RequestTimer(q)
  \/ \E w \in wire.reports : HandleTopChildDataMessage(w)
  \/ \E w \in top.pending : ReportAnswered(w)
  \/ \E clean \in BOOLEAN : ChildNavigates(clean)

Spec == Init /\ [][Next]_vars

-----------------------------------------------------------------------------
(* Properties *)

\* A child that has paired has a partner that has: it does not hand its planes to
\* a port nobody listens to.
PairedTogether == child.paired => top.ctx[child.doc] = "paired"

Quiet == /\ child.pend = {} /\ wire.reports = {}
         /\ \A d \in Doc : wire.up[d] = <<>>

Served == {a.dev : a \in Of(child.doc)}

\* At rest the top frame serves nothing the child has not attached, and what the child
\* has attached, unless the end of one plane crossed the attachment of the next.
AttachmentsAgree ==
  Quiet /\ child.paired => Served \subseteq child.attached /\ child.attached \ child.crossed \subseteq Served

\* (docs/DATA_PATH.md:69) The loss of an attachment makes the plane unavailable: at
\* rest the page has no data port that the top frame does not serve.
LossEndsThePlane ==
  Quiet /\ child.paired => \A d \in Device : page.port[d] # 0 => d \in Served

\* The runtime port of a device is there for as long as somebody uses it, and no
\* longer, and a context that has gone uses none.
PortForItsUsers ==
  /\ \A d \in Device :
       LET attached == d \in top.own \/ \E a \in top.att : a.dev = d
       IN  /\ d \in top.shared => attached \/ \E w \in top.pending : w.dev = d
           /\ attached => d \in top.shared \cup top.lost
  /\ \A c \in Doc : top.ctx[c] = "gone" => Of(c) = {} /\ (\A w \in top.pending : w.doc # c)

\* A report of the page is answered, or its plane ends, unless that end has crossed
\* the attachment of another plane of the device.
ReportsEnd ==
  \A n \in 1..MaxReports :
    (\E w \in page.waiting : w.n = n) ~> \A w \in page.waiting : w.n = n => w.dev \in child.crossed
==============================================================================
