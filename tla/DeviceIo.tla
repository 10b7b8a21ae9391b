------------------------------- MODULE DeviceIo -------------------------------
(***************************************************************************)
(* Reports of one device in the daemon (crates/webhid-daemon/src/          *)
(* device_mgr.rs): the I/O worker of a physical lifetime and its bounded   *)
(* queue, the commands that NM requests and WS/WT connections enqueue, the *)
(* reader that pushes input into the bounded sinks of the clients, and the *)
(* end of a lifetime, which joins both threads.                            *)
(*                                                                         *)
(* Sessions are only what they decide here: each client has at most one,   *)
(* in mode "nm" or "transport", and an open is one step; DeviceManager     *)
(* models how they are opened and closed.                                  *)
(* A step is one critical section, one channel operation or one HID call   *)
(* of a thread or task.  Lifetimes, authorities and commands are numbered  *)
(* as they are made; 0 is none of them.                                    *)
(***************************************************************************)
EXTENDS Integers, SequencesExt

CONSTANTS
  Client, None,
  MaxLives, MaxAuths, MaxCommands,   \* bounds: what is numbered
  MaxQueue, MaxSink,                 \* capacities: 128 and 1024 in the code
  Plans                              \* bounds of a behaviour: see Bounded

\* What a plan bounds; it also names the clients there are.
Bounded == {"lives", "auths", "connects", "switches", "cmds", "inputs", "failures"}

ASSUME PlansAssumption ==
  \A p \in Plans : /\ p.clients \subseteq Client
                   /\ p.lives \in 0..MaxLives /\ p.auths \in 0..MaxAuths /\ p.cmds \in 0..MaxCommands
                   /\ \A b \in Bounded : p[b] \in Nat
ASSUME LimitAssumption ==
  MaxLives \in Nat /\ MaxAuths \in Nat /\ MaxCommands \in Nat /\ MaxSink \in Nat /\ None \notin Client

VARIABLES
  session,   \* client -> mode of its session on the device, or "none"
  entry,     \* the published lifetime
  auth,      \* the NM bindings and the capabilities of connections
  hot,       \* nm_hot: client -> its binding
  cap,       \* transport_validity: client -> its capability
  links,     \* capabilities whose WS or WT connection is up
  lives,     \* physical lifetimes: their queue and threads, the progress of the stop
  cmds,      \* commands
  client,    \* client -> its request task, and its writer's queue
  made,      \* how many there were of what is bounded
  bound      \* the plan the behaviour stays in

authority == <<session, entry, auth, hot, cap, links>>
ioVars == <<session, entry, auth, hot, cap, links, lives, cmds, client, made, bound>>

Life == 1..MaxLives
Auth == 1..MaxAuths
Cmd == 1..MaxCommands
Shutdown == 0          \* in a queue: the command that ends the worker

Init ==
  /\ session = [c \in Client |-> "none"] /\ entry = 0
  /\ auth = [a \in Auth |-> [kind |-> "none", c |-> None, life |-> 0, valid |-> FALSE]]
  /\ hot = [c \in Client |-> 0] /\ cap = [c \in Client |-> 0] /\ links = {}
  /\ lives = [l \in Life |-> [queue |-> <<>>, waiting |-> <<>>, call |-> 0, closed |-> FALSE,
                              stopped |-> FALSE, reader |-> "none", at |-> 0, left |-> {},
                              stop |-> "no", stopper |-> None, victim |-> 0]]
  /\ cmds = [k \in Cmd |-> [auth |-> 0, life |-> 0, epoch |-> FALSE, st |-> "none"]]
  /\ made = [b \in Bounded |-> 0] /\ bound \in Plans
  /\ client = [c \in Client |->
       [task |-> IF c \in bound.clients THEN "on" ELSE "left", open |-> c \in bound.clients, sink |-> 0]]

Make(b) == made[b] < bound[b] /\ made' = [made EXCEPT ![b] = @ + 1]

-----------------------------------------------------------------------------
(* Who may talk to the device *)

Revoked(as) == [a \in Auth |-> [auth[a] EXCEPT !.valid = @ /\ a \notin as]]

NewAuth(kind, c, l) == [kind |-> kind, c |-> c, life |-> l, valid |-> TRUE]

\* refresh_nm_hot_locked, together with the revocation of the capability x
Refresh(c, x, switches) ==
  LET binds == session'[c] = "nm" /\ entry' # 0 /\ client[c].task # "left"
      a == made.auths + 1
  IN  /\ binds => a <= bound.auths
      /\ auth' = IF binds THEN [Revoked({hot[c], x}) EXCEPT ![a] = NewAuth("nm", c, entry')]
                 ELSE Revoked({hot[c], x})
      /\ hot' = [hot EXCEPT ![c] = IF binds THEN a ELSE 0]
      /\ made' = [made EXCEPT !.auths = IF binds THEN a ELSE @,
                              !.lives = IF entry' > @ THEN entry' ELSE @,
                              !.switches = @ + switches]

\* The Entry leaves the map, and with it every binding.
Detach(s, as) ==
  /\ entry' = 0
  /\ auth' = Revoked(as \cup {hot[c] : c \in Client})
  /\ hot' = [c \in Client |-> 0]
  /\ lives' = [lives EXCEPT ![entry].stop = "detached", ![entry].stopper = s]

\* Every session ends with the Entry.
DetachAll(victimOf) ==
  /\ entry' = 0
  /\ session' = [c \in Client |-> "none"]
  /\ auth' = Revoked({hot[c] : c \in Client} \cup {cap[c] : c \in Client})
  /\ hot' = [c \in Client |-> 0] /\ cap' = [c \in Client |-> 0]
  /\ lives' = [l \in Life |->
       [lives[l] EXCEPT !.stop = IF l = entry THEN "detached" ELSE @,
                        !.victim = IF l = victimOf THEN entry ELSE @,
                        !.reader = IF l = victimOf THEN "stopping" ELSE @]]

Open(c) ==
  /\ client[c].task = "on" /\ session[c] = "none"
  /\ session' = [session EXCEPT ![c] = "nm"]
  /\ \/ entry # 0 /\ UNCHANGED <<entry, lives>>
     \/ /\ entry = 0 /\ made.lives < bound.lives
        /\ entry' = made.lives + 1
        /\ lives' = [lives EXCEPT ![made.lives + 1].reader = "reading"]
  /\ Refresh(c, 0, 0)
  /\ client' = [client EXCEPT ![c].task = "replying"]
  /\ UNCHANGED <<cap, links, cmds, bound>>

\* ws_connect, wt_connect
TransportConnect(c) ==
  /\ session[c] # "none" /\ made.auths < bound.auths /\ made.connects < bound.connects
  /\ session' = [session EXCEPT ![c] = "transport"]
  /\ auth' = [Revoked({hot[c], cap[c]}) EXCEPT ![made.auths + 1] = NewAuth("transport", c, 0)]
  /\ hot' = [hot EXCEPT ![c] = 0] /\ cap' = [cap EXCEPT ![c] = made.auths + 1]
  /\ links' = links \cup {made.auths + 1}
  /\ made' = [made EXCEPT !.auths = @ + 1, !.connects = @ + 1]
  /\ UNCHANGED <<entry, lives, cmds, client, bound>>

SetDataplaneMode(c) ==
  /\ client[c].task = "on" /\ session[c] # "none"
  /\ \E m \in {"nm", "transport"} : session' = [session EXCEPT ![c] = m]
  /\ made.switches < bound.switches
  /\ UNCHANGED <<entry, links, lives, cmds, bound>>
  /\ Refresh(c, cap[c], 1)
  /\ cap' = [cap EXCEPT ![c] = 0]
  /\ client' = [client EXCEPT ![c].task = "replying"]

\* A command that needs no answer any more.
Over == [auth |-> 0, life |-> 0, epoch |-> FALSE, st |-> "done"]

\* The tasks of a connection are aborted, then it reports ws_disconnect: a
\* command it has not got into the queue is dropped with them.
Dropped(a) == {k \in Cmd : /\ cmds[k].auth = a /\ cmds[k].st \in {"checked", "looked", "sent"}
                           /\ \A l \in Life : \A i \in 1..Len(lives[l].queue) : lives[l].queue[i] # k}

\* A connection has at most one command under way.
Without(q, ks) ==
  IF \E i \in DOMAIN q : q[i] \in ks THEN RemoveAt(q, CHOOSE i \in DOMAIN q : q[i] \in ks) ELSE q

ConnectionEnds(a) ==
  LET c == auth[a].c
      current == session[c] = "transport" /\ cap[c] = a
  IN  /\ a \in links /\ links' = links \ {a}
      /\ cmds' = [k \in Cmd |-> IF k \in Dropped(a) THEN Over ELSE cmds[k]]
      /\ lives' = [l \in Life |->
           [lives[l] EXCEPT !.waiting = Without(@, Dropped(a))]]
      /\ UNCHANGED <<entry, client, bound>>
      /\ session' = IF current THEN [session EXCEPT ![c] = "nm"] ELSE session
      /\ cap' = IF current THEN [cap EXCEPT ![c] = 0] ELSE cap
      /\ IF current THEN Refresh(c, a, 0) ELSE UNCHANGED <<auth, hot, made>>

\* close(), by a request or by close_all_for_client
Close(c) ==
  /\ client[c].task \in {"on", "left"} /\ session[c] # "none"
  /\ session' = [session EXCEPT ![c] = "none"] /\ cap' = [cap EXCEPT ![c] = 0]
  /\ \/ /\ \E d \in Client \ {c} : session[d] # "none"
        /\ UNCHANGED <<entry, lives>> /\ Refresh(c, cap[c], 0)
        /\ client' = [client EXCEPT ![c].task = IF @ = "on" THEN "replying" ELSE @]
     \/ /\ \A d \in Client \ {c} : session[d] = "none"
        /\ Detach(c, {cap[c]})
        /\ client' = [client EXCEPT ![c].task = IF @ = "on" THEN "busy" ELSE @]
        /\ UNCHANGED made
  /\ UNCHANGED <<links, cmds, bound>>

\* force_close, in the relay of some client
ForceClose ==
  /\ entry # 0 /\ DetachAll(0)
  /\ UNCHANGED <<links, cmds, client, made, bound>>

-----------------------------------------------------------------------------
(* Commands *)

NewCmd(a, l, st) ==
  /\ made.cmds < bound.cmds
  /\ cmds' = [cmds EXCEPT ![made.cmds + 1] = [auth |-> a, life |-> l, epoch |-> FALSE, st |-> st]]
  /\ made' = [made EXCEPT !.cmds = @ + 1]

\* enqueue_nm_output and its siblings take a copy of the binding.
AskNm(c) ==
  /\ client[c].task = "on" /\ hot[c] # 0
  /\ NewCmd(hot[c], auth[hot[c]].life, "looked")
  /\ client' = [client EXCEPT ![c].task = "busy"]
  /\ UNCHANGED <<authority, lives, bound>>

\* A connection executes its messages one after the other, each if its
\* capability is still valid.
AskTransport(a) ==
  /\ a \in links /\ auth[a].valid
  /\ \A k \in Cmd : cmds[k].auth = a => cmds[k].st = "done"
  /\ NewCmd(a, 0, "checked")
  /\ UNCHANGED <<authority, lives, client, bound>>

\* transport_io_context: the Entry of the device, whichever it is by now
LookUp(k) ==
  /\ cmds[k].st = "checked"
  /\ cmds' = [cmds EXCEPT ![k].life = entry, ![k].st = IF entry = 0 THEN "answered" ELSE "looked"]
  /\ UNCHANGED <<authority, lives, client, made, bound>>

Room(l) == Len(lives[l].queue) < MaxQueue /\ lives[l].waiting = <<>>

\* send_io_command: the command takes the epoch along, and waits for room.
Enqueue(k) ==
  LET l == cmds[k].life
  IN  /\ cmds[k].st = "looked"
      /\ cmds' = [cmds EXCEPT ![k].epoch = lives[l].stopped,
                              ![k].st = IF lives[l].closed THEN "answered" ELSE "sent"]
      /\ lives' = [lives EXCEPT
           ![l].queue = IF ~lives[l].closed /\ Room(l) THEN Append(@, k) ELSE @,
           ![l].waiting = IF ~lives[l].closed /\ ~Room(l) THEN Append(@, k) ELSE @]
      /\ UNCHANGED <<authority, client, made, bound>>

NmCommandOf(k, c) == auth[cmds[k].auth].kind = "nm" /\ auth[cmds[k].auth].c = c

\* The response waits for room in the client's sink; a connection answers at once.
Reply(c) ==
  LET answered == {k \in Cmd : cmds[k].st = "answered" /\ NmCommandOf(k, c)}
  IN  /\ client[c].task = "replying" \/ (client[c].task = "busy" /\ answered # {})
      /\ ~client[c].open \/ client[c].sink < MaxSink
      /\ cmds' = [k \in Cmd |-> IF k \in answered THEN Over ELSE cmds[k]]
      /\ client' = [client EXCEPT ![c].task = IF client[c].open THEN "on" ELSE "ending",
                                  ![c].sink = IF client[c].open THEN @ + 1 ELSE @]
      /\ UNCHANGED <<authority, lives, made, bound>>

TransportReplies(k) ==
  /\ cmds[k].st = "answered" /\ auth[cmds[k].auth].kind = "transport"
  /\ cmds' = [cmds EXCEPT ![k] = Over]
  /\ UNCHANGED <<authority, lives, client, made, bound>>

-----------------------------------------------------------------------------
(* The I/O worker of a lifetime *)

\* (wrong variant) the epoch alone.
CurrentByEpoch(k, l) == cmds[k].epoch = lives[l].stopped

\* IoCommand::is_current
Current(k, l) == auth[cmds[k].auth].valid /\ cmds[k].epoch = lives[l].stopped

\* What is received makes room for the one that waits longest.  The worker has it in
\* hand (call) until it is answered.
Received(l) ==
  LET w == lives[l].waiting
  IN  [lives[l] EXCEPT !.queue = IF w = <<>> THEN Tail(@) ELSE Append(Tail(@), Head(w)),
                       !.waiting = IF w = <<>> THEN w ELSE Tail(w)]

Receives(l) == ~lives[l].closed /\ lives[l].call = 0 /\ lives[l].queue # <<>>

Receive(l) ==
  LET k == Head(lives[l].queue)
  IN  /\ Receives(l) /\ k # Shutdown
      /\ cmds' = [cmds EXCEPT ![k].st = "received"]
      /\ lives' = [lives EXCEPT ![l] = [Received(l) EXCEPT !.call = k]]
      /\ UNCHANGED <<authority, client, made, bound>>

\* What the worker has in hand goes on to state st.
InHand(l, st) == lives[l].call # 0 /\ cmds[lives[l].call].st = st
Proceeds(l, st) ==
  /\ cmds' = [cmds EXCEPT ![lives[l].call].st = st]
  /\ UNCHANGED <<authority, lives, client, made, bound>>
Answers(l) ==
  /\ cmds' = [cmds EXCEPT ![lives[l].call].st = "answered"]
  /\ lives' = [lives EXCEPT ![l].call = 0]
  /\ UNCHANGED <<authority, client, made, bound>>

\* No lock is held between the check and the call, nor during it.
Reject(l) == InHand(l, "received") /\ ~Current(lives[l].call, l) /\ Answers(l)
Accept(l) == InHand(l, "received") /\ Current(lives[l].call, l) /\ Proceeds(l, "accepted")
HidBegins(l) == InHand(l, "accepted") /\ Proceeds(l, "running")
HidReturns(l) == InHand(l, "running") /\ Answers(l)

\* The receiver is dropped, and with it what is queued or waits.
WorkerExits(l) ==
  /\ Receives(l) /\ Head(lives[l].queue) = Shutdown
  /\ cmds' = [k \in Cmd |-> IF cmds[k].st = "sent" /\ cmds[k].life = l
                            THEN [cmds[k] EXCEPT !.st = "answered"] ELSE cmds[k]]
  /\ lives' = [lives EXCEPT ![l].closed = TRUE, ![l].queue = <<>>, ![l].waiting = <<>>]
  /\ UNCHANGED <<authority, client, made, bound>>

-----------------------------------------------------------------------------
(* The end of a lifetime: stop_entry, or stop_entry_io_worker by a reader *)

Signal(l) ==
  /\ lives[l].stop = "detached"
  /\ lives' = [lives EXCEPT ![l].stopped = TRUE, ![l].stop = "signalled"]
  /\ UNCHANGED <<authority, cmds, client, made, bound>>

\* (wrong variant) no helper: a Shutdown that finds the queue full is lost.
RequestShutdownOnce(l) ==
  /\ lives[l].stop = "signalled"
  /\ lives' = [lives EXCEPT ![l].queue = IF ~lives[l].closed /\ Room(l) THEN Append(@, Shutdown) ELSE @,
                            ![l].stop = "asked"]
  /\ UNCHANGED <<authority, cmds, client, made, bound>>

\* request_io_shutdown: if the queue is full a helper thread waits for room.
RequestShutdown(l) ==
  /\ lives[l].stop = "signalled"
  /\ lives' = [lives EXCEPT
       ![l].queue = IF ~lives[l].closed /\ Room(l) THEN Append(@, Shutdown) ELSE @,
       ![l].waiting = IF ~lives[l].closed /\ ~Room(l) THEN Append(@, Shutdown) ELSE @,
       ![l].stop = "asked"]
  /\ UNCHANGED <<authority, cmds, client, made, bound>>

ReaderJoined(l) == lives[l].reader = "exited" \/ \E r \in Life : lives[r].victim = l

\* (wrong variant) the worker is left to itself.
ReaderAloneJoined(l) == ReaderJoined(l)

\* The helper, the reader and the worker are joined, in this order.  A reader
\* that ends a lifetime does not join that lifetime's reader.
Joined(l) == ReaderJoined(l) /\ lives[l].closed

JoinThreads(l) ==
  /\ lives[l].stop = "asked" /\ Joined(l)
  /\ lives' = [r \in Life |-> [lives[r] EXCEPT !.stop = IF r = l THEN "done" ELSE @,
                                              !.reader = IF lives[r].victim = l THEN "exited" ELSE @]]
  /\ client' = [c \in Client |->
       IF lives[l].stopper = c /\ client[c].task = "busy"
       THEN [client[c] EXCEPT !.task = "replying"] ELSE client[c]]
  /\ UNCHANGED <<authority, cmds, made, bound>>

-----------------------------------------------------------------------------
(* The reader of a lifetime *)

\* On to one of the bindings that are left, or back to the head of the loop.
Turns(l, as) ==
  \/ \E a \in as : lives' = [lives EXCEPT ![l].reader = "routing", ![l].at = a, ![l].left = as \ {a}]
  \/ as = {} /\ lives' = [lives EXCEPT ![l].reader = IF lives[l].stopped THEN "exited" ELSE "reading",
                                       ![l].at = 0, ![l].left = {}]

\* The read ends without a report, after half a second at most.
ReaderStops(l) ==
  /\ lives[l].reader = "reading" /\ lives[l].stopped
  /\ Turns(l, {})
  /\ UNCHANGED <<authority, cmds, client, made, bound>>

\* A report was read: its targets are the bindings there are now.
ReaderReads(l) ==
  /\ lives[l].reader = "reading" /\ made.inputs < bound.inputs
  /\ Turns(l, {hot[c] : c \in Client} \ {0})
  /\ made' = [made EXCEPT !.inputs = @ + 1]
  /\ UNCHANGED <<authority, cmds, client, bound>>

\* The read fails: the reader detaches what is published and stops its worker.
ReaderFails(l) ==
  /\ lives[l].reader = "reading"
  /\ \/ entry # 0 /\ DetachAll(l)
     \/ entry = 0 /\ lives' = [lives EXCEPT ![l].reader = "exited"]
                  /\ UNCHANGED <<session, entry, auth, hot, cap>>
  /\ UNCHANGED <<links, cmds, client, made, bound>>

\* route_nm_input: is the binding valid still ...
RouteChecks(l) ==
  /\ lives[l].reader = "routing"
  /\ \/ auth[lives[l].at].valid /\ lives' = [lives EXCEPT ![l].reader = "sending"]
     \/ ~auth[lives[l].at].valid /\ Turns(l, lives[l].left)
  /\ UNCHANGED <<authority, cmds, client, made, bound>>

\* ... and is there room in the sink?
RouteSends(l) ==
  LET c == auth[lives[l].at].c
  IN  /\ lives[l].reader = "sending"
      /\ \/ /\ ~client[c].open \/ client[c].sink < MaxSink
            /\ Turns(l, lives[l].left)
            /\ client' = [client EXCEPT ![c].sink = IF client[c].open THEN @ + 1 ELSE @]
         \/ /\ client[c].open /\ client[c].sink = MaxSink
            /\ lives' = [lives EXCEPT ![l].reader = "routing"] /\ UNCHANGED client
      /\ UNCHANGED <<authority, cmds, made, bound>>

-----------------------------------------------------------------------------
(* Streams *)

\* The writer writes a message, which takes a peer that reads.
Writes(c) ==
  /\ client[c].sink > 0
  /\ client' = [client EXCEPT ![c].sink = @ - 1]
  /\ UNCHANGED <<authority, lives, cmds, made, bound>>

WriteFails(c) ==
  /\ client[c].open /\ Make("failures")
  /\ client' = [client EXCEPT ![c].open = FALSE, ![c].sink = 0]
  /\ UNCHANGED <<authority, lives, cmds, bound>>

\* The request loop ends: unregister_nm_sink, and the writer is stopped.
Leave(c) ==
  /\ client[c].task \in {"on", "ending"}
  /\ client' = [client EXCEPT ![c] = [task |-> "left", open |-> FALSE, sink |-> 0]]
  /\ auth' = Revoked({hot[c]}) /\ hot' = [hot EXCEPT ![c] = 0]
  /\ UNCHANGED <<session, entry, cap, links, lives, cmds, made, bound>>

-----------------------------------------------------------------------------
Next ==
  \/ ForceClose
  \/ \E c \in Client :
       \/ Open(c) \/ TransportConnect(c) \/ SetDataplaneMode(c) \/ Close(c)
       \/ AskNm(c) \/ Reply(c) \/ Writes(c) \/ WriteFails(c) \/ Leave(c)
  \/ \E a \in Auth : ConnectionEnds(a) \/ AskTransport(a)
  \/ \E k \in Cmd : LookUp(k) \/ Enqueue(k) \/ TransportReplies(k)
  \/ \E l \in Life :
       \/ Receive(l) \/ Reject(l) \/ Accept(l) \/ HidBegins(l) \/ HidReturns(l) \/ WorkerExits(l)
       \/ Signal(l) \/ RequestShutdown(l) \/ JoinThreads(l)
       \/ ReaderStops(l) \/ ReaderReads(l) \/ ReaderFails(l) \/ RouteChecks(l) \/ RouteSends(l)

Spec == Init /\ [][Next]_ioVars

WorkerSteps(l) ==
  Receive(l) \/ Reject(l) \/ Accept(l) \/ HidBegins(l) \/ HidReturns(l) \/ WorkerExits(l)
StopSteps(l) == Signal(l) \/ RequestShutdown(l) \/ JoinThreads(l)
ReaderSteps(l) == ReaderStops(l) \/ RouteChecks(l) \/ RouteSends(l)

LookUpSteps == \E k \in Cmd : LookUp(k) \/ Enqueue(k)

-----------------------------------------------------------------------------
(* Properties *)

\* Types (device_mgr.rs:217-240, client.rs:224).
TypeOK ==
  /\ session \in [Client -> {"none", "nm", "transport"}]
  /\ entry \in Life \cup {0} /\ links \subseteq Auth
  /\ auth \in [Auth -> [kind : {"none", "nm", "transport"}, c : Client \cup {None},
                        life : Life \cup {0}, valid : BOOLEAN]]
  /\ hot \in [Client -> Auth \cup {0}] /\ cap \in [Client -> Auth \cup {0}]
  /\ lives \in [Life -> [queue : Seq(Cmd \cup {Shutdown}), waiting : Seq(Cmd \cup {Shutdown}),
                         call : Cmd \cup {0}, closed : BOOLEAN, stopped : BOOLEAN,
                         reader : {"none", "reading", "routing", "sending", "stopping", "exited"},
                         at : Auth \cup {0}, left : SUBSET Auth,
                         stop : {"no", "detached", "signalled", "asked", "done"},
                         stopper : Client \cup {None}, victim : Life \cup {0}]]
  /\ cmds \in [Cmd -> [auth : Auth \cup {0}, life : Life \cup {0}, epoch : BOOLEAN,
                       st : {"none", "checked", "looked", "sent", "received", "accepted", "running",
                             "answered", "done"}]]
  /\ client \in [Client -> [task : {"on", "busy", "replying", "ending", "left"},
                            open : BOOLEAN, sink : 0..MaxSink]]
  /\ made \in [Bounded -> Nat]

\* Authority a is the one its client has now, and lifetime l is published.
HasAuthority(a, l) ==
  /\ entry = l
  /\ \/ auth[a].kind = "nm" /\ session[auth[a].c] = "nm" /\ hot[auth[a].c] = a
     \/ auth[a].kind = "transport" /\ session[auth[a].c] = "transport" /\ cap[auth[a].c] = a

\* The worker lets a command through only on the authority its client has at that
\* moment, through the lifetime that is published, whatever happened to the session,
\* its plane or the Entry while it was looked up, sent and queued.  What takes the
\* authority away later leaves that one command to be called: no other of the same
\* authority begins, and none once the stop of the lifetime has returned.
CallsAreAuthorised ==
  [][\A k \in Cmd :
       LET a == cmds[k].auth
           l == cmds[k].life
       IN  /\ cmds[k].st # "accepted" /\ cmds'[k].st = "accepted" => HasAuthority(a, l)
           /\ cmds[k].st # "running" /\ cmds'[k].st = "running" =>
                /\ cmds[k].st = "accepted" /\ lives[l].call = k /\ lives[l].stop # "done"
                /\ \A j \in Cmd : cmds[j].auth = a /\ cmds[j].st \in {"accepted", "running"} => j = k]_ioVars

\* Once a stop has returned nothing of the lifetime is left: its worker makes no
\* call, no command waits for it, and its reader is gone unless a reader ended it.
StoppedIsOver ==
  \A l \in Life : lives[l].stop = "done" =>
    /\ lives[l].call = 0 /\ lives[l].closed
    /\ \A k \in Cmd : cmds[k].life = l => cmds[k].st \notin {"sent", "received", "accepted", "running"}
    /\ lives[l].reader = "exited" \/ \E r \in Life : lives[r].victim = l

\* A reader that finds the sink full tries again, as long as the binding is valid.
Spins(l) ==
  LET a == lives[l].at
  IN  /\ lives[l].reader \in {"routing", "sending"} /\ auth[a].valid
      /\ client[auth[a].c].open /\ client[auth[a].c].sink = MaxSink

\* Some thread can do more than try again: a worker, what stops a lifetime, a
\* reader, or what puts commands into the queue.
SomethingMoves ==
  \/ ENABLED LookUpSteps
  \/ \E l \in Life : \/ ENABLED WorkerSteps(l) \/ ENABLED StopSteps(l)
                     \/ ~Spins(l) /\ ENABLED ReaderSteps(l)

CommandWaits == \E k \in Cmd : cmds[k].st \notin {"none", "answered", "done"}
StopWaits ==
  \E l \in Life : lives[l].stop \notin {"no", "done"} /\ ~(Spins(l) /\ auth[lives[l].at].life # l)

\* Nobody waits for good, though sinks and queues are full and their peers do
\* not read: every command is answered and every stop returns, unless the
\* reader it joins took a late report to a session that was opened meanwhile.
NobodyWaitsForGood == CommandWaits \/ StopWaits => SomethingMoves
=============================================================================
