----------------------------- MODULE MCBackground -----------------------------
(***************************************************************************)
(* The background's two tables of sessions: the native messaging port with *)
(* its pending requests, and the owners of the sessions that requests      *)
(* opened.  A behaviour is about one of them; SessionOwnership has its own *)
(* view of the port.                                                       *)
(***************************************************************************)
EXTENDS SessionOwnership

CONSTANTS MaxId, MaxPorts, Timeout

\* Bounds, and the deadline of a request in ticks.
ASSUME PortAssumption == MaxId \in Nat /\ MaxPorts \in Nat /\ Timeout \in Nat

VARIABLES port, ports, nextId, pending, lateOpenRequests, timer, armed, delay, handshake,
          settled, held, host, toHost, fromHost, sessions, part

N == INSTANCE NativeMessaging

portVars == <<port, ports, nextId, pending, lateOpenRequests, timer, armed, delay, handshake,
              settled, held, host, toHost, fromHost, sessions>>

\* A top document and a frame of one tab.
TwoFrames == {[tab |-> 1, frame |-> 0], [tab |-> 1, frame |-> 1]}

\* What a part of the ownership model explores: one session of a site that is
\* paired, unpaired and revoked, or two sessions of a site that stays paired.
InScope ==
  \/ part = "revoked" /\ opened' <= 1
  \/ part = "shared" /\ grant' = grant

BackgroundInit == Init /\ N!Init /\ part \in {"port", "revoked", "shared"}

BackgroundNext ==
  /\ UNCHANGED part
  /\ \/ part = "port" /\ N!Next /\ UNCHANGED vars
     \/ part # "port" /\ Next /\ InScope /\ UNCHANGED portVars

BackgroundSpec == BackgroundInit /\ [][BackgroundNext]_<<vars, portVars, part>>

\* NativeMessaging: each request settles once, under a timer that covers them
\* all, no open is granted behind everybody's back, and what is kept of a port
\* is of the current one, which is replaced when it is lost.
RequestsServed ==
  /\ N!TypeOK /\ N!SettledOnce /\ N!TimerCoversPending /\ N!OpenAnswerAwaited
  /\ N!HandshakeCurrent /\ N!PortIsReplaced

\* The ownership tables and nm.js both implement SessionCustody.
EverySessionInCustody == SessionsInCustody /\ N!SessionsInCustody
===============================================================================
