--------------------------- MODULE SessionOwnership ---------------------------
(***************************************************************************)
(* Who owns a daemon session, as the background keeps it                   *)
(* (addon/js/background/messages.js, state_ops.js, storage.js): frame      *)
(* endpoints and their lifetimes, the site's grant, the owner of every     *)
(* session token, the open count per tab and the tokens that still have to *)
(* be closed.                                                              *)
(*                                                                         *)
(* One device and one site.  The background is one thread; a step is one   *)
(* handler up to its next await.  Requests wait in `asked` together with   *)
(* what their continuation needs, and their answers in `answers`, in the   *)
(* order of the native messaging port.  Promise continuations run before   *)
(* the next event: see `Settled`.                                          *)
(***************************************************************************)
EXTENDS Integers, Sequences, FiniteSets

CONSTANTS
  Place,         \* [tab, frame]: where a document may live; frame 0 is the top
  Revoke,        \* concurrent revocations
  MaxEndpoints,  \* bound: endpoints registered
  MaxTokens,     \* bound: sessions the daemon grants
  MaxQueue       \* bound: requests in flight before new ones are made

ASSUME PlaceAssumption == Place \subseteq [tab: Nat, frame: Nat]
ASSUME RevokeAssumption == 0 \notin Revoke
ASSUME BoundAssumption ==
  MaxEndpoints \in Nat /\ MaxTokens \in Nat /\ MaxQueue \in Nat

Endpoint == 1..MaxEndpoints
Token == 1..MaxTokens
Tab == {p.tab : p \in Place}
Nobody == 0            \* no endpoint: an extension page, or a session without owner
Nothing == 0           \* no token, no revocation

Kind == {"open", "lateOpen", "close", "cleanup", "drop"}
NoRevocation == [stage |-> "idle", by |-> Nobody, todo |-> {}, clean |-> TRUE]

VARIABLES
  place,      \* endpoint -> its place, in order of registration
  live,       \* frameEndpoints
  lifetime,   \* frameLifetimes: "none", "active", "retired"
  scope,      \* persistentOrigin: "unset", "none", "site"
  closedTabs, \* tabs the browser removed
  grant,      \* the site's grant in the store
  owner,      \* deviceSessions: token -> endpoint
  count,      \* deviceTabMap: tab -> opens
  orphans,    \* orphanCleanup
  rereading,  \* opens that await the grant a second time
  revokes,    \* revocations under way
  revoked,    \* how the last revocation ended, "no" since the last grant
  up,         \* the port is connected
  asked,      \* requests on their way to the daemon
  answers,    \* answers and events on their way back
  alive,      \* sessions the daemon holds
  opened      \* sessions the daemon granted so far

frameVars == <<place, live, lifetime, scope, closedTabs>>
ownVars == <<owner, count, orphans>>
wireVars == <<up, asked, answers, alive, opened>>
vars == <<frameVars, ownVars, wireVars, grant, rereading, revokes, revoked>>

TabOf(e) == place[e].tab
Least(S) == CHOOSE x \in S : \A y \in S : x <= y
Sorted(S) == [i \in 1..Cardinality(S) |-> CHOOSE x \in S : Cardinality({y \in S : y < x}) = i - 1]

-----------------------------------------------------------------------------
(* Endpoints *)

LifetimeActive(e) == lifetime[e] = "active"

\* endpointAuthorityIsCurrent with a persistence scope: the caller may act.
AuthorityCurrent(e) == e \in live /\ LifetimeActive(e) /\ scope[e] = "site"

\* scopeAuthorityIsCurrent: a request of an extension page has no endpoint.
ScopeCurrent(by) == by = Nobody \/ AuthorityCurrent(by)

\* collectDeviceSessionsForFrame, for each of the frames.
Tokens(es) == {t \in Token : owner[t] \in es}

\* collectDeviceSessionsForTab
TokensOfTab(tab) == {t \in Token : owner[t] # Nobody /\ TabOf(owner[t]) = tab}

\* collectDeviceSessionsForOrigin
TokensOfSite == {t \in Token : owner[t] # Nobody}

\* unregisterDeviceSession
Unregistered(ts) == [t \in Token |-> IF t \in ts THEN Nobody ELSE owner[t]]

\* unregisterDeviceTab for each of the tokens.
CountWithout(ts) ==
  [b \in Tab |->
    LET n == Cardinality({t \in ts : owner[t] # Nobody /\ TabOf(owner[t]) = b})
    IN  IF count[b] > n THEN count[b] - n ELSE 0]

CleanupEntry(t, r) ==
  [k |-> "cleanup", e |-> Nobody, t |-> t, owned |-> owner[t] # Nobody, r |-> r]

\* closeForCleanup(t) for each of the tokens, up to the await.  Without a port
\* the close fails at once and the token is kept for a retry.
CloseForCleanup(ts, r) ==
  IF up
  THEN /\ asked' = asked \o [i \in 1..Cardinality(ts) |-> CleanupEntry(Sorted(ts)[i], r)]
       /\ UNCHANGED <<owner, orphans>>
  ELSE /\ owner' = Unregistered(ts)
       /\ orphans' = orphans \cup ts
       /\ UNCHANGED asked

Lifetimes(gone, news) ==
  lifetime' = [e \in Endpoint |-> IF e \in gone THEN "retired"
                                  ELSE IF e \in news THEN "active" ELSE lifetime[e]]

\* refreshEndpointPersistence: a frame has the site's scope while its tab has a
\* live top endpoint.
FreshScope(tab) ==
  IF \E e \in live' : place'[e] = [tab |-> tab, frame |-> 0] /\ lifetime'[e] = "active"
  THEN "site" ELSE "none"

Moved(tab) == {e \in live' : place'[e].tab = tab /\ scope[e] # FreshScope(tab)}

\* retireEndpoint for `gone` (purgeFrame), registration of `news`, then the
\* scopes of the tab (closeFrameSessions where one changed).
ReplaceEndpoints(tab, gone, news) ==
  /\ live' = (live \ gone) \cup news
  /\ Lifetimes(gone, news)
  /\ scope' = [e \in Endpoint |-> IF e \in Moved(tab) THEN FreshScope(tab) ELSE scope[e]]
  /\ LET closing == Tokens(gone \cup (Moved(tab) \ news))
     IN  /\ count' = CountWithout(closing)
         /\ CloseForCleanup(closing, Nothing)
  /\ UNCHANGED <<grant, rereading, revokes, revoked, up, answers, alive, opened>>

\* A top document replaces every document of its tab.
RegisterFrameEndpoint(p) ==
  LET new == Len(place) + 1
      gone == {e \in live : TabOf(e) = p.tab /\ p.frame \in {0, place[e].frame}}
  IN  /\ new \in Endpoint
      /\ p.tab \notin closedTabs
      /\ place' = Append(place, p)
      /\ ReplaceEndpoints(p.tab, gone, {new})
      /\ UNCHANGED closedTabs

\* The control port of a document disconnects, or handleFrameDestroyed.
RetireEndpoint(e) ==
  /\ e \in live
  /\ UNCHANGED <<place, closedTabs>>
  /\ ReplaceEndpoints(TabOf(e), {e}, {})

\* purgeTab: the browser removed the tab; its ports disconnect later.
PurgeTab(tab) ==
  /\ tab \notin closedTabs
  /\ closedTabs' = closedTabs \cup {tab}
  /\ lifetime' = [e \in Endpoint |-> IF e \in DOMAIN place /\ TabOf(e) = tab THEN "none"
                                      ELSE lifetime[e]]
  /\ CloseForCleanup(TokensOfTab(tab), Nothing)
  /\ count' = [count EXCEPT ![tab] = 0]
  /\ UNCHANGED <<place, live, scope, grant, rereading, revokes, revoked, up, answers,
                 alive, opened>>

-----------------------------------------------------------------------------
(* Grants *)

\* The reads and writes of the store.  A transaction is one step: what runs
\* after a read sees no later write (storage.js).
GetAllowedDevices == grant
AddAllowedDevice == grant' = TRUE
RemoveAllowedDevice == grant' = FALSE

\* handlePairDevice
PairDevice(by) ==
  /\ ScopeCurrent(by)
  /\ ~grant
  /\ AddAllowedDevice
  /\ revoked' = "no"
  /\ revokes' = [r \in Revoke |-> [revokes[r] EXCEPT !.clean = FALSE]]
  /\ UNCHANGED <<frameVars, ownVars, wireVars, rereading>>

\* handleUnpairDevice: the grant goes, open sessions stay.
UnpairDevice(by) ==
  /\ ScopeCurrent(by)
  /\ grant
  /\ RemoveAllowedDevice
  /\ UNCHANGED <<frameVars, ownVars, wireVars, rereading, revokes, revoked>>

\* handleRevokeDevice up to the removal of the grant.
RevokeRemoves(r, by) ==
  /\ revokes[r].stage = "idle"
  /\ ScopeCurrent(by)
  /\ grant
  /\ RemoveAllowedDevice
  /\ revokes' = [revokes EXCEPT ![r] =
                   [stage |-> "removed", by |-> by, todo |-> {}, clean |-> TRUE]]
  /\ UNCHANGED <<frameVars, ownVars, wireVars, rereading, revoked>>

RevokeEnds(r, how) ==
  /\ revokes' = [revokes EXCEPT ![r] = NoRevocation]
  /\ revoked' = IF revokes[r].clean THEN how ELSE revoked

\* revokeDevices with the tokens still to close: the next one, or the end.
RevokeCloses(r, todo) ==
  IF ~ScopeCurrent(revokes[r].by)
  THEN RevokeEnds(r, "interrupted") /\ UNCHANGED <<ownVars, asked>>
  ELSE IF todo = {}
  THEN RevokeEnds(r, "done") /\ UNCHANGED <<ownVars, asked>>
  ELSE LET t == Least(todo)
       IN  /\ count' = CountWithout({t})
           /\ CloseForCleanup({t}, r)
           /\ revokes' = [revokes EXCEPT ![r].todo = todo \ {t},
                                         ![r].stage = IF up THEN "closing" ELSE "next"]
           /\ UNCHANGED revoked

\* The grant is gone from the store: collectDeviceSessionsForOrigin.
RevokeCollects(r) ==
  /\ revokes[r].stage = "removed"
  /\ RevokeCloses(r, TokensOfSite)
  /\ UNCHANGED <<frameVars, grant, rereading, up, answers, alive, opened>>

\* A close came to an end, well or not: the loop goes on.
RevokeGoesOn(r) ==
  /\ revokes[r].stage = "next"
  /\ RevokeCloses(r, revokes[r].todo)
  /\ UNCHANGED <<frameVars, grant, rereading, up, answers, alive, opened>>

-----------------------------------------------------------------------------
(* Opening and closing *)

\* Bound: new requests are made while few are on the wire.
Quiet == Len(asked) + Len(answers) < MaxQueue

Ask(k, e, t) == asked' = Append(asked, [k |-> k, e |-> e, t |-> t, owned |-> FALSE, r |-> Nothing])

\* handleOpen up to the request; the grant was read just before.
HandleOpen(e) ==
  /\ up /\ Quiet
  /\ AuthorityCurrent(e)
  /\ GetAllowedDevices
  /\ Ask("open", e, Nothing)
  /\ UNCHANGED <<frameVars, ownVars, grant, rereading, revokes, revoked, up, answers,
                 alive, opened>>

\* (wrong variant) the document is not checked again.
DocumentUnchecked(x) == GetAllowedDevices

\* (wrong variant) the grant is not checked again.
GrantUnchecked(x) == AuthorityCurrent(x.e)

\* Both are asked again once the daemon has answered.
OwnerChecked(x) == GetAllowedDevices /\ AuthorityCurrent(x.e)

\* registerDeviceSession and registerDeviceTab
Register(t, e) ==
  /\ owner' = [owner EXCEPT ![t] = e]
  /\ count' = [count EXCEPT ![TabOf(e)] = @ + 1]

\* (wrong variant) an open that came too late is dropped.
RereadForgets(x) ==
  /\ x \in rereading
  /\ rereading' = rereading \ {x}
  /\ IF OwnerChecked(x)
     THEN Register(x.t, x.e)
     ELSE UNCHANGED <<owner, count>>
  /\ UNCHANGED <<frameVars, orphans, grant, revokes, revoked, wireVars>>

\* handleOpen after the second look at the grant.
HandleOpenRegisters(x) ==
  /\ x \in rereading
  /\ rereading' = rereading \ {x}
  /\ IF OwnerChecked(x)
     THEN Register(x.t, x.e)
          /\ UNCHANGED <<orphans, asked>>
     ELSE CloseForCleanup({x.t}, Nothing) /\ UNCHANGED count
  /\ UNCHANGED <<frameVars, grant, revokes, revoked, up, answers, alive, opened>>

InFlight(k, t) ==
  \/ \E i \in DOMAIN asked : asked[i].k = k /\ asked[i].t = t
  \/ \E i \in DOMAIN answers : answers[i].k = k /\ answers[i].t = t

\* handleClose: the tab must hold the device and the frame the session.
HandleClose(e, t) ==
  /\ up /\ Quiet
  /\ e \in live /\ count[TabOf(e)] > 0 /\ owner[t] = e
  /\ ~InFlight("close", t)
  /\ Ask("close", e, t)
  /\ UNCHANGED <<frameVars, ownVars, grant, rereading, revokes, revoked, up, answers,
                 alive, opened>>

\* handleCleanupSession: the frame that got the session no longer wants it.
HandleCleanupSession(e, t) ==
  /\ up /\ Quiet
  /\ e \in live /\ owner[t] = e
  /\ ~InFlight("close", t) /\ ~InFlight("cleanup", t)
  /\ CloseForCleanup({t}, Nothing)
  /\ UNCHANGED <<frameVars, count, grant, rereading, revokes, revoked, up, answers,
                 alive, opened>>

\* The 30 s interval: retryOrphanCleanup.
RetryOrphanCleanup ==
  /\ up /\ Quiet /\ orphans # {}
  /\ CloseForCleanup(orphans, Nothing)
  /\ UNCHANGED <<frameVars, count, grant, rereading, revokes, revoked, up, answers,
                 alive, opened>>

-----------------------------------------------------------------------------
(* The port and the daemon *)

\* A revocation that waits for this request goes on.
Resume(r) ==
  IF r = Nothing THEN UNCHANGED revokes
  ELSE revokes' = [revokes EXCEPT ![r].stage = "next"]

\* closeForCleanup after the await.
CleanupSettles(a, confirmed) ==
  /\ owner' = IF a.owned THEN Unregistered({a.t}) ELSE owner
  /\ orphans' = IF confirmed THEN orphans \ {a.t} ELSE orphans \cup {a.t}
  /\ Resume(a.r)

\* clearDeviceOwnership and clearAuthorityOwnership: one device, so the same.
ClearOwnership(remaining) ==
  /\ owner' = [t \in Token |-> Nobody]
  /\ count' = [b \in Tab |-> 0]
  /\ orphans' = remaining

\* handleOpen: the grant is read again before the session is registered.
OpenAnswered(a) ==
  /\ a.k = "open"
  /\ rereading' = IF a.ok THEN rereading \cup {[e |-> a.e, t |-> a.t]} ELSE rereading
  /\ UNCHANGED <<ownVars, revokes, asked>>

\* tryLateOpenResponse: the session is closed, whatever becomes of the close.
LateOpenAnswered(a) ==
  /\ a.k = "lateOpen"
  /\ IF a.ok THEN Ask("drop", Nobody, a.t) ELSE UNCHANGED asked
  /\ UNCHANGED <<ownVars, revokes, rereading>>

\* handleClose, after the await.
CloseAnswered(a) ==
  /\ a.k = "close"
  /\ IF a.ok THEN /\ owner' = Unregistered({a.t})
                  /\ count' = [count EXCEPT ![TabOf(a.e)] = IF @ > 0 THEN @ - 1 ELSE 0]
             ELSE UNCHANGED <<owner, count>>
  /\ UNCHANGED <<orphans, revokes, rereading, asked>>

\* A cleanup is confirmed by 204 and by 404 alike.
CleanupAnswered(a) ==
  /\ a.k = "cleanup"
  /\ CleanupSettles(a, TRUE)
  /\ UNCHANGED <<count, rereading, asked>>

AnswerUnwanted(a) == a.k = "drop" /\ UNCHANGED <<ownVars, revokes, rereading, asked>>

\* The daemon's disconnect event.
DeviceGoneArrives(a) ==
  /\ a.k = "gone"
  /\ ClearOwnership({})
  /\ UNCHANGED <<revokes, rereading, asked>>

\* An answer or an event of the daemon.
Deliver ==
  /\ up /\ answers # <<>>
  /\ answers' = Tail(answers)
  /\ LET a == Head(answers)
     IN  OpenAnswered(a) \/ LateOpenAnswered(a) \/ CloseAnswered(a) \/ CleanupAnswered(a)
           \/ AnswerUnwanted(a) \/ DeviceGoneArrives(a)
  /\ UNCHANGED <<frameVars, grant, revoked, up, alive, opened>>

\* A deadline passes while the request is with the daemon.
RequestTimesOut(i) ==
  /\ i \in DOMAIN asked
  /\ asked[i].k \in {"open", "close", "cleanup"}
  /\ asked' = [asked EXCEPT ![i].k = IF @ = "open" THEN "lateOpen" ELSE "drop"]
  /\ IF asked[i].k = "cleanup" THEN CleanupSettles(asked[i], FALSE)
                               ELSE UNCHANGED <<owner, orphans, revokes>>
  /\ UNCHANGED <<frameVars, count, grant, rereading, revoked, up, answers, alive, opened>>

Waiting == {asked[i] : i \in DOMAIN asked} \cup {answers[i] : i \in DOMAIN answers}

\* The port is lost and with it the stream's sessions; then everything that
\* waited fails.
PortLost ==
  /\ up /\ up' = FALSE
  /\ ClearOwnership({a.t : a \in {b \in Waiting : b.k = "cleanup"}})
  /\ revokes' = [r \in Revoke |-> IF revokes[r].stage = "closing"
                                  THEN [revokes[r] EXCEPT !.stage = "next"] ELSE revokes[r]]
  /\ asked' = <<>> /\ answers' = <<>> /\ alive' = {}
  /\ UNCHANGED <<frameVars, grant, rereading, revoked, opened>>

PortReconnects ==
  /\ ~up /\ up' = TRUE
  /\ UNCHANGED <<frameVars, ownVars, grant, rereading, revokes, revoked, asked, answers,
                 alive, opened>>

\* The daemon answers one request, in order.
DaemonAnswers ==
  /\ asked # <<>> /\ asked' = Tail(asked)
  /\ LET q == Head(asked)
         Reply(ok, t) == answers' = Append(answers,
           [k |-> q.k, e |-> q.e, t |-> t, owned |-> q.owned, r |-> q.r, ok |-> ok])
         new == opened + 1
     IN  IF q.k \in {"open", "lateOpen"}
         THEN \/ /\ new \in Token
                 /\ opened' = new
                 /\ alive' = alive \cup {new}
                 /\ Reply(TRUE, new)
              \/ Reply(FALSE, Nothing) /\ UNCHANGED <<alive, opened>>
         ELSE /\ Reply(q.t \in alive, q.t)
              /\ alive' = alive \ {q.t}
              /\ UNCHANGED opened
  /\ UNCHANGED <<frameVars, ownVars, grant, rereading, revokes, revoked, up>>

\* The device is unplugged: the daemon ends its sessions and says so.
DeviceGone ==
  /\ up /\ Quiet /\ alive # {} /\ alive' = {}
  /\ answers' = Append(answers, [k |-> "gone", e |-> Nobody, t |-> Nothing, owned |-> FALSE,
                                 r |-> Nothing, ok |-> TRUE])
  /\ UNCHANGED <<frameVars, ownVars, grant, rereading, revokes, revoked, up, asked, opened>>

-----------------------------------------------------------------------------
Init ==
  /\ place = <<>> /\ live = {} /\ closedTabs = {}
  /\ lifetime = [e \in Endpoint |-> "none"]
  /\ scope = [e \in Endpoint |-> "unset"]
  /\ grant = TRUE /\ revoked = "no"
  /\ owner = [t \in Token |-> Nobody]
  /\ count = [b \in Tab |-> 0]
  /\ orphans = {} /\ rereading = {}
  /\ revokes = [r \in Revoke |-> NoRevocation]
  /\ up = TRUE /\ asked = <<>> /\ answers = <<>> /\ alive = {} /\ opened = 0

\* No continuation is waiting to run.
Settled == \A r \in Revoke : revokes[r].stage # "next"

Event ==
  \/ \E p \in Place : RegisterFrameEndpoint(p)
  \/ \E e \in Endpoint : RetireEndpoint(e) \/ HandleOpen(e)
  \/ \E tab \in Tab : PurgeTab(tab)
  \/ \E by \in Endpoint \cup {Nobody} : PairDevice(by) \/ UnpairDevice(by)
  \/ \E r \in Revoke, by \in Endpoint \cup {Nobody} : RevokeRemoves(r, by)
  \/ \E r \in Revoke : RevokeCollects(r)
  \/ \E x \in rereading : HandleOpenRegisters(x)
  \/ \E e \in Endpoint, t \in Token : HandleClose(e, t) \/ HandleCleanupSession(e, t)
  \/ RetryOrphanCleanup
  \/ Deliver
  \/ \E i \in 1..(MaxQueue + MaxTokens) : RequestTimesOut(i)
  \/ PortLost
  \/ PortReconnects
  \/ DaemonAnswers
  \/ DeviceGone

Next ==
  \/ \E r \in Revoke : RevokeGoesOn(r)
  \/ Settled /\ Event

Spec == Init /\ [][Next]_vars

-----------------------------------------------------------------------------
(* Properties *)

\* Types of the background's ownership state (state.js:20-40).
TypeOK ==
  /\ place \in Seq(Place)
  /\ live \subseteq DOMAIN place
  /\ lifetime \in [Endpoint -> {"none", "active", "retired"}]
  /\ scope \in [Endpoint -> {"unset", "none", "site"}]
  /\ closedTabs \subseteq Tab
  /\ grant \in BOOLEAN /\ up \in BOOLEAN
  /\ revoked \in {"no", "interrupted", "done"}
  /\ owner \in [Token -> DOMAIN place \cup {Nobody}]
  /\ count \in [Tab -> 0..MaxTokens]
  /\ orphans \subseteq Token /\ alive \subseteq Token /\ opened \in 0..MaxTokens
  /\ rereading \subseteq [e: DOMAIN place, t: Token]
  /\ \A r \in Revoke :
       /\ revokes[r].stage \in {"idle", "removed", "closing", "next"}
       /\ revokes[r].by \in Endpoint \cup {Nobody}
       /\ revokes[r].todo \subseteq Token
  /\ \A i \in DOMAIN asked : asked[i].k \in Kind
  /\ \A i \in DOMAIN answers : answers[i].k \in Kind \cup {"gone"}

\* A close of t by the background itself is under way.
BeingCleaned(t) == \E a \in Waiting : a.k = "cleanup" /\ a.t = t /\ a.owned

\* A session is never left with a document that is gone: it is unregistered or
\* its close is under way, though the open may be answered after the document
\* was replaced (messages.js:740, state_ops.js:450).
RetiredFrameOwnsNothing ==
  \A t \in Token :
    owner[t] # Nobody /\ lifetime[owner[t]] # "active" => BeingCleaned(t)

\* A tab that was closed keeps no authority over the device (purgeTab).
ClosedTabHasNoAuthority == \A tab \in closedTabs : count[tab] = 0

\* What is gone owns nothing: documents no sessions, tabs no devices.
GoneOwnsNothing == TypeOK /\ RetiredFrameOwnsNothing /\ ClosedTabHasNoAuthority

\* A revocation that reported success has left the site no session, though opens
\* were under way while it ran (messages.js:443, 740).
RevocationHolds ==
  revoked = "done" => \A t \in Token : owner[t] = Nobody

\* The session's answer has not reached its caller yet.
OnItsWay(t) == \/ \E i \in DOMAIN answers : answers[i].k \in {"open", "lateOpen"} /\ answers[i].t = t
               \/ \E x \in rereading : x.t = t

\* A close of it is on the way to the daemon, or is kept for a retry.
OnItsWayOut(t) == \/ \E i \in DOMAIN asked : asked[i].k \in {"close", "cleanup", "drop"} /\ asked[i].t = t
                  \/ t \in orphans

Custody(t) ==
  IF t \notin alive THEN "none"
  ELSE IF OnItsWay(t) THEN "granted"
  ELSE IF OnItsWayOut(t) THEN "closing"
  ELSE IF owner[t] # Nobody THEN "held"
  ELSE "abandoned"

Sessions == INSTANCE SessionCustody WITH custody <- [t \in Token |-> Custody(t)]

\* The background implements SessionCustody: whatever documents, tabs, grants
\* and the port do, a session the daemon holds has an owner or is being closed.
SessionsInCustody == Sessions!Spec
===============================================================================
