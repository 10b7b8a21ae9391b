--------------------------- MODULE BackgroundProofs ---------------------------
(***************************************************************************)
(* What the background guarantees of its native messaging port, for any    *)
(* number of requests and ports and any deadline: every request is settled *)
(* once and in time, whatever answers, deadlines, host errors and lost     *)
(* ports race (RequestsServed), and no session of the daemon is left       *)
(* without a holder, by this table or by SessionOwnership's.               *)
(***************************************************************************)
EXTENDS MCBackground, SessionOwnershipProofs, WellFoundedInduction

USE PortAssumption DEF N!Nothing, N!NoTimer, N!Id

(* Requests in the table, on the way to the host and back *)

\* Somebody waits for the answer of an open, or it is watched for.
Awaited(n) ==
  n \in lateOpenRequests \/ (n \in DOMAIN pending /\ pending[n].kind = "open")

PendingWasSent == \A i \in DOMAIN pending : i < nextId

\* Requests the host has not taken: an open among them is awaited.
Posted ==
  /\ \A k \in DOMAIN toHost :
       /\ toHost[k].n < nextId
       /\ toHost[k].kind = "open" => Awaited(toHost[k].n)
       /\ toHost[k].kind # "close" => toHost[k].t = N!Nothing
  /\ \A i, j \in DOMAIN toHost : toHost[i].n = toHost[j].n => i = j

\* Answers not read: each is of another request, which the host took, and one
\* that grants a session is awaited.
Incoming ==
  /\ \A k \in DOMAIN fromHost :
       /\ fromHost[k].n < nextId
       /\ fromHost[k].t # N!Nothing => fromHost[k].t = fromHost[k].n /\ Awaited(fromHost[k].n)
  /\ \A i, j \in DOMAIN fromHost : fromHost[i].n = fromHost[j].n => i = j
  /\ \A i \in DOMAIN toHost, j \in DOMAIN fromHost : toHost[i].n # fromHost[j].n

\* A session is named by an open that the host has answered, and a caller that
\* holds one has read the answer.
Opened ==
  /\ \A t \in held : /\ t < nextId
                     /\ \A k \in DOMAIN toHost : toHost[k].n # t
                     /\ \A k \in DOMAIN fromHost : fromHost[k].n # t
  /\ \A t \in sessions : t < nextId /\ \A k \in DOMAIN toHost : toHost[k].n # t

\* What the state of the host leaves in the queues and in the table.
HostStates ==
  /\ host \in {"none", "dead"} => toHost = <<>>
  /\ host # "up" => sessions = {}
  /\ host = "starting" => fromHost = <<>>
  /\ \A k \in DOMAIN fromHost : fromHost[k] = N!HostError => host = "dead" /\ Len(fromHost) = 1
  /\ port = N!Nothing <=> host = "none"
  /\ port = N!Nothing => DOMAIN pending = {}

\* RequestsServed alone is not inductive: that an answer is awaited when it is
\* read rests on who is awaited while the request and the answer are queued.
PortInv == RequestsServed /\ PendingWasSent /\ HostStates /\ Posted /\ Incoming /\ Opened

-----------------------------------------------------------------------------
(* The table and its timer *)

LEMMA LeastOfNaturals ==
  ASSUME NEW S \in SUBSET Nat, S # {}
  PROVE  N!Least(S) \in S /\ \A x \in S : N!Least(S) <= x
  <1> DEFINE less == OpToRel(<, Nat)
  <1>1. \A p, q \in Nat : p < q => <<p, q>> \in less
    BY DEF OpToRel
  <1>2. IsWellFoundedOn(less, Nat)
    BY NatLessThanWellFounded
  <1> HIDE DEF less
  <1>3. PICK x \in S : \A y \in S : ~(<<y, x>> \in less)
    BY <1>2, WFMin
  <1>4. \A y \in S : x <= y
    <2> SUFFICES ASSUME NEW y \in S
                 PROVE  x <= y
      OBVIOUS
    <2>1. x \in Nat /\ y \in Nat /\ <<y, x>> \notin less
      BY <1>3
    <2>2. ~(y < x)
      BY <1>1, <2>1
    <2> QED BY <2>1, <2>2
  <1> QED BY <1>4 DEF N!Least

\* What a step does to the table: it sends a request, which may be thrown back,
\* retires all, answers one, expires those that are due, or lets time pass.
Sends(kind) ==
  /\ nextId \in N!Id /\ nextId' = nextId + 1
  /\ pending' = N!With(pending, nextId, kind)
  /\ timer' = N!Schedule(pending')
  /\ settled' = settled
Throws(kind) ==
  /\ nextId \in N!Id /\ nextId' = nextId + 1
  /\ pending' = pending
  /\ timer' = IF DOMAIN pending = {} THEN N!NoTimer ELSE N!Schedule(N!With(pending, nextId, kind))
  /\ N!Settle({nextId})
Retires ==
  /\ nextId' = nextId /\ pending' = <<>> /\ timer' = N!NoTimer
  /\ N!Settle(DOMAIN pending)
Answers(n) ==
  /\ n \in DOMAIN pending /\ nextId' = nextId
  /\ pending' = N!Without(pending, {n})
  /\ timer' = N!StopIfIdle(pending')
  /\ N!Settle({n})
Expires ==
  /\ nextId' = nextId /\ timer = 0
  /\ pending' = N!Without(pending, N!Expired)
  /\ timer' = N!TimerAfter(pending')
  /\ N!Settle(N!Expired)
TimePasses ==
  /\ nextId' = nextId /\ settled' = settled
  /\ pending' = [i \in DOMAIN pending |-> [pending[i] EXCEPT !.left = N!Down(@)]]
  /\ timer' = N!Down(timer)

TableStep ==
  \/ \E kind \in N!Kind : Sends(kind) \/ Throws(kind)
  \/ Retires
  \/ \E n \in N!Id : Answers(n)
  \/ Expires
  \/ TimePasses
  \/ UNCHANGED <<nextId, pending, timer, settled>>

\* The part of the type invariant that is about the table.
TableType ==
  /\ nextId \in 1..(MaxId + 1)
  /\ DOMAIN pending \subseteq N!Id /\ \A i \in DOMAIN pending : pending[i] \in N!Pending
  /\ timer \in N!NoTimer..Timeout
  /\ settled \in [N!Id -> Nat]

Table == TableType /\ N!SettledOnce /\ N!TimerCoversPending /\ PendingWasSent

\* A new request's deadline is the last: the timer need not be armed anew.
LEMMA ScheduleCovers ==
  ASSUME Table, nextId \in N!Id, NEW kind \in N!Kind
  PROVE  LET more == N!With(pending, nextId, kind)
         IN  /\ DOMAIN more = DOMAIN pending \cup {nextId}
             /\ \A i \in DOMAIN more : more[i] \in N!Pending
             /\ \A i \in DOMAIN pending : i # nextId => more[i] = pending[i]
             /\ more[nextId].kind = kind
             /\ N!Schedule(more) \in 0..Timeout
             /\ \A i \in DOMAIN more : N!Schedule(more) <= more[i].left
  <1> DEFINE more == N!With(pending, nextId, kind)
             new == [kind |-> kind, left |-> Timeout]
  <1>1. DOMAIN more = DOMAIN pending \cup {nextId} /\ more[nextId] = new
        /\ \A i \in DOMAIN pending : i # nextId => more[i] = pending[i]
    BY DEF N!With
  <1>2. new \in N!Pending /\ new.kind = kind /\ new.left = Timeout
    BY DEF N!Pending
  <1>3. \A i \in DOMAIN more : more[i] \in N!Pending
    BY <1>1, <1>2 DEF Table, TableType
  <1> HIDE DEF more, new
  <1>4. \A i \in DOMAIN pending : pending[i].left \in 0..Timeout
    BY DEF Table, TableType, N!Pending
  <1>5. CASE timer = N!NoTimer
    <2>1. DOMAIN pending = {}
      BY <1>5 DEF Table, N!TimerCoversPending
    <2>2. {more[i].left : i \in DOMAIN more} = {Timeout}
      BY <1>1, <1>2, <2>1
    <2>3. N!Least({Timeout}) = Timeout
      BY LeastOfNaturals
    <2>4. N!Schedule(more) = Timeout
      BY <1>1, <1>5, <2>2, <2>3 DEF N!Schedule, N!TimerAfter
    <2> QED BY <1>1, <1>2, <1>3, <2>1, <2>4 DEF more
  <1>6. CASE timer # N!NoTimer
    <2>1. timer \in 0..Timeout /\ \A i \in DOMAIN pending : timer <= pending[i].left
      BY <1>6 DEF Table, TableType, N!TimerCoversPending
    <2>2. N!Schedule(more) = timer
      BY <1>6 DEF N!Schedule
    <2>3. \A i \in DOMAIN more : timer <= more[i].left
      BY <1>1, <1>2, <2>1
    <2> QED BY <1>1, <1>2, <1>3, <2>1, <2>2, <2>3 DEF more
  <1> QED BY <1>5, <1>6

LEMMA Settling ==
  ASSUME TableType, NEW ids \in SUBSET N!Id, N!Settle(ids)
  PROVE  /\ settled' \in [N!Id -> Nat]
         /\ \A i \in N!Id : settled'[i] = IF i \in ids THEN settled[i] + 1 ELSE settled[i]
  BY DEF TableType, N!Settle

LEMMA SendsTable ==
  ASSUME Table, NEW kind \in N!Kind, Sends(kind)
  PROVE  Table'
  <1>1. /\ nextId \in N!Id /\ nextId' = nextId + 1 /\ settled' = settled
        /\ DOMAIN pending' = DOMAIN pending \cup {nextId}
        /\ \A i \in DOMAIN pending' : pending'[i] \in N!Pending
        /\ timer' \in 0..Timeout
        /\ \A i \in DOMAIN pending' : timer' <= pending'[i].left
    BY ScheduleCovers DEF Sends
  <1>2. TableType /\ N!SettledOnce /\ PendingWasSent /\ nextId \notin DOMAIN pending
    BY DEF Table, PendingWasSent, TableType
  <1>3. TableType'
    BY <1>1, <1>2 DEF TableType
  <1>4. N!SettledOnce'
    BY <1>1, <1>2 DEF N!SettledOnce, TableType
  <1>5. N!TimerCoversPending'
    BY <1>1 DEF N!TimerCoversPending
  <1>6. PendingWasSent'
    BY <1>1, <1>2 DEF PendingWasSent, TableType
  <1> QED BY <1>3, <1>4, <1>5, <1>6 DEF Table

LEMMA ThrowsTable ==
  ASSUME Table, NEW kind \in N!Kind, Throws(kind)
  PROVE  Table'
  <1>1. /\ nextId \in N!Id /\ nextId' = nextId + 1 /\ pending' = pending
        /\ timer' = IF DOMAIN pending = {} THEN N!NoTimer ELSE N!Schedule(N!With(pending, nextId, kind))
        /\ N!Settle({nextId})
    BY DEF Throws
  <1>2. TableType /\ N!SettledOnce /\ N!TimerCoversPending /\ PendingWasSent
    BY DEF Table
  <1>3. timer' = timer
    <2>1. CASE DOMAIN pending = {}
      BY <1>1, <1>2, <2>1 DEF N!TimerCoversPending
    <2>2. CASE DOMAIN pending # {}
      BY <1>1, <1>2, <2>2 DEF N!TimerCoversPending, N!Schedule
    <2> QED BY <2>1, <2>2
  <1>4. /\ settled' \in [N!Id -> Nat]
        /\ \A i \in N!Id : settled'[i] = IF i = nextId THEN settled[i] + 1 ELSE settled[i]
    BY <1>1, <1>2, Settling
  <1>5. TableType'
    BY <1>1, <1>2, <1>3, <1>4, SMTT(30) DEF TableType
  <1>6. nextId \notin DOMAIN pending
    BY <1>1, <1>2 DEF TableType, PendingWasSent
  <1>7. N!SettledOnce'
    BY <1>1, <1>2, <1>4, <1>6 DEF N!SettledOnce, TableType
  <1>8. N!TimerCoversPending' /\ PendingWasSent'
    BY <1>1, <1>2, <1>3 DEF N!TimerCoversPending, PendingWasSent, TableType
  <1> QED BY <1>5, <1>7, <1>8 DEF Table

LEMMA RetiresTable ==
  ASSUME Table, Retires
  PROVE  Table'
  <1>1. TableType /\ N!SettledOnce /\ PendingWasSent /\ DOMAIN pending \in SUBSET N!Id
    BY DEF Table, TableType
  <1>2. nextId' = nextId /\ DOMAIN pending' = {} /\ timer' = N!NoTimer
    BY EmptySeq DEF Retires
  <1>3. /\ settled' \in [N!Id -> Nat]
        /\ \A i \in N!Id : settled'[i] = IF i \in DOMAIN pending THEN settled[i] + 1 ELSE settled[i]
    BY <1>1, Settling DEF Retires
  <1>4. TableType'
    BY <1>1, <1>2, <1>3 DEF TableType
  <1>5. N!SettledOnce'
    BY <1>1, <1>2, <1>3, SMTT(30) DEF N!SettledOnce, TableType, PendingWasSent
  <1>6. N!TimerCoversPending' /\ PendingWasSent'
    BY <1>2 DEF N!TimerCoversPending, PendingWasSent
  <1> QED BY <1>4, <1>5, <1>6 DEF Table

\* Both an answer and the deadlines take requests out and settle those.
LEMMA TakenOut ==
  ASSUME Table, NEW ids \in SUBSET DOMAIN pending, nextId' = nextId,
         pending' = N!Without(pending, ids), N!Settle(ids)
  PROVE  /\ DOMAIN pending' = DOMAIN pending \ ids
         /\ \A i \in DOMAIN pending' : pending'[i] = pending[i]
         /\ \A i \in DOMAIN pending' : pending'[i] \in N!Pending
         /\ settled' \in [N!Id -> Nat]
         /\ N!SettledOnce' /\ PendingWasSent'
  <1>1. TableType /\ N!SettledOnce /\ PendingWasSent /\ ids \in SUBSET N!Id
    BY DEF Table, TableType
  <1>2. DOMAIN pending' = DOMAIN pending \ ids /\ \A i \in DOMAIN pending' : pending'[i] = pending[i]
    BY DEF N!Without
  <1>3. /\ settled' \in [N!Id -> Nat]
        /\ \A i \in N!Id : settled'[i] = IF i \in ids THEN settled[i] + 1 ELSE settled[i]
    BY <1>1, Settling
  <1>4. N!SettledOnce'
    BY <1>1, <1>2, <1>3 DEF N!SettledOnce, TableType, PendingWasSent
  <1>5. PendingWasSent' /\ \A i \in DOMAIN pending' : pending'[i] \in N!Pending
    BY <1>1, <1>2 DEF PendingWasSent, TableType
  <1> QED BY <1>2, <1>3, <1>4, <1>5

LEMMA AnswersTable ==
  ASSUME Table, NEW n \in N!Id, Answers(n)
  PROVE  Table'
  <1>1. /\ DOMAIN pending' = DOMAIN pending \ {n}
        /\ \A i \in DOMAIN pending' : pending'[i] = pending[i] /\ pending'[i] \in N!Pending
        /\ settled' \in [N!Id -> Nat] /\ N!SettledOnce' /\ PendingWasSent'
    BY TakenOut DEF Answers
  <1>2. timer' = IF DOMAIN pending' = {} THEN N!NoTimer ELSE timer
    BY DEF Answers, N!StopIfIdle
  <1>3. TableType /\ N!TimerCoversPending /\ nextId' = nextId
    BY DEF Table, Answers
  <1>4. TableType'
    BY <1>1, <1>2, <1>3 DEF TableType
  <1>5. N!TimerCoversPending'
    BY <1>1, <1>2, <1>3 DEF N!TimerCoversPending
  <1> QED BY <1>1, <1>4, <1>5 DEF Table

LEMMA ExpiresTable ==
  ASSUME Table, Expires
  PROVE  Table'
  <1>1. TableType /\ nextId' = nextId /\ N!Expired \in SUBSET DOMAIN pending
    BY DEF Table, Expires, N!Expired
  <1>2. /\ DOMAIN pending' = DOMAIN pending \ N!Expired
        /\ \A i \in DOMAIN pending' : pending'[i] \in N!Pending
        /\ settled' \in [N!Id -> Nat] /\ N!SettledOnce' /\ PendingWasSent'
    BY <1>1, TakenOut DEF Expires
  <1>3. timer' = N!TimerAfter(pending')
    BY DEF Expires
  <1> DEFINE lefts == {pending'[i].left : i \in DOMAIN pending'}
  <1>4. lefts \in SUBSET (0..Timeout)
    BY <1>2 DEF N!Pending
  <1>5. CASE DOMAIN pending' = {}
    <2>1. timer' = N!NoTimer
      BY <1>3, <1>5 DEF N!TimerAfter
    <2> QED BY <1>1, <1>2, <1>5, <2>1 DEF Table, TableType, N!TimerCoversPending
  <1>6. CASE DOMAIN pending' # {}
    <2>1. timer' = N!Least(lefts)
      BY <1>3, <1>6 DEF N!TimerAfter
    <2>2. lefts \in SUBSET Nat /\ lefts # {}
      BY <1>4, <1>6
    <2> HIDE DEF lefts
    <2>3. timer' \in lefts /\ \A x \in lefts : timer' <= x
      BY <2>1, <2>2, LeastOfNaturals
    <2>4. timer' \in 0..Timeout
      BY <1>4, <2>3
    <2>5. \A i \in DOMAIN pending' : timer' <= pending'[i].left
      BY <2>3 DEF lefts
    <2>6. TableType'
      BY <1>1, <1>2, <2>4 DEF TableType
    <2>7. N!TimerCoversPending'
      BY <1>6, <2>4, <2>5 DEF N!TimerCoversPending
    <2> QED BY <1>2, <2>6, <2>7 DEF Table
  <1> QED BY <1>5, <1>6

LEMMA TimePassesTable ==
  ASSUME Table, TimePasses
  PROVE  Table'
  <1>1. TableType /\ N!SettledOnce /\ N!TimerCoversPending /\ PendingWasSent
    BY DEF Table
  <1>2. /\ nextId' = nextId /\ settled' = settled /\ timer' = N!Down(timer)
        /\ DOMAIN pending' = DOMAIN pending
    BY DEF TimePasses
  <1>3. ASSUME NEW i \in DOMAIN pending
        PROVE  pending'[i] \in N!Pending /\ pending'[i].left = N!Down(pending[i].left)
    <2>1. pending'[i] = [pending[i] EXCEPT !.left = N!Down(@)]
      BY <1>3 DEF TimePasses
    <2>2. PICK p \in N!Pending : p = pending[i]
      BY <1>1, <1>3 DEF TableType
    <2>3. [p EXCEPT !.left = N!Down(p.left)] \in N!Pending
      BY <2>2 DEF N!Pending, N!Down
    <2> QED BY <2>1, <2>2, <2>3 DEF N!Pending
  <1>4. timer' \in N!NoTimer..Timeout /\ (timer' = N!NoTimer <=> timer = N!NoTimer)
    BY <1>1, <1>2 DEF TableType, N!Down
  <1>5. ASSUME NEW i \in DOMAIN pending
        PROVE  timer' <= pending'[i].left
    <2>1. timer <= pending[i].left /\ pending[i].left \in 0..Timeout /\ timer \in N!NoTimer..Timeout
      BY <1>1, <1>5 DEF TableType, N!TimerCoversPending, N!Pending
    <2> QED BY <1>2, <1>3, <2>1 DEF N!Down
  <1>6. TableType'
    BY <1>1, <1>2, <1>3, <1>4 DEF TableType
  <1>7. N!SettledOnce' /\ PendingWasSent'
    BY <1>1, <1>2 DEF N!SettledOnce, PendingWasSent
  <1>8. N!TimerCoversPending'
    BY <1>1, <1>2, <1>4, <1>5 DEF N!TimerCoversPending
  <1> QED BY <1>6, <1>7, <1>8 DEF Table

LEMMA TableHolds ==
  ASSUME Table, TableStep
  PROVE  Table'
  <1>1. CASE UNCHANGED <<nextId, pending, timer, settled>>
    BY <1>1 DEF Table, TableType, N!SettledOnce, N!TimerCoversPending, PendingWasSent
  <1>2. CASE \E kind \in N!Kind : Sends(kind) \/ Throws(kind)
    BY <1>2, SendsTable, ThrowsTable
  <1>3. CASE \E n \in N!Id : Answers(n)
    BY <1>3, AnswersTable
  <1> QED BY <1>1, <1>2, <1>3, RetiresTable, ExpiresTable, TimePassesTable DEF TableStep

-----------------------------------------------------------------------------
(* The steps of the port *)

\* sendFrame: the request is posted, vanishes in a dead port, or is thrown back.
Frames(kind, t) ==
  \/ /\ host \in {"starting", "up"} /\ Sends(kind)
     /\ toHost' = Append(toHost, [n |-> nextId, kind |-> kind, t |-> t])
  \/ host = "dead" /\ Sends(kind) /\ toHost' = toHost
  \/ (host = "dead" \/ kind = "call") /\ Throws(kind) /\ toHost' = toHost

LEMMA SendFrameCases ==
  ASSUME NEW kind \in N!Kind, NEW t, N!SendFrame(kind, t)
  PROVE  Frames(kind, t)
  BY DEF N!SendFrame, Frames, Sends, Throws

LEMMA Kinds == {"open", "close", "handshake", "call"} = N!Kind
  BY DEF N!Kind

LEMMA FramesTable ==
  ASSUME NEW kind \in N!Kind, NEW t, Frames(kind, t)
  PROVE  TableStep
  BY DEF Frames, TableStep

LEMMA TableIsTyped ==
  ASSUME N!TypeOK
  PROVE  TableType
  BY DEF N!TypeOK, TableType

LEMMA NextTable ==
  ASSUME N!TypeOK, N!Next
  PROVE  TableStep
  <1>1. CASE N!Call \/ N!OpenDevice \/ N!Handshake \/ \E t \in N!Id : N!CloseDevice(t)
    BY <1>1, Kinds, SendFrameCases, FramesTable DEF N!Call, N!OpenDevice, N!Handshake, N!CloseDevice
  <1>2. CASE N!ConnectOnDemand
    BY <1>2 DEF N!ConnectOnDemand, N!callVars, TableStep
  <1>3. CASE N!ReconnectFires
    BY <1>3 DEF N!ReconnectFires, N!callVars, TableStep
  <1>4. CASE N!Disconnected
    BY <1>4 DEF N!Disconnected, N!RetirePort, TableStep, Retires
  <1>5. CASE N!SwitchHost
    BY <1>5 DEF N!SwitchHost, N!RetirePort, N!callVars, TableStep, Retires
  <1>6. CASE N!HostErrorArrives
    BY <1>6 DEF N!HostErrorArrives, TableStep, Retires
  <1>7. CASE N!AnswerArrives
    <2>1. PICK n : n \in DOMAIN pending /\ Answers(n)
      BY <1>7 DEF N!AnswerArrives, Answers
    <2>2. n \in N!Id
      BY <2>1 DEF N!TypeOK
    <2> QED BY <2>1, <2>2 DEF TableStep
  <1>8. CASE N!LateOpenArrives
    <2>1. N!SendFrame("close", Head(fromHost).t) \/ UNCHANGED <<nextId, pending, timer, settled>>
      BY <1>8 DEF N!LateOpenArrives
    <2> QED BY <2>1, Kinds, SendFrameCases, FramesTable DEF TableStep
  <1>9. CASE N!StrayAnswerArrives
    BY <1>9 DEF N!StrayAnswerArrives, N!callVars, TableStep
  <1>10. CASE N!TimeoutFires
    BY <1>10 DEF N!TimeoutFires, TableStep, Expires
  <1>11. CASE N!Tick
    BY <1>11 DEF N!Tick, TableStep, TimePasses
  <1>12. CASE N!HostStarts
    BY <1>12 DEF N!HostStarts, N!callVars, TableStep
  <1>13. CASE N!HostAnswers
    BY <1>13 DEF N!HostAnswers, N!callVars, TableStep
  <1>14. CASE N!HostDies
    BY <1>14 DEF N!HostDies, N!callVars, TableStep
  <1> QED
    BY <1>1, <1>2, <1>3, <1>4, <1>5, <1>6, <1>7, <1>8, <1>9, <1>10, <1>11, <1>12, <1>13, <1>14 DEF N!Next

\* The rest of the type invariant.
QueueType ==
  /\ toHost \in Seq(N!Request)
  /\ fromHost \in Seq(N!Answer \cup {N!HostError})
  /\ sessions \subseteq N!Id

LEMMA FramesType ==
  ASSUME N!TypeOK, NEW kind \in N!Kind, NEW t \in N!Id \cup {N!Nothing}, Frames(kind, t)
  PROVE  toHost' \in Seq(N!Request)
  <1>1. toHost \in Seq(N!Request)
    BY DEF N!TypeOK
  <1>2. CASE toHost' = toHost
    BY <1>1, <1>2
  <1>3. CASE Sends(kind) /\ toHost' = Append(toHost, [n |-> nextId, kind |-> kind, t |-> t])
    <2>1. [n |-> nextId, kind |-> kind, t |-> t] \in N!Request
      BY <1>3 DEF Sends, N!Request
    <2> QED BY <1>1, <1>3, <2>1
  <1> QED BY <1>2, <1>3 DEF Frames

\* The head of a nonempty queue, and what is left without it.
LEMMA QueueHead ==
  ASSUME NEW T, NEW q \in Seq(T), q # <<>>
  PROVE  /\ Head(q) \in T /\ Head(q) = q[1] /\ 1 \in DOMAIN q /\ Tail(q) \in Seq(T)
         /\ Len(q) \in Nat \ {0}
         /\ DOMAIN q = 1..Len(q) /\ DOMAIN Tail(q) = 1..(Len(q) - 1)
         /\ \A k \in DOMAIN Tail(q) : Tail(q)[k] = q[k + 1] /\ k + 1 \in DOMAIN q
  OBVIOUS

LEMMA Replies ==
  ASSUME N!TypeOK, N!HostAnswers
  PROVE  \E r \in N!Request, a \in N!Answer :
           /\ host = "up" /\ toHost # <<>> /\ r = Head(toHost) /\ toHost' = Tail(toHost)
           /\ a.n = r.n /\ fromHost' = Append(fromHost, a)
           /\ \/ r.kind = "open" /\ a.t = r.n /\ sessions' = sessions \cup {r.n}
              \/ r.kind = "open" /\ a.t = N!Nothing /\ sessions' = sessions
              \/ r.kind # "open" /\ a.t = N!Nothing /\ sessions' = sessions
              \/ r.kind # "open" /\ a.t = N!Nothing /\ sessions' = sessions \ {r.t}
           /\ r.kind = "close" => sessions' = sessions \ {r.t}
  <1>1. PICK r \in N!Request : r = Head(toHost)
    BY QueueHead DEF N!HostAnswers, N!TypeOK
  <1>2. host = "up" /\ toHost # <<>> /\ toHost' = Tail(toHost)
    BY DEF N!HostAnswers
  <1>3. r.n \in N!Id
    BY DEF N!Request
  <1> DEFINE ok(t) == [n |-> r.n, s |-> "ok", t |-> t]
             fail == [n |-> r.n, s |-> "fail", t |-> N!Nothing]
  <1>4. ok(r.n) \in N!Answer /\ ok(N!Nothing) \in N!Answer /\ fail \in N!Answer
    BY <1>3 DEF N!Answer
  <1>5. \/ r.kind = "open" /\ sessions' = sessions \cup {r.n} /\ fromHost' = Append(fromHost, ok(r.n))
        \/ r.kind \notin {"close", "handshake"} /\ fromHost' = Append(fromHost, fail) /\ sessions' = sessions
        \/ r.kind # "open" /\ fromHost' = Append(fromHost, ok(N!Nothing)) /\ sessions' = sessions \ {r.t}
    BY <1>1 DEF N!HostAnswers
  <1>6. CASE r.kind = "open" /\ sessions' = sessions \cup {r.n} /\ fromHost' = Append(fromHost, ok(r.n))
    BY <1>1, <1>2, <1>4, <1>6
  <1>7. CASE r.kind \notin {"close", "handshake"} /\ fromHost' = Append(fromHost, fail) /\ sessions' = sessions
    BY <1>1, <1>2, <1>4, <1>7
  <1>8. CASE r.kind # "open" /\ fromHost' = Append(fromHost, ok(N!Nothing)) /\ sessions' = sessions \ {r.t}
    BY <1>1, <1>2, <1>4, <1>8
  <1> QED BY <1>5, <1>6, <1>7, <1>8

-----------------------------------------------------------------------------
(* Types, the shared handshake and the replacement of the port *)

PortType ==
  /\ ports \in 0..MaxPorts /\ port \in {N!Nothing, ports}
  /\ armed \in N!Delay \cup {N!Nothing} /\ delay \in N!Delay
  /\ host \in {"none", "starting", "up", "dead"}

CallerType ==
  /\ lateOpenRequests \subseteq N!Id
  /\ handshake \in [port: 0..MaxPorts, n: N!Id \cup {N!Nothing}]
  /\ held \subseteq N!Id

LEMMA TypeParts == N!TypeOK <=> TableType /\ PortType /\ CallerType /\ QueueType
  BY DEF N!TypeOK, TableType, PortType, CallerType, QueueType

\* What a step does to the port and its reconnect timer.
LEMMA PortCases ==
  ASSUME N!Next
  PROVE  \/ UNCHANGED <<port, ports, armed, delay, host>>
         \/ UNCHANGED <<port, ports, armed, delay>> /\ (N!HostStarts \/ N!HostDies)
         \/ /\ N!ReconnectFires /\ armed' = N!Nothing /\ port # N!Nothing
            /\ UNCHANGED <<port, ports, delay, host, toHost, fromHost, sessions>>
         \/ N!Connected /\ armed' \in {armed, N!Nothing}
         \/ \E was \in {armed, N!Nothing}, d \in {delay, 1} : N!ConnectFailed(was, d)
         \/ N!Disconnected
  <1>1. CASE N!Call \/ N!OpenDevice \/ N!Handshake \/ \E t \in N!Id : N!CloseDevice(t)
    BY <1>1 DEF N!Call, N!OpenDevice, N!Handshake, N!CloseDevice, N!portVars
  <1>2. CASE N!ConnectOnDemand
    BY <1>2 DEF N!ConnectOnDemand
  <1>3. CASE N!ReconnectFires
    BY <1>3 DEF N!ReconnectFires
  <1>4. CASE N!SwitchHost
    BY <1>4 DEF N!SwitchHost
  <1>5. CASE N!HostErrorArrives \/ N!AnswerArrives \/ N!LateOpenArrives \/ N!StrayAnswerArrives
    BY <1>5 DEF N!HostErrorArrives, N!AnswerArrives, N!LateOpenArrives, N!StrayAnswerArrives, N!portVars
  <1>6. CASE N!TimeoutFires \/ N!Tick \/ N!HostAnswers
    BY <1>6 DEF N!TimeoutFires, N!Tick, N!HostAnswers, N!portVars
  <1>7. CASE N!HostStarts \/ N!HostDies
    BY <1>7 DEF N!HostStarts, N!HostDies
  <1> QED BY <1>1, <1>2, <1>3, <1>4, <1>5, <1>6, <1>7 DEF N!Next

LEMMA ScheduleReconnectType ==
  ASSUME NEW was \in N!Delay \cup {N!Nothing}, NEW d \in N!Delay, N!ScheduleReconnect(was, d)
  PROVE  armed' \in N!Delay /\ delay' \in N!Delay
  BY DEF N!ScheduleReconnect, N!Delay

LEMMA PortStep ==
  ASSUME PortType, N!PortIsReplaced, N!Next
  PROVE  PortType' /\ N!PortIsReplaced'
  <1>0. 1 \in N!Delay
    BY DEF N!Delay
  <1>1. CASE UNCHANGED <<port, ports, armed, delay, host>>
    BY <1>1 DEF PortType, N!PortIsReplaced
  <1>2. CASE UNCHANGED <<port, ports, armed, delay>> /\ (N!HostStarts \/ N!HostDies)
    BY <1>2 DEF PortType, N!PortIsReplaced, N!HostStarts, N!HostDies
  <1>3. CASE /\ armed' = N!Nothing /\ port # N!Nothing
             /\ UNCHANGED <<port, ports, delay, host>>
    BY <1>3 DEF PortType, N!PortIsReplaced
  <1>4. CASE N!Connected /\ armed' \in {armed, N!Nothing}
    BY <1>0, <1>4 DEF PortType, N!PortIsReplaced, N!Connected
  <1>5. CASE \E was \in {armed, N!Nothing}, d \in {delay, 1} : N!ConnectFailed(was, d)
    <2>1. PICK was \in N!Delay \cup {N!Nothing}, d \in N!Delay : N!ConnectFailed(was, d)
      BY <1>0, <1>5 DEF PortType
    <2>2. armed' \in N!Delay /\ delay' \in N!Delay
      BY <2>1, ScheduleReconnectType DEF N!ConnectFailed
    <2>3. armed' # N!Nothing
      BY <2>2 DEF N!Delay
    <2> QED BY <2>1, <2>2, <2>3 DEF PortType, N!PortIsReplaced, N!ConnectFailed
  <1>6. CASE N!Disconnected
    <2>1. armed' \in N!Delay /\ delay' \in N!Delay
      BY <1>6, ScheduleReconnectType DEF N!Disconnected, PortType
    <2>2. armed' # N!Nothing
      BY <2>1 DEF N!Delay
    <2> QED BY <1>6, <2>1, <2>2 DEF PortType, N!PortIsReplaced, N!Disconnected
  <1> QED BY <1>1, <1>2, <1>3, <1>4, <1>5, <1>6, PortCases

LEMMA QueueTypeStep ==
  ASSUME N!TypeOK, N!Next
  PROVE  QueueType'
  <1>1. toHost \in Seq(N!Request) /\ fromHost \in Seq(N!Answer \cup {N!HostError}) /\ sessions \subseteq N!Id
    BY DEF N!TypeOK
  <1>2. CASE N!Call \/ N!OpenDevice \/ N!Handshake
    <2>1. \E kind \in N!Kind : Frames(kind, N!Nothing)
      BY <1>2, Kinds, SendFrameCases DEF N!Call, N!OpenDevice, N!Handshake
    <2>2. fromHost' = fromHost /\ sessions' = sessions
      BY <1>2 DEF N!Call, N!OpenDevice, N!Handshake
    <2> QED BY <1>1, <2>1, <2>2, FramesType DEF QueueType
  <1>3. CASE \E t \in N!Id : N!CloseDevice(t)
    BY <1>1, <1>3, Kinds, SendFrameCases, FramesType DEF N!CloseDevice, QueueType
  <1>4. CASE toHost' = <<>> /\ fromHost' = <<>> /\ sessions' = {}
    BY <1>4 DEF QueueType
  <1>5. CASE UNCHANGED <<toHost, fromHost, sessions>>
    BY <1>1, <1>5 DEF QueueType
  <1>6. CASE N!ConnectOnDemand \/ N!ReconnectFires \/ N!SwitchHost
    <2>1. \/ toHost' = <<>> /\ fromHost' = <<>> /\ sessions' = {}
          \/ UNCHANGED <<toHost, fromHost, sessions>>
      BY <1>6 DEF N!ConnectOnDemand, N!ReconnectFires, N!SwitchHost, N!Connected, N!ConnectFailed
    <2> QED BY <1>4, <1>5, <2>1
  <1>7. CASE N!Disconnected \/ N!TimeoutFires \/ N!Tick \/ N!HostStarts
    BY <1>5, <1>7 DEF N!Disconnected, N!TimeoutFires, N!Tick, N!HostStarts
  <1>8. CASE N!HostErrorArrives \/ N!AnswerArrives \/ N!StrayAnswerArrives
    <2>1. fromHost # <<>> /\ fromHost' = Tail(fromHost) /\ toHost' = toHost /\ sessions' = sessions
      BY <1>8 DEF N!HostErrorArrives, N!AnswerArrives, N!StrayAnswerArrives
    <2> QED BY <1>1, <2>1, QueueHead DEF QueueType
  <1>9. CASE N!LateOpenArrives
    <2>1. fromHost # <<>> /\ fromHost' = Tail(fromHost) /\ sessions' = sessions
      BY <1>9 DEF N!LateOpenArrives
    <2>2. fromHost' \in Seq(N!Answer \cup {N!HostError})
      BY <1>1, <2>1, QueueHead
    <2>3. Head(fromHost).t \in N!Id \cup {N!Nothing}
      <3>1. Head(fromHost) \in N!Answer \cup {N!HostError}
        BY <1>1, <2>1, QueueHead
      <3> QED BY <3>1 DEF N!Answer, N!HostError
    <2>4. N!SendFrame("close", Head(fromHost).t) \/ toHost' = toHost
      BY <1>9 DEF N!LateOpenArrives
    <2>5. toHost' \in Seq(N!Request)
      BY <1>1, <2>3, <2>4, Kinds, SendFrameCases, FramesType
    <2> QED BY <1>1, <2>1, <2>2, <2>5 DEF QueueType
  <1>10. CASE N!HostAnswers
    <2>1. PICK r \in N!Request, a \in N!Answer :
             /\ toHost # <<>> /\ toHost' = Tail(toHost) /\ fromHost' = Append(fromHost, a)
             /\ sessions' \subseteq sessions \cup {r.n}
      BY <1>10, Replies
    <2>2. r.n \in N!Id
      BY DEF N!Request
    <2>3. toHost' \in Seq(N!Request)
      BY <1>1, <2>1, QueueHead
    <2> QED BY <1>1, <2>1, <2>2, <2>3 DEF QueueType
  <1>11. CASE N!HostDies
    <2>1. toHost' = <<>> /\ sessions' = {}
      BY <1>11 DEF N!HostDies
    <2>2. \/ \E k \in 0..Len(fromHost) : fromHost' = SubSeq(fromHost, 1, k)
          \/ fromHost' = Append(fromHost, N!HostError)
      BY <1>11 DEF N!HostDies
    <2> DEFINE Q == N!Answer \cup {N!HostError}
    <2>3. fromHost \in Seq(Q) /\ N!HostError \in Q
      BY <1>1
    <2> HIDE DEF Q
    <2>4. \A k \in 0..Len(fromHost) : SubSeq(fromHost, 1, k) \in Seq(Q)
      BY <2>3
    <2>5. Append(fromHost, N!HostError) \in Seq(Q)
      BY <2>3
    <2>6. fromHost' \in Seq(Q)
      BY <2>2, <2>4, <2>5
    <2> QED BY <2>1, <2>6 DEF QueueType, Q
  <1> QED
    BY <1>2, <1>3, <1>6, <1>7, <1>8, <1>9, <1>10, <1>11 DEF N!Next

\* What a step does to what callers wait for and hold.
LEMMA FramesGrow ==
  ASSUME N!TypeOK, NEW kind \in N!Kind, NEW t, Frames(kind, t)
  PROVE  /\ DOMAIN pending \subseteq DOMAIN pending'
         /\ DOMAIN pending' \subseteq DOMAIN pending \cup {nextId}
         /\ nextId \in N!Id
  <1>1. CASE Sends(kind)
    BY <1>1 DEF Sends, N!With
  <1>2. CASE Throws(kind)
    BY <1>2 DEF Throws
  <1> QED BY <1>1, <1>2 DEF Frames

LEMMA HandshakeStep ==
  ASSUME N!TypeOK, N!HandshakeCurrent, HostStates, PortType', N!Next
  PROVE  CallerType' /\ N!HandshakeCurrent'
  <1> USE DEF CallerType, N!HandshakeCurrent
  <1>1. CallerType /\ PortType /\ N!NoHandshake \in [port: 0..MaxPorts, n: N!Id \cup {N!Nothing}]
    BY TypeParts, SMTT(30) DEF N!NoHandshake, N!TypeOK
  <1>2. CASE N!Call \/ N!OpenDevice
    <2>1. \E kind \in N!Kind : Frames(kind, N!Nothing)
      BY <1>2, Kinds, SendFrameCases DEF N!Call, N!OpenDevice
    <2>2. UNCHANGED <<port, lateOpenRequests, handshake, held>>
      BY <1>2 DEF N!Call, N!OpenDevice, N!portVars
    <2> QED BY <1>1, <2>1, <2>2, FramesGrow
  <1>3. CASE \E t \in N!Id : N!CloseDevice(t)
    <2>1. PICK t \in N!Id : N!CloseDevice(t)
      BY <1>3
    <2>2. Frames("close", t)
      BY <2>1, Kinds, SendFrameCases DEF N!CloseDevice
    <2>3. UNCHANGED <<port, lateOpenRequests, handshake>> /\ held' \subseteq held
      BY <2>1 DEF N!CloseDevice, N!portVars
    <2> QED BY <1>1, <2>2, <2>3, Kinds, FramesGrow
  <1>4. CASE N!Handshake
    <2>1. Frames("handshake", N!Nothing)
      BY <1>4, Kinds, SendFrameCases DEF N!Handshake
    <2>2. nextId \in N!Id /\ UNCHANGED <<port, lateOpenRequests, held>>
      BY <1>4, <2>1, Kinds, FramesGrow DEF N!Handshake, N!portVars
    <2>3. \/ nextId \in DOMAIN pending' /\ handshake' = [port |-> port, n |-> nextId]
          \/ handshake' = N!NoHandshake
      BY <1>4 DEF N!Handshake
    <2>4. [port |-> port, n |-> nextId] \in [port: 0..MaxPorts, n: N!Id \cup {N!Nothing}]
      BY <1>1, <2>2 DEF PortType
    <2> QED BY <1>1, <2>2, <2>3, <2>4
  <1>5. CASE N!ConnectOnDemand \/ N!ReconnectFires
    <2>1. UNCHANGED <<pending, lateOpenRequests, handshake, held>>
      BY <1>5 DEF N!ConnectOnDemand, N!ReconnectFires, N!callVars
    <2>2. port # N!Nothing => port' = port
      BY <1>5 DEF N!ConnectOnDemand, N!ReconnectFires
    <2>3. port = N!Nothing => handshake = N!NoHandshake
      BY DEF HostStates
    <2> QED BY <1>1, <2>1, <2>2, <2>3
  <1>6. CASE N!RetirePort
    BY <1>1, <1>6 DEF N!RetirePort
  <1>7. CASE N!SwitchHost
    <2>1. CASE port = N!Nothing
      <3>1. UNCHANGED <<pending, lateOpenRequests, handshake, held>>
        BY <1>7, <2>1 DEF N!SwitchHost, N!callVars
      <3>2. handshake = N!NoHandshake
        BY <2>1 DEF HostStates
      <3> QED BY <1>1, <3>1, <3>2
    <2> QED BY <1>6, <1>7, <2>1 DEF N!SwitchHost
  <1>8. CASE N!HostErrorArrives
    BY <1>1, <1>8 DEF N!HostErrorArrives, N!portVars
  <1>9. CASE N!AnswerArrives
    <2> DEFINE a == Head(fromHost)
    <2>1. /\ DOMAIN pending' = DOMAIN pending \ {a.n}
          /\ handshake' = IF handshake.n = a.n THEN N!NoHandshake ELSE handshake
          /\ UNCHANGED <<port, lateOpenRequests>>
          /\ held' = IF a.t # N!Nothing THEN held \cup {a.t} ELSE held
      BY <1>9 DEF N!AnswerArrives, N!Without
    <2>2. a.t \in N!Id \cup {N!Nothing}
      <3>1. a \in N!Answer \cup {N!HostError}
        BY <1>9, QueueHead DEF N!AnswerArrives, N!TypeOK
      <3> QED BY <3>1 DEF N!Answer, N!HostError
    <2> HIDE DEF a
    <2> QED BY <1>1, <2>1, <2>2
  <1>10. CASE N!LateOpenArrives
    <2>1. N!SendFrame("close", Head(fromHost).t) \/ pending' = pending
      BY <1>10 DEF N!LateOpenArrives
    <2>2. DOMAIN pending \subseteq DOMAIN pending'
      BY <2>1, Kinds, SendFrameCases, FramesGrow
    <2>3. UNCHANGED <<port, handshake, held>> /\ lateOpenRequests' \subseteq lateOpenRequests
      BY <1>10 DEF N!LateOpenArrives
    <2> QED BY <1>1, <2>2, <2>3
  <1>11. CASE N!TimeoutFires
    <2>1. /\ DOMAIN pending' = DOMAIN pending \ N!Expired
          /\ handshake' = IF handshake.n \in N!Expired THEN N!NoHandshake ELSE handshake
          /\ UNCHANGED <<port, held>>
          /\ lateOpenRequests' = lateOpenRequests \cup N!LateOpens(N!Expired)
      BY <1>11 DEF N!TimeoutFires, N!Without, N!portVars
    <2>2. N!LateOpens(N!Expired) \subseteq N!Id
      BY DEF N!LateOpens, N!Expired, N!TypeOK
    <2> QED BY <1>1, <2>1, <2>2
  <1>12. CASE N!Tick
    BY <1>1, <1>12 DEF N!Tick, N!portVars
  <1>13. CASE N!StrayAnswerArrives \/ N!HostStarts \/ N!HostAnswers \/ N!HostDies
    BY <1>1, <1>13 DEF N!StrayAnswerArrives, N!HostStarts, N!HostAnswers, N!HostDies, N!callVars, N!portVars
  <1> QED
    BY <1>2, <1>3, <1>4, <1>5, <1>6, <1>7, <1>8, <1>9, <1>10, <1>11, <1>12, <1>13 DEF N!Next, N!Disconnected

-----------------------------------------------------------------------------
(* The host and the two queues *)

\* A new port starts with empty queues and no session, and so does none.
LEMMA NewPort ==
  ASSUME N!TypeOK, N!Connected \/ (\E was, d : N!ConnectFailed(was, d)), DOMAIN pending' = {} \/ pending' = pending,
         port = N!Nothing \/ DOMAIN pending' = {}, HostStates
  PROVE  HostStates'
  <1>1. toHost' = <<>> /\ fromHost' = <<>> /\ sessions' = {}
    BY DEF N!Connected, N!ConnectFailed
  <1>2. \/ host' = "starting" /\ port' # N!Nothing
        \/ host' = "none" /\ port' = N!Nothing
    BY DEF N!Connected, N!ConnectFailed, N!TypeOK
  <1>3. DOMAIN fromHost' = {} /\ DOMAIN pending' = {}
    BY <1>1, EmptySeq DEF HostStates
  <1> QED BY <1>1, <1>2, <1>3 DEF HostStates

LEMMA HostStatesStep ==
  ASSUME N!TypeOK, HostStates, N!Next
  PROVE  HostStates'
  <1>0. toHost \in Seq(N!Request) /\ fromHost \in Seq(N!Answer \cup {N!HostError})
    BY DEF N!TypeOK
  <1>1. CASE N!Call \/ N!OpenDevice \/ N!Handshake \/ \E t \in N!Id : N!CloseDevice(t)
    <2>1. PICK kind \in N!Kind, t \in N!Id \cup {N!Nothing} : Frames(kind, t)
      BY <1>1, Kinds, SendFrameCases DEF N!Call, N!OpenDevice, N!Handshake, N!CloseDevice
    <2>2. UNCHANGED <<port, host, fromHost, sessions>> /\ port # N!Nothing
      BY <1>1 DEF N!Call, N!OpenDevice, N!Handshake, N!CloseDevice, N!portVars
    <2>3. host \in {"none", "dead"} => toHost' = <<>>
      BY <2>1 DEF Frames, HostStates
    <2> QED BY <2>2, <2>3 DEF HostStates
  <1>2. CASE N!ConnectOnDemand
    BY <1>2, NewPort DEF N!ConnectOnDemand, N!callVars
  <1>3. CASE N!ReconnectFires
    <2>1. CASE port = N!Nothing
      BY <1>3, <2>1, NewPort DEF N!ReconnectFires, N!callVars
    <2>2. CASE port # N!Nothing
      BY <1>3, <2>2 DEF N!ReconnectFires, N!callVars, HostStates
    <2> QED BY <2>1, <2>2
  <1>4. CASE N!SwitchHost
    <2>1. N!Connected \/ \E was, d : N!ConnectFailed(was, d)
      BY <1>4 DEF N!SwitchHost
    <2>2. CASE port = N!Nothing
      <3>1. pending' = pending
        BY <1>4, <2>2 DEF N!SwitchHost, N!callVars
      <3> QED BY <2>1, <2>2, <3>1, NewPort
    <2>3. CASE port # N!Nothing
      <3>1. DOMAIN pending' = {}
        BY <1>4, <2>3, EmptySeq DEF N!SwitchHost, N!RetirePort
      <3> QED BY <2>1, <3>1, NewPort
    <2> QED BY <2>2, <2>3
  <1>5. CASE N!Disconnected
    BY <1>5, EmptySeq DEF N!Disconnected, N!RetirePort, HostStates
  <1>6. CASE N!HostErrorArrives \/ N!AnswerArrives \/ N!StrayAnswerArrives
    <2>1. /\ fromHost # <<>> /\ fromHost' = Tail(fromHost)
          /\ UNCHANGED <<port, host, toHost, sessions>> /\ DOMAIN pending' \subseteq DOMAIN pending
      BY <1>6, EmptySeq DEF N!HostErrorArrives, N!AnswerArrives, N!StrayAnswerArrives, N!portVars, N!callVars, N!Without
    <2>2. \A k \in DOMAIN fromHost' : fromHost'[k] # N!HostError
      <3> SUFFICES ASSUME NEW k \in DOMAIN fromHost', fromHost'[k] = N!HostError
                   PROVE  FALSE
        OBVIOUS
      <3>1. k \in 1..(Len(fromHost) - 1) /\ fromHost'[k] = fromHost[k + 1] /\ k + 1 \in DOMAIN fromHost
            /\ Len(fromHost) \in Nat
        BY <1>0, <2>1, QueueHead
      <3>2. Len(fromHost) = 1
        BY <3>1 DEF HostStates
      <3> QED BY <3>1, <3>2
    <2>3. host # "starting"
      BY <2>1 DEF HostStates
    <2> QED BY <2>1, <2>2, <2>3 DEF HostStates
  <1>7. CASE N!LateOpenArrives
    <2>1. fromHost # <<>> /\ fromHost' = Tail(fromHost) /\ UNCHANGED <<port, host, sessions>>
      BY <1>7 DEF N!LateOpenArrives
    <2>2. \/ Frames("close", Head(fromHost).t)
          \/ UNCHANGED <<pending, toHost>>
      BY <1>7, Kinds, SendFrameCases DEF N!LateOpenArrives
    <2>3. host \in {"none", "dead"} => toHost' = <<>>
      BY <2>2 DEF Frames, HostStates
    <2>4. port = N!Nothing => DOMAIN pending' = {}
      <3>1. Frames("close", Head(fromHost).t) => host # "none"
        BY DEF Frames
      <3> QED BY <2>2, <3>1 DEF HostStates
    <2>5. \A k \in DOMAIN fromHost' : fromHost'[k] # N!HostError
      <3> SUFFICES ASSUME NEW k \in DOMAIN fromHost', fromHost'[k] = N!HostError
                   PROVE  FALSE
        OBVIOUS
      <3>1. k \in 1..(Len(fromHost) - 1) /\ fromHost'[k] = fromHost[k + 1] /\ k + 1 \in DOMAIN fromHost
            /\ Len(fromHost) \in Nat
        BY <1>0, <2>1, QueueHead
      <3>2. Len(fromHost) = 1
        BY <3>1 DEF HostStates
      <3> QED BY <3>1, <3>2
    <2>6. host # "starting"
      BY <2>1 DEF HostStates
    <2> QED BY <2>1, <2>3, <2>4, <2>5, <2>6 DEF HostStates
  <1>8. CASE N!TimeoutFires \/ N!Tick
    <2>1. UNCHANGED <<port, host, toHost, fromHost, sessions>> /\ DOMAIN pending' \subseteq DOMAIN pending
      BY <1>8 DEF N!TimeoutFires, N!Tick, N!portVars, N!Without
    <2> QED BY <2>1 DEF HostStates
  <1>9. CASE N!HostStarts
    <2>1. host = "starting" /\ host' = "up" /\ UNCHANGED <<port, pending, toHost, fromHost, sessions>>
      BY <1>9 DEF N!HostStarts, N!callVars
    <2>2. DOMAIN fromHost' = {}
      BY <2>1, EmptySeq DEF HostStates
    <2> QED BY <2>1, <2>2 DEF HostStates
  <1>10. CASE N!HostAnswers
    <2>1. PICK a \in N!Answer : host = "up" /\ fromHost' = Append(fromHost, a)
      BY <1>10, Replies
    <2>2. UNCHANGED <<port, host, pending>>
      BY <1>10 DEF N!HostAnswers, N!portVars, N!callVars
    <2>3. \A k \in DOMAIN fromHost' : fromHost'[k] # N!HostError
      <3>1. \A k \in DOMAIN fromHost : fromHost[k] # N!HostError
        BY <2>1 DEF HostStates
      <3>2. a # N!HostError
        <4>1. a.n # 0
          BY DEF N!Answer
        <4> QED BY <4>1 DEF N!HostError
      <3>3. DOMAIN fromHost' = 1..(Len(fromHost) + 1) /\ fromHost'[Len(fromHost) + 1] = a
            /\ \A k \in DOMAIN fromHost : fromHost'[k] = fromHost[k]
        BY <1>0, <2>1
      <3> QED BY <1>0, <3>1, <3>2, <3>3
    <2> QED BY <2>1, <2>2, <2>3 DEF HostStates
  <1>11. CASE N!HostDies
    <2>1. /\ host \in {"starting", "up"} /\ host' = "dead" /\ toHost' = <<>> /\ sessions' = {}
          /\ UNCHANGED <<port, pending>>
      BY <1>11 DEF N!HostDies, N!callVars
    <2>2. \A k \in DOMAIN fromHost' : fromHost'[k] = N!HostError => Len(fromHost') = 1
      <3>1. CASE host = "starting" /\ fromHost' = Append(fromHost, N!HostError)
        BY <1>0, <3>1 DEF HostStates
      <3>2. ASSUME NEW k \in 0..Len(fromHost), fromHost' = SubSeq(fromHost, 1, k)
            PROVE  \A i \in DOMAIN fromHost' : fromHost'[i] # N!HostError
        <4>1. \A i \in DOMAIN fromHost' : i \in DOMAIN fromHost /\ fromHost'[i] = fromHost[i]
          BY <1>0, <3>2
        <4> QED BY <2>1, <4>1 DEF HostStates
      <3> QED BY <1>11, <3>1, <3>2 DEF N!HostDies
    <2> QED BY <2>1, <2>2 DEF HostStates
  <1> QED
    BY <1>1, <1>2, <1>3, <1>4, <1>5, <1>6, <1>7, <1>8, <1>9, <1>10, <1>11 DEF N!Next

\* Whom a request or an answer in a queue is about is still awaited.
Queued(n) == (\E k \in DOMAIN toHost : toHost[k].n = n) \/ \E k \in DOMAIN fromHost : fromHost[k].n = n
StillAwaited == \A n \in N!Id : Awaited(n) /\ n < nextId /\ Queued(n)' => Awaited(n)'

\* No request but the next enters the queue.
NumbersFrom ==
  \A i \in DOMAIN toHost' : toHost'[i].n = nextId \/ \E j \in DOMAIN toHost : toHost'[i].n = toHost[j].n

Reads == fromHost # <<>> /\ fromHost' = Tail(fromHost)

LEMMA QueueNumbers ==
  ASSUME N!TypeOK
  PROVE  /\ toHost \in Seq(N!Request) /\ fromHost \in Seq(N!Answer \cup {N!HostError})
         /\ \A k \in DOMAIN toHost : toHost[k] \in N!Request /\ toHost[k].n \in N!Id
         /\ \A k \in DOMAIN fromHost : /\ fromHost[k] \in N!Answer \cup {N!HostError}
                                       /\ fromHost[k].n \in N!Id \cup {N!Nothing}
                                       /\ fromHost[k].t \in N!Id \cup {N!Nothing}
                                       /\ fromHost[k].n = N!Nothing => fromHost[k].t = N!Nothing
         /\ nextId \in 1..(MaxId + 1)
  <1>1. /\ toHost \in Seq(N!Request) /\ fromHost \in Seq(N!Answer \cup {N!HostError})
        /\ nextId \in 1..(MaxId + 1)
    BY DEF N!TypeOK
  <1>2. \A r \in N!Request : r.n \in N!Id
    BY DEF N!Request
  <1>3. \A a \in N!Answer : a.n \in N!Id /\ a.t \in N!Id \cup {N!Nothing}
    BY DEF N!Answer
  <1>4. \A k \in DOMAIN toHost : toHost[k] \in N!Request
    BY <1>1
  <1>5. \A k \in DOMAIN fromHost : fromHost[k] \in N!Answer \cup {N!HostError}
    BY <1>1
  <1> QED BY <1>1, <1>2, <1>3, <1>4, <1>5 DEF N!HostError

LEMMA ReadQueue ==
  ASSUME N!TypeOK, fromHost' = fromHost \/ Reads
  PROVE  \E d \in {0, 1} :
           \A k \in DOMAIN fromHost' : k \in Int /\ k + d \in DOMAIN fromHost /\ fromHost'[k] = fromHost[k + d]
  <1>1. CASE fromHost' = fromHost
    <2>1. \A k \in DOMAIN fromHost : k \in Int /\ k + 0 = k
      BY QueueNumbers
    <2> QED BY <1>1, <2>1
  <1>2. CASE Reads
    BY <1>2, QueueNumbers, QueueHead DEF Reads
  <1> QED BY <1>1, <1>2

LEMMA IncomingFewer ==
  ASSUME N!TypeOK, Incoming, nextId' \in {nextId, nextId + 1}, NumbersFrom, StillAwaited,
         fromHost' = fromHost \/ Reads
  PROVE  Incoming'
  <1>1. PICK d \in {0, 1} :
          \A k \in DOMAIN fromHost' : k \in Int /\ k + d \in DOMAIN fromHost /\ fromHost'[k] = fromHost[k + d]
    BY ReadQueue
  <1>2. \A k \in DOMAIN fromHost' : fromHost'[k].n < nextId /\ fromHost'[k].n \in Int
    BY <1>1, QueueNumbers DEF Incoming
  <1>3. nextId \in Int /\ nextId' >= nextId /\ nextId' \in Int
    BY QueueNumbers
  <1>4. ASSUME NEW k \in DOMAIN fromHost', fromHost'[k].t # N!Nothing
        PROVE  fromHost'[k].t = fromHost'[k].n /\ Awaited(fromHost[k].n)'
    <2>1. PICK j \in DOMAIN fromHost : fromHost'[k] = fromHost[j]
      BY <1>1
    <2>2. PICK n \in N!Id \cup {N!Nothing} : n = fromHost[j].n
      BY QueueNumbers
    <2>3. n # N!Nothing
      BY <1>4, <2>1, <2>2, QueueNumbers
    <2>4. n < nextId /\ Awaited(n) /\ fromHost[j].t = n
      BY <1>4, <2>1, <2>2 DEF Incoming
    <2>5. fromHost'[k].n = n
      BY <2>1, <2>2
    <2>6. Queued(n)'
      BY <2>5 DEF Queued
    <2>7. Awaited(n)'
      BY <2>2, <2>3, <2>4, <2>6 DEF StillAwaited
    <2> QED BY <2>1, <2>4, <2>5, <2>7
  <1>5. \A i, j \in DOMAIN fromHost' : fromHost'[i].n = fromHost'[j].n => i = j
    BY <1>1 DEF Incoming
  <1>6. \A i \in DOMAIN toHost', j \in DOMAIN fromHost' : toHost'[i].n # fromHost'[j].n
    <2> SUFFICES ASSUME NEW i \in DOMAIN toHost', NEW j \in DOMAIN fromHost'
                 PROVE  toHost'[i].n # fromHost'[j].n
      OBVIOUS
    <2>1. CASE toHost'[i].n = nextId
      BY <1>2, <1>3, <2>1
    <2>2. CASE \E m \in DOMAIN toHost : toHost'[i].n = toHost[m].n
      BY <1>1, <2>2 DEF Incoming
    <2> QED BY <2>1, <2>2 DEF NumbersFrom
  <1>7. \A k \in DOMAIN fromHost' : fromHost'[k].n < nextId'
    BY <1>2, <1>3
  <1> QED BY <1>4, <1>5, <1>6, <1>7 DEF Incoming

LEMMA PostedSame ==
  ASSUME N!TypeOK, Posted, toHost' = toHost, nextId' \in {nextId, nextId + 1}, StillAwaited
  PROVE  Posted' /\ NumbersFrom
  <1>1. ASSUME NEW k \in DOMAIN toHost
        PROVE  /\ toHost[k].n < nextId'
               /\ toHost[k].kind = "open" => Awaited(toHost[k].n)'
    <2>1. PICK n \in N!Id : n = toHost[k].n
      BY <1>1, QueueNumbers
    <2>2. n < nextId /\ n < nextId' /\ (toHost[k].kind = "open" => Awaited(n))
      BY <1>1, <2>1, QueueNumbers DEF Posted
    <2>3. Queued(n)'
      BY <2>1 DEF Queued
    <2>4. Awaited(n) => Awaited(n)'
      BY <2>2, <2>3 DEF StillAwaited
    <2>5. toHost'[k].n = n
      BY <2>1
    <2> QED BY <2>1, <2>2, <2>4, <2>5
  <1> QED BY <1>1 DEF Posted, NumbersFrom

LEMMA PostedMore ==
  ASSUME N!TypeOK, Posted, NEW kind \in N!Kind, NEW t \in N!Id \cup {N!Nothing}, Frames(kind, t),
         kind # "close" => t = N!Nothing, StillAwaited
  PROVE  Posted' /\ NumbersFrom /\ nextId' = nextId + 1
  <1>1. nextId \in N!Id /\ nextId' = nextId + 1
    BY DEF Frames, Sends, Throws
  <1>2. CASE toHost' = toHost
    BY <1>1, <1>2, PostedSame
  <1>3. CASE Sends(kind) /\ toHost' = Append(toHost, [n |-> nextId, kind |-> kind, t |-> t])
    <2> DEFINE r == [n |-> nextId, kind |-> kind, t |-> t]
    <2>0. PICK m \in Nat : m = Len(toHost) + 1
      BY QueueNumbers
    <2>1. r.n = nextId /\ r.kind = kind /\ r.t = t
      OBVIOUS
    <2> HIDE DEF r
    <2>2. DOMAIN toHost' = 1..m /\ toHost'[m] = r /\ m \in Nat
          /\ \A k \in DOMAIN toHost' : k # m => k \in DOMAIN toHost /\ toHost'[k] = toHost[k]
      BY <1>3, <2>0, QueueNumbers DEF r
    <2>3. ASSUME NEW k \in DOMAIN toHost', k # m
          PROVE  /\ toHost'[k].n < nextId
                 /\ toHost'[k].kind = "open" => Awaited(toHost[k].n)'
                 /\ toHost'[k].kind # "close" => toHost'[k].t = N!Nothing
      <3>1. k \in DOMAIN toHost /\ toHost'[k] = toHost[k]
        BY <2>2, <2>3
      <3>2. PICK n \in N!Id : n = toHost[k].n
        BY <3>1, QueueNumbers
      <3>3. n < nextId /\ (toHost[k].kind = "open" => Awaited(n))
        BY <3>1, <3>2 DEF Posted
      <3>4. Queued(n)' /\ toHost'[k].n = n
        BY <2>3, <3>1, <3>2 DEF Queued
      <3>5. Awaited(n) => Awaited(n)'
        BY <3>3, <3>4 DEF StillAwaited
      <3> QED BY <3>1, <3>2, <3>3, <3>4, <3>5 DEF Posted
    <2>4. kind = "open" => Awaited(toHost[m].n)'
      <3>1. nextId \in DOMAIN pending' /\ pending'[nextId].kind = kind
        BY <1>3 DEF Sends, N!With
      <3>2. toHost'[m].n = nextId
        BY <2>1, <2>2
      <3> QED BY <3>1, <3>2 DEF Awaited
    <2>5. m \in DOMAIN toHost' /\ nextId < nextId' /\ nextId \in Int /\ nextId' \in Int
      <3>1. Len(toHost) \in Nat
        BY QueueNumbers
      <3> QED BY <1>1, <2>0, <2>2, <3>1
    <2>6. \A k \in DOMAIN toHost' : k # m => toHost'[k].n < nextId /\ toHost'[k].n \in Int
      BY <2>2, <2>3, QueueNumbers
    <2>7. NumbersFrom
      BY <2>1, <2>2 DEF NumbersFrom
    <2>8. \A i, j \in DOMAIN toHost' : toHost'[i].n = toHost'[j].n => i = j
      <3> SUFFICES ASSUME NEW i \in DOMAIN toHost', NEW j \in DOMAIN toHost', toHost'[i].n = toHost'[j].n, i # j
                   PROVE  FALSE
        OBVIOUS
      <3>1. CASE i = m \/ j = m
        BY <2>1, <2>2, <2>5, <2>6, <3>1
      <3>2. CASE i # m /\ j # m
        BY <2>2, <3>2 DEF Posted
      <3> QED BY <3>1, <3>2
    <2>9. \A k \in DOMAIN toHost' :
            /\ toHost'[k].n < nextId'
            /\ toHost'[k].kind = "open" => Awaited(toHost[k].n)'
            /\ toHost'[k].kind # "close" => toHost'[k].t = N!Nothing
      <3> SUFFICES ASSUME NEW k \in DOMAIN toHost'
                   PROVE  /\ toHost'[k].n < nextId'
                          /\ toHost'[k].kind = "open" => Awaited(toHost[k].n)'
                          /\ toHost'[k].kind # "close" => toHost'[k].t = N!Nothing
        OBVIOUS
      <3>1. CASE k = m
        BY <2>1, <2>2, <2>4, <2>5, <3>1
      <3>2. CASE k # m
        BY <2>3, <2>5, <2>6, <3>2
      <3> QED BY <3>1, <3>2
    <2> QED BY <1>1, <2>7, <2>8, <2>9 DEF Posted
  <1> QED BY <1>2, <1>3 DEF Frames

LEMMA FramesNumbers ==
  ASSUME N!TypeOK, NEW kind \in N!Kind, NEW t, Frames(kind, t)
  PROVE  NumbersFrom /\ nextId' = nextId + 1
  <1>1. nextId' = nextId + 1
    BY DEF Frames, Sends, Throws
  <1>2. CASE toHost' = toHost
    BY <1>1, <1>2 DEF NumbersFrom
  <1>3. CASE toHost' = Append(toHost, [n |-> nextId, kind |-> kind, t |-> t])
    BY <1>1, <1>3, QueueNumbers DEF NumbersFrom
  <1> QED BY <1>2, <1>3 DEF Frames

\* The number of an answer leaves the queues when the answer is read.
LEMMA HeadLeaves ==
  ASSUME N!TypeOK, Incoming, Reads, NumbersFrom
  PROVE  \A n : n = Head(fromHost).n => ~Queued(n)'
  <1>1. PICK a : a = fromHost[1] /\ a = Head(fromHost)
    BY QueueNumbers, QueueHead DEF Reads
  <1>2. 1 \in DOMAIN fromHost /\ a.n < nextId /\ a.n \in Int /\ nextId \in Int
    BY <1>1, QueueNumbers, QueueHead DEF Reads, Incoming
  <1>3. \A k \in DOMAIN fromHost' : k + 1 \in DOMAIN fromHost /\ k + 1 # 1 /\ fromHost'[k] = fromHost[k + 1]
    BY QueueNumbers, QueueHead DEF Reads
  <1>4. \A k \in DOMAIN fromHost' : fromHost'[k].n # a.n
    BY <1>1, <1>2, <1>3 DEF Incoming
  <1>5. \A k \in DOMAIN toHost' : toHost'[k].n # a.n
    BY <1>1, <1>2 DEF Incoming, NumbersFrom
  <1>6. \A n : n = a.n => ~Queued(n)'
    BY <1>4, <1>5 DEF Queued
  <1>7. Head(fromHost).n = a.n
    BY <1>1
  <1> QED BY <1>6, <1>7, Zenon

LEMMA FramesWatch ==
  ASSUME N!TypeOK, NEW kind \in N!Kind, NEW t, Frames(kind, t),
         NEW n \in N!Id, Awaited(n), n < nextId, n \in lateOpenRequests => n \in lateOpenRequests'
  PROVE  Awaited(n)'
  <1>1. nextId \in N!Id /\ n # nextId
    BY FramesGrow
  <1>2. n \in DOMAIN pending => n \in DOMAIN pending' /\ pending'[n] = pending[n]
    <2>1. CASE Sends(kind)
      BY <1>1, <2>1 DEF Sends, N!With
    <2>2. CASE Throws(kind)
      BY <2>2 DEF Throws
    <2> QED BY <2>1, <2>2 DEF Frames
  <1> QED BY <1>2 DEF Awaited

LEMMA OpenedFewer ==
  ASSUME N!TypeOK, Opened, nextId' \in {nextId, nextId + 1}, NumbersFrom,
         held' \subseteq held, sessions' \subseteq sessions, fromHost' = fromHost \/ Reads
  PROVE  Opened'
  <1>1. PICK d \in {0, 1} :
          \A k \in DOMAIN fromHost' : k \in Int /\ k + d \in DOMAIN fromHost /\ fromHost'[k] = fromHost[k + d]
    BY ReadQueue
  <1>2. \A t \in held \cup sessions : t \in Int
    BY DEF N!TypeOK
  <1>3. nextId \in Int /\ nextId' \in Int /\ nextId' >= nextId
    BY QueueNumbers
  <1>4. \A t \in held' \cup sessions' : /\ t < nextId /\ t < nextId'
                                        /\ \A k \in DOMAIN toHost' : toHost'[k].n # t
    BY <1>2, <1>3 DEF Opened, NumbersFrom
  <1>5. \A t \in held' : \A k \in DOMAIN fromHost' : fromHost'[k].n # t
    BY <1>1 DEF Opened
  <1> QED BY <1>4, <1>5 DEF Opened

\* A caller is handed a session that no other message is about.
LEMMA OpenedHanded ==
  ASSUME N!TypeOK, Opened, Incoming, Reads, toHost' = toHost, nextId' = nextId, sessions' = sessions,
         LET a == Head(fromHost) IN held' = IF a.t # N!Nothing THEN held \cup {a.t} ELSE held
  PROVE  Opened'
  <1>1. NumbersFrom
    BY DEF NumbersFrom
  <1>2. PICK a : a = fromHost[1] /\ a = Head(fromHost) /\ 1 \in DOMAIN fromHost
    BY QueueNumbers, QueueHead DEF Reads
  <1>3. PICK d \in {0, 1} :
          \A k \in DOMAIN fromHost' : k \in Int /\ k + d \in DOMAIN fromHost /\ fromHost'[k] = fromHost[k + d]
    BY ReadQueue
  <1>4. \A t \in held : t < nextId' /\ (\A k \in DOMAIN toHost' : toHost'[k].n # t)
                        /\ \A k \in DOMAIN fromHost' : fromHost'[k].n # t
    BY <1>3 DEF Opened
  <1>5. a.t # N!Nothing =>
          a.t < nextId /\ (\A k \in DOMAIN toHost' : toHost'[k].n # a.t)
          /\ \A k \in DOMAIN fromHost' : fromHost'[k].n # a.t
    <2> SUFFICES ASSUME a.t # N!Nothing
                 PROVE  a.t < nextId /\ (\A k \in DOMAIN toHost' : toHost'[k].n # a.t)
                        /\ \A k \in DOMAIN fromHost' : fromHost'[k].n # a.t
      OBVIOUS
    <2>1. a.t = a.n /\ a.n < nextId
      BY <1>2 DEF Incoming
    <2>2. \A n : n = a.n => ~Queued(n)'
      BY <1>1, <1>2, HeadLeaves
    <2> QED BY <2>1, <2>2 DEF Queued
  <1>6. \A t \in sessions' : t < nextId' /\ \A k \in DOMAIN toHost' : toHost'[k].n # t
    BY DEF Opened
  <1> QED BY <1>2, <1>4, <1>5, <1>6 DEF Opened

\* The host takes the first request and answers it.
LEMMA WireHostAnswers ==
  ASSUME N!TypeOK, Posted, Incoming, Opened, N!HostAnswers
  PROVE  Posted' /\ Incoming' /\ Opened'
  <1>1. PICK r \in N!Request, a \in N!Answer :
          /\ toHost # <<>> /\ r = Head(toHost) /\ toHost' = Tail(toHost)
          /\ a.n = r.n /\ fromHost' = Append(fromHost, a)
          /\ \/ r.kind = "open" /\ a.t = r.n /\ sessions' = sessions \cup {r.n}
             \/ r.kind = "open" /\ a.t = N!Nothing /\ sessions' = sessions
             \/ r.kind # "open" /\ a.t = N!Nothing /\ sessions' = sessions
             \/ r.kind # "open" /\ a.t = N!Nothing /\ sessions' = sessions \ {r.t}
    BY Replies
  <1>2. UNCHANGED <<nextId, pending, lateOpenRequests, held>>
    BY DEF N!HostAnswers, N!callVars
  <1>3. r = toHost[1] /\ 1 \in DOMAIN toHost
        /\ \A k \in DOMAIN toHost' : /\ k \in Int /\ k + 1 \in DOMAIN toHost /\ k + 1 # 1
                                     /\ toHost'[k] = toHost[k + 1]
    BY <1>1, QueueNumbers, QueueHead
  <1>4. r.n < nextId /\ r.n \in N!Id /\ (r.kind = "open" => Awaited(r.n))
    BY <1>3, QueueNumbers DEF Posted
  <1>5. \A n : Awaited(n) => Awaited(n)'
    BY <1>2 DEF Awaited
  <1>6. \A k \in DOMAIN toHost' : toHost'[k].n # r.n
    BY <1>3 DEF Posted
  <1>7. PICK m \in Nat \ {0} :
          /\ m \in DOMAIN fromHost' /\ fromHost'[m] = a
          /\ \A k \in DOMAIN fromHost' : k # m => k \in DOMAIN fromHost /\ fromHost'[k] = fromHost[k]
    <2>1. PICK l \in Nat : l = Len(fromHost)
      BY QueueNumbers
    <2>2. DOMAIN fromHost = 1..l /\ DOMAIN fromHost' = 1..(l + 1) /\ fromHost'[l + 1] = a
          /\ \A k \in 1..l : fromHost'[k] = fromHost[k]
      BY <1>1, <2>1, QueueNumbers
    <2>3. \A k \in DOMAIN fromHost' : k # l + 1 => k \in DOMAIN fromHost /\ fromHost'[k] = fromHost[k]
      BY <2>2
    <2> QED BY <2>2, <2>3
  <1>8. Posted'
    <2>1. ASSUME NEW k \in DOMAIN toHost'
          PROVE  /\ toHost'[k].n < nextId'
                 /\ toHost'[k].kind = "open" => Awaited(toHost[k].n)'
                 /\ toHost'[k].kind # "close" => toHost'[k].t = N!Nothing
      <3>1. PICK q : q = toHost[k + 1] /\ q = toHost'[k] /\ k + 1 \in DOMAIN toHost
        BY <1>3
      <3>2. q.n < nextId /\ (q.kind = "open" => Awaited(q.n)) /\ (q.kind # "close" => q.t = N!Nothing)
        BY <3>1 DEF Posted
      <3>3. q.kind = "open" => Awaited(q.n)'
        BY <1>5, <3>2
      <3> QED BY <1>2, <3>1, <3>2, <3>3
    <2>2. \A i, j \in DOMAIN toHost' : toHost'[i].n = toHost'[j].n => i = j
      BY <1>3 DEF Posted
    <2> QED BY <2>1, <2>2 DEF Posted
  <1>9. Incoming'
    <2>1. ASSUME NEW k \in DOMAIN fromHost'
          PROVE  /\ fromHost'[k].n < nextId'
                 /\ fromHost'[k].t # N!Nothing => fromHost'[k].t = fromHost'[k].n /\ Awaited(fromHost[k].n)'
      <3>1. PICK b : b = fromHost'[k]
        OBVIOUS
      <3>2. b = a \/ (k \in DOMAIN fromHost /\ b = fromHost[k])
        BY <1>7, <3>1
      <3>3. b.n < nextId /\ (b.t # N!Nothing => b.t = b.n /\ Awaited(b.n))
        BY <1>1, <1>4, <3>2 DEF Incoming
      <3>4. b.t # N!Nothing => Awaited(b.n)'
        BY <1>5, <3>3
      <3> QED BY <1>2, <3>1, <3>3, <3>4
    <2>2. \A i \in DOMAIN fromHost : fromHost[i].n # r.n
      BY <1>3 DEF Incoming
    <2>3. \A i, j \in DOMAIN fromHost' : fromHost'[i].n = fromHost'[j].n => i = j
      BY <1>1, <1>7, <2>2 DEF Incoming
    <2>4. \A i \in DOMAIN toHost', j \in DOMAIN fromHost' : toHost'[i].n # fromHost'[j].n
      <3> SUFFICES ASSUME NEW i \in DOMAIN toHost', NEW j \in DOMAIN fromHost'
                   PROVE  toHost'[i].n # fromHost'[j].n
        OBVIOUS
      <3>1. CASE fromHost'[j] = a
        BY <1>1, <1>6, <3>1
      <3>2. CASE j \in DOMAIN fromHost /\ fromHost'[j] = fromHost[j]
        BY <1>3, <3>2 DEF Incoming
      <3> QED BY <1>7, <3>1, <3>2
    <2> QED BY <2>1, <2>3, <2>4 DEF Incoming
  <1>10. Opened'
    <2>1. ASSUME NEW t \in held
          PROVE  t < nextId' /\ (\A k \in DOMAIN toHost' : toHost'[k].n # t)
                 /\ \A k \in DOMAIN fromHost' : fromHost'[k].n # t
      <3>1. t < nextId /\ (\A k \in DOMAIN toHost : toHost[k].n # t) /\ \A k \in DOMAIN fromHost : fromHost[k].n # t
        BY DEF Opened
      <3> QED BY <1>1, <1>2, <1>3, <1>7, <3>1
    <2>2. ASSUME NEW t \in sessions'
          PROVE  t < nextId' /\ \A k \in DOMAIN toHost' : toHost'[k].n # t
      <3>1. CASE t \in sessions
        BY <1>2, <1>3, <3>1 DEF Opened
      <3>2. CASE t = r.n
        BY <1>2, <1>4, <1>6, <3>2
      <3>3. sessions' \subseteq sessions \cup {r.n}
        BY <1>1
      <3> QED BY <2>2, <3>1, <3>2, <3>3
    <2> QED BY <1>2, <2>1, <2>2 DEF Opened
  <1> QED BY <1>8, <1>9, <1>10

LEMMA WireEmpty ==
  ASSUME N!TypeOK, Opened, toHost' = <<>>, fromHost' = <<>>, nextId' = nextId,
         held' \subseteq held, sessions' \subseteq sessions
  PROVE  Posted' /\ Incoming' /\ Opened'
  <1>1. DOMAIN toHost' = {} /\ DOMAIN fromHost' = {}
    BY EmptySeq
  <1> QED BY <1>1 DEF Posted, Incoming, Opened

\* Nothing is sent; messages are read, and what they are about is still awaited.
LEMMA QueuesStay ==
  ASSUME N!TypeOK, Posted, Incoming, toHost' = toHost, nextId' = nextId,
         fromHost' = fromHost \/ Reads, StillAwaited
  PROVE  Posted' /\ Incoming'
  <1>1. Posted' /\ NumbersFrom
    BY PostedSame
  <1> QED BY <1>1, IncomingFewer

LEMMA WireSends ==
  ASSUME N!TypeOK, Posted, Incoming, Opened, NEW kind \in N!Kind, NEW t \in N!Id \cup {N!Nothing},
         Frames(kind, t), kind # "close" => t = N!Nothing, lateOpenRequests' = lateOpenRequests,
         fromHost' = fromHost, held' \subseteq held, sessions' = sessions
  PROVE  Posted' /\ Incoming' /\ Opened'
  <1>1. StillAwaited
    BY FramesWatch DEF StillAwaited
  <1>2. NumbersFrom /\ nextId' = nextId + 1
    BY FramesNumbers
  <1> QED BY <1>1, <1>2, PostedMore, IncomingFewer, OpenedFewer

LEMMA QueuesStep ==
  ASSUME N!TypeOK, HostStates, Posted, Incoming, Opened, N!Next
  PROVE  Posted' /\ Incoming' /\ Opened'
  <1>1. CASE N!Call \/ N!OpenDevice \/ N!Handshake \/ \E t \in N!Id : N!CloseDevice(t)
    <2>1. PICK kind \in N!Kind, t \in N!Id \cup {N!Nothing} : Frames(kind, t) /\ (kind # "close" => t = N!Nothing)
      BY <1>1, Kinds, SendFrameCases DEF N!Call, N!OpenDevice, N!Handshake, N!CloseDevice
    <2>2. UNCHANGED <<lateOpenRequests, fromHost, sessions>> /\ held' \subseteq held
      BY <1>1 DEF N!Call, N!OpenDevice, N!Handshake, N!CloseDevice
    <2> QED BY <2>1, <2>2, WireSends
  <1>2. CASE N!ConnectOnDemand \/ N!ReconnectFires \/ N!SwitchHost
    <2>1. \/ toHost' = <<>> /\ fromHost' = <<>> /\ sessions' = {}
          \/ UNCHANGED <<toHost, fromHost, sessions, pending, lateOpenRequests>>
      BY <1>2 DEF N!ConnectOnDemand, N!ReconnectFires, N!SwitchHost, N!Connected, N!ConnectFailed, N!callVars
    <2>2. nextId' = nextId /\ held' \subseteq held
      BY <1>2 DEF N!ConnectOnDemand, N!ReconnectFires, N!SwitchHost, N!RetirePort
    <2>3. CASE UNCHANGED <<toHost, fromHost, sessions, pending, lateOpenRequests>>
      <3>1. StillAwaited /\ NumbersFrom
        BY <2>3 DEF StillAwaited, Awaited, NumbersFrom
      <3> QED BY <2>2, <2>3, <3>1, QueuesStay, OpenedFewer
    <2> QED BY <2>1, <2>2, <2>3, WireEmpty
  <1>3. CASE N!Disconnected
    <2>1. toHost' = <<>> /\ fromHost' = <<>> /\ nextId' = nextId /\ held' = {} /\ sessions' = sessions
      BY <1>3 DEF N!Disconnected, N!RetirePort, HostStates
    <2> QED BY <2>1, WireEmpty
  <1>4. CASE N!HostErrorArrives
    <2>1. /\ fromHost # <<>> /\ Head(fromHost) = N!HostError /\ fromHost' = Tail(fromHost)
          /\ UNCHANGED <<nextId, held, toHost, sessions>>
      BY <1>4 DEF N!HostErrorArrives
    <2>2. fromHost[1] = N!HostError /\ 1 \in DOMAIN fromHost
      BY <2>1, QueueNumbers, QueueHead
    <2>3. toHost' = <<>> /\ Len(fromHost) = 1
      BY <2>1, <2>2 DEF HostStates
    <2>4. fromHost' = <<>>
      BY <2>1, <2>3, QueueNumbers
    <2> QED BY <2>1, <2>3, <2>4, WireEmpty
  <1>5. CASE N!AnswerArrives
    <2> DEFINE a == Head(fromHost)
    <2>1. /\ Reads /\ UNCHANGED <<nextId, toHost, sessions, lateOpenRequests>>
          /\ pending' = N!Without(pending, {a.n})
          /\ held' = IF a.t # N!Nothing THEN held \cup {a.t} ELSE held
      BY <1>5 DEF N!AnswerArrives, Reads
    <2>2. NumbersFrom
      BY <2>1 DEF NumbersFrom
    <2>3. \A n : n = a.n => ~Queued(n)'
      BY <2>1, <2>2, HeadLeaves
    <2>4. \A n : n # a.n /\ Awaited(n) => Awaited(n)'
      BY <2>1 DEF Awaited, N!Without
    <2>5. StillAwaited
      BY <2>3, <2>4 DEF StillAwaited
    <2> QED BY <2>1, <2>5, QueuesStay, OpenedHanded
  <1>6. CASE N!LateOpenArrives
    <2>1. PICK a : a = Head(fromHost)
      OBVIOUS
    <2>2. /\ Reads /\ UNCHANGED <<held, sessions>> /\ a.n \in lateOpenRequests
          /\ lateOpenRequests' = lateOpenRequests \ {a.n}
      BY <1>6, <2>1 DEF N!LateOpenArrives, Reads
    <2>3. a.t \in N!Id \cup {N!Nothing}
      BY <2>1, <2>2, QueueNumbers, QueueHead DEF Reads
    <2>4. \/ Frames("close", a.t)
          \/ UNCHANGED <<nextId, pending, toHost>>
      BY <1>6, <2>1, Kinds, SendFrameCases DEF N!LateOpenArrives
    <2>5. NumbersFrom /\ nextId' \in {nextId, nextId + 1}
      BY <2>4, Kinds, FramesNumbers DEF NumbersFrom
    <2>6. \A n : n = a.n => ~Queued(n)'
      BY <2>1, <2>2, <2>5, HeadLeaves
    <2>7. ASSUME NEW n \in N!Id, Awaited(n), n < nextId, Queued(n)'
          PROVE  Awaited(n)'
      <3>1. n # a.n
        BY <2>6, <2>7
      <3>2. CASE Frames("close", a.t)
        BY <2>2, <2>7, <3>1, <3>2, Kinds, FramesWatch
      <3>3. CASE UNCHANGED <<nextId, pending, toHost>>
        BY <2>2, <2>7, <3>1, <3>3 DEF Awaited
      <3> QED BY <2>4, <3>2, <3>3
    <2>8. StillAwaited
      BY <2>7 DEF StillAwaited
    <2>9. Posted'
      BY <2>3, <2>4, <2>8, Kinds, PostedMore, PostedSame
    <2> QED BY <2>2, <2>5, <2>8, <2>9, IncomingFewer, OpenedFewer
  <1>7. CASE N!StrayAnswerArrives
    <2>1. Reads /\ UNCHANGED <<pending, lateOpenRequests, nextId, held, toHost, sessions>>
      BY <1>7 DEF N!StrayAnswerArrives, N!callVars, Reads
    <2>2. StillAwaited /\ NumbersFrom
      BY <2>1 DEF StillAwaited, Awaited, NumbersFrom
    <2> QED BY <2>1, <2>2, QueuesStay, OpenedFewer
  <1>8. CASE N!TimeoutFires
    <2>1. UNCHANGED <<nextId, held, toHost, fromHost, sessions>>
      BY <1>8 DEF N!TimeoutFires
    <2>2. \A n : Awaited(n) => Awaited(n)'
      BY <1>8 DEF N!TimeoutFires, Awaited, N!Without, N!LateOpens, N!Expired
    <2>3. StillAwaited /\ NumbersFrom
      BY <2>1, <2>2 DEF StillAwaited, NumbersFrom
    <2> QED BY <2>1, <2>3, QueuesStay, OpenedFewer
  <1>9. CASE N!Tick
    <2>1. UNCHANGED <<nextId, held, toHost, fromHost, sessions, lateOpenRequests>>
      BY <1>9 DEF N!Tick
    <2>2. \A n \in DOMAIN pending : n \in DOMAIN pending' /\ pending'[n].kind = pending[n].kind
      <3> SUFFICES ASSUME NEW n \in DOMAIN pending
                   PROVE  n \in DOMAIN pending' /\ pending'[n].kind = pending[n].kind
        OBVIOUS
      <3>1. PICK p \in N!Pending : p = pending[n]
        BY DEF N!TypeOK
      <3>2. n \in DOMAIN pending' /\ pending'[n] = [p EXCEPT !.left = N!Down(@)]
        BY <1>9, <3>1 DEF N!Tick
      <3> QED BY <3>1, <3>2 DEF N!Pending
    <2>3. \A n : Awaited(n) => Awaited(n)'
      BY <2>1, <2>2 DEF Awaited
    <2>4. StillAwaited /\ NumbersFrom
      BY <2>1, <2>3 DEF StillAwaited, NumbersFrom
    <2> QED BY <2>1, <2>4, QueuesStay, OpenedFewer
  <1>10. CASE N!HostStarts
    <2>1. UNCHANGED <<nextId, held, toHost, fromHost, sessions, lateOpenRequests, pending>>
      BY <1>10 DEF N!HostStarts, N!callVars
    <2>2. StillAwaited /\ NumbersFrom
      BY <2>1 DEF StillAwaited, Awaited, NumbersFrom
    <2> QED BY <2>1, <2>2, QueuesStay, OpenedFewer
  <1>11. CASE N!HostDies
    <2>1. /\ toHost' = <<>> /\ sessions' = {}
          /\ UNCHANGED <<nextId, held, pending, lateOpenRequests>>
      BY <1>11 DEF N!HostDies, N!callVars
    <2>2. DOMAIN toHost' = {}
      BY <2>1, EmptySeq
    <2>3. \A n : Awaited(n) => Awaited(n)'
      BY <2>1 DEF Awaited
    <2>4. CASE \E k \in 0..Len(fromHost) : fromHost' = SubSeq(fromHost, 1, k)
      <3>1. \A k \in DOMAIN fromHost' : k \in DOMAIN fromHost /\ fromHost'[k] = fromHost[k]
        BY <2>4, QueueNumbers
      <3>2. ASSUME NEW k \in DOMAIN fromHost'
            PROVE  /\ fromHost'[k].n < nextId'
                   /\ fromHost'[k].t # N!Nothing => fromHost'[k].t = fromHost'[k].n /\ Awaited(fromHost[k].n)'
        <4>1. PICK a : a = fromHost[k] /\ a = fromHost'[k] /\ k \in DOMAIN fromHost
          BY <3>1
        <4>2. a.n < nextId /\ (a.t # N!Nothing => a.t = a.n /\ Awaited(a.n))
          BY <4>1 DEF Incoming
        <4>3. a.t # N!Nothing => Awaited(a.n)'
          BY <2>3, <4>2
        <4> QED BY <2>1, <4>1, <4>2, <4>3
      <3>3. Incoming'
        BY <2>2, <3>1, <3>2 DEF Incoming
      <3>4. Opened' /\ Posted'
        BY <2>1, <2>2, <3>1 DEF Opened, Posted
      <3> QED BY <3>3, <3>4
    <2>5. CASE host = "starting" /\ fromHost' = Append(fromHost, N!HostError)
      <3>1. fromHost = <<>>
        BY <2>5 DEF HostStates
      <3>2. DOMAIN fromHost' = {1} /\ fromHost'[1] = N!HostError
        BY <2>5, <3>1
      <3>3. N!HostError.n = N!Nothing /\ N!HostError.t = N!Nothing
        BY DEF N!HostError
      <3>4. nextId > 0
        BY QueueNumbers
      <3>5. Incoming'
        BY <2>1, <2>2, <3>2, <3>3, <3>4 DEF Incoming
      <3>6. \A t \in held : t # N!Nothing
        BY DEF N!TypeOK
      <3>7. Opened' /\ Posted'
        BY <2>1, <2>2, <3>2, <3>3, <3>6 DEF Opened, Posted
      <3> QED BY <3>5, <3>7
    <2> QED BY <1>11, <2>4, <2>5 DEF N!HostDies
  <1>12. CASE N!HostAnswers
    BY <1>12, WireHostAnswers
  <1> QED
    BY <1>1, <1>2, <1>3, <1>4, <1>5, <1>6, <1>7, <1>8, <1>9, <1>10, <1>11, <1>12 DEF N!Next

-----------------------------------------------------------------------------
(* The invariant of the port *)

LEMMA IncomingAwaited ==
  ASSUME Incoming
  PROVE  N!OpenAnswerAwaited
  BY DEF Incoming, Awaited, N!OpenAnswerAwaited

LEMMA PortInvInit ==
  ASSUME N!Init
  PROVE  PortInv
  <1>1. DOMAIN pending = {} /\ DOMAIN toHost = {} /\ DOMAIN fromHost = {}
    BY EmptySeq DEF N!Init
  <1>2. Posted /\ Incoming /\ Opened
    BY <1>1 DEF N!Init, Posted, Incoming, Opened
  <1>3. PendingWasSent /\ HostStates
    BY <1>1 DEF N!Init, PendingWasSent, HostStates
  <1>4. TableType /\ N!SettledOnce /\ N!TimerCoversPending
    BY <1>1 DEF N!Init, TableType, N!SettledOnce, N!TimerCoversPending
  <1>5. PortType /\ CallerType /\ QueueType
    BY DEF N!Init, PortType, CallerType, QueueType, N!Delay, N!NoHandshake
  <1>6. N!HandshakeCurrent /\ N!PortIsReplaced
    BY DEF N!Init, N!HandshakeCurrent, N!PortIsReplaced
  <1> QED BY <1>2, <1>3, <1>4, <1>5, <1>6, TypeParts, IncomingAwaited DEF PortInv, RequestsServed

LEMMA PortInvStep ==
  ASSUME PortInv, N!Next
  PROVE  PortInv'
  <1>1. /\ N!TypeOK /\ Table /\ PortType /\ N!HandshakeCurrent /\ N!PortIsReplaced
        /\ HostStates /\ Posted /\ Incoming /\ Opened
    BY TypeParts DEF PortInv, RequestsServed, Table
  <1>2. Table' /\ QueueType' /\ HostStates'
    BY <1>1, NextTable, TableHolds, QueueTypeStep, HostStatesStep
  <1>3. PortType' /\ N!PortIsReplaced'
    BY <1>1, PortStep
  <1>4. CallerType' /\ N!HandshakeCurrent'
    BY <1>1, <1>3, HandshakeStep
  <1>5. Posted' /\ Incoming' /\ Opened'
    BY <1>1, QueuesStep
  <1>6. N!TypeOK'
    BY <1>2, <1>3, <1>4, TypeParts, PTL DEF Table
  <1>7. N!OpenAnswerAwaited'
    BY <1>5, IncomingAwaited, PTL
  <1> QED BY <1>2, <1>3, <1>4, <1>5, <1>6, <1>7 DEF PortInv, RequestsServed, Table

LEMMA PortInvStays ==
  ASSUME PortInv, UNCHANGED N!vars
  PROVE  PortInv'
  <1>1. UNCHANGED <<port, ports, nextId, pending, lateOpenRequests, timer, armed, delay,
                    handshake, settled, held, host, toHost, fromHost, sessions>>
    BY DEF N!vars, N!callVars, N!portVars
  <1>2. N!TypeOK' /\ N!SettledOnce' /\ N!TimerCoversPending'
    BY <1>1 DEF PortInv, RequestsServed, N!TypeOK, N!SettledOnce, N!TimerCoversPending
  <1>3. N!OpenAnswerAwaited' /\ N!HandshakeCurrent' /\ N!PortIsReplaced'
    BY <1>1 DEF PortInv, RequestsServed, N!OpenAnswerAwaited, N!HandshakeCurrent, N!PortIsReplaced
  <1>4. \A n : Awaited(n) => Awaited(n)'
    BY <1>1 DEF Awaited
  <1>5. PendingWasSent' /\ HostStates' /\ Opened'
    BY <1>1 DEF PortInv, PendingWasSent, HostStates, Opened
  <1>6. StillAwaited
    BY <1>4 DEF StillAwaited
  <1>7. Posted' /\ Incoming'
    BY <1>1, <1>6, QueuesStay DEF PortInv, RequestsServed
  <1> QED BY <1>2, <1>3, <1>5, <1>7 DEF PortInv, RequestsServed

\* A behaviour of the background is one of each table.
LEMMA PortOfBackground ==
  BackgroundSpec => N!Spec
  <1>1. BackgroundInit => N!Init
    BY DEF BackgroundInit
  <1>2. [BackgroundNext]_<<vars, portVars, part>> => [N!Next]_N!vars
    BY DEF BackgroundNext, portVars, N!vars, N!callVars, N!portVars
  <1> QED BY <1>1, <1>2, PTL DEF BackgroundSpec, N!Spec

LEMMA OwnershipOfBackground ==
  BackgroundSpec => Spec
  <1>1. BackgroundInit => Init
    BY DEF BackgroundInit
  <1>2. [BackgroundNext]_<<vars, portVars, part>> => [Next]_vars
    BY DEF BackgroundNext
  <1> QED BY <1>1, <1>2, PTL DEF BackgroundSpec, Spec

LEMMA PortInvariant ==
  N!Spec => []PortInv
  <1>1. N!Init => PortInv
    BY PortInvInit
  <1>2. PortInv /\ [N!Next]_N!vars => PortInv'
    BY PortInvStep, PortInvStays
  <1> QED BY <1>1, <1>2, PTL DEF N!Spec

\* Whatever answers, deadlines, host errors, host deaths and host switches race:
\* each request settles once, the one timer covers all that are pending, an open
\* that the daemon grants is awaited, a shared handshake is of the current port,
\* and a lost port is being replaced.
THEOREM RequestsAreServed ==
  BackgroundSpec => []RequestsServed
  <1>1. PortInv => RequestsServed
    BY DEF PortInv
  <1> QED BY <1>1, PortOfBackground, PortInvariant, PTL

-----------------------------------------------------------------------------
(* The custody of the sessions that the port opened *)

Coming(t) == \E k \in DOMAIN fromHost : fromHost[k].t = t
Going(t) == \E k \in DOMAIN toHost : toHost[k].kind = "close" /\ toHost[k].t = t

LEMMA PortCustody ==
  ASSUME NEW t
  PROVE  N!Custody(t) = IF t \notin sessions THEN "none" ELSE IF Coming(t) THEN "granted"
                        ELSE IF t \in held THEN "held" ELSE IF Going(t) THEN "closing" ELSE "abandoned"
  BY DEF N!Custody, Coming, Going

LEMMA PortCustodyNext ==
  ASSUME NEW t
  PROVE  N!Custody(t)' = IF t \notin sessions' THEN "none" ELSE IF Coming(t)' THEN "granted"
                         ELSE IF t \in held' THEN "held" ELSE IF Going(t)' THEN "closing" ELSE "abandoned"
  BY DEF N!Custody, Coming, Going

Keeps(t) == N!Custody(t)' = N!Custody(t)

LEMMA KeepsCustody ==
  ASSUME NEW t, t \in sessions' <=> t \in sessions,
         t \in sessions => /\ Coming(t)' <=> Coming(t)
                           /\ t \in held' <=> t \in held
                           /\ Going(t)' <=> Going(t)
  PROVE  Keeps(t)
  BY PortCustody, PortCustodyNext DEF Keeps

\* How a step moves sessions, in SessionCustody's terms.
MovesOn(S, from, to) ==
  \A t \in N!Id : IF t \in S THEN N!Custody(t) \in from /\ N!Custody(t)' = to ELSE Keeps(t)
PortMoves ==
  \/ \A t \in N!Id : Keeps(t) \/ N!Custody(t)' = "none"
  \/ \E t \in N!Id : MovesOn({t}, {"granted", "held"}, "closing")
  \/ \E t \in N!Id : MovesOn({t}, {"none"}, "granted")
  \/ \E t \in N!Id : MovesOn({t}, {"granted"}, "held")

\* A request that is no close changes nothing of a session; a close is posted
\* as long as the host has sessions.
LEMMA FramesGoing ==
  ASSUME N!TypeOK, HostStates, NEW kind \in N!Kind, NEW t \in N!Id \cup {N!Nothing}, Frames(kind, t), NEW u
  PROVE  /\ kind # "close" \/ u # t => (Going(u)' <=> Going(u))
         /\ kind = "close" /\ sessions # {} => Going(t)'
  <1>1. ASSUME toHost' = toHost
        PROVE  Going(u)' <=> Going(u)
    BY <1>1 DEF Going
  <1>2. ASSUME toHost' = Append(toHost, [n |-> nextId, kind |-> kind, t |-> t]), kind # "close" \/ u # t
        PROVE  Going(u)' <=> Going(u)
    <2> DEFINE r == [n |-> nextId, kind |-> kind, t |-> t]
    <2>1. r.kind = kind /\ r.t = t
      OBVIOUS
    <2> HIDE DEF r
    <2>2. PICK l \in Nat : l = Len(toHost)
      BY QueueNumbers
    <2>3. DOMAIN toHost = 1..l /\ DOMAIN toHost' = 1..(l + 1) /\ toHost'[l + 1] = r
          /\ \A k \in 1..l : toHost'[k] = toHost[k]
      BY <1>2, <2>2, QueueNumbers DEF r
    <2>4. \A k \in 1..(l + 1) : k = l + 1 \/ k \in 1..l
      OBVIOUS
    <2>5. l + 1 \in 1..(l + 1)
      OBVIOUS
    <2> QED BY <1>2, <2>1, <2>3, <2>4, <2>5 DEF Going
  <1>3. kind = "close" /\ sessions # {} => toHost' = Append(toHost, [n |-> nextId, kind |-> kind, t |-> t])
    BY DEF Frames, HostStates
  <1>4. kind = "close" /\ sessions # {} => Going(t)'
    <2> SUFFICES ASSUME kind = "close", sessions # {}
                 PROVE  Going(t)'
      OBVIOUS
    <2>1. PICK l \in Nat : l = Len(toHost)
      BY QueueNumbers
    <2>2. l + 1 \in DOMAIN toHost' /\ toHost'[l + 1] = [n |-> nextId, kind |-> kind, t |-> t]
      BY <1>3, <2>1, QueueNumbers
    <2> QED BY <2>2 DEF Going
  <1> QED BY <1>1, <1>2, <1>4 DEF Frames

\* Reading an answer takes its session from those that are coming.
LEMMA ReadsComing ==
  ASSUME N!TypeOK, Incoming, Reads, NEW a, a = Head(fromHost)
  PROVE  /\ a.t \in N!Id \cup {N!Nothing}
         /\ Coming(a.t)
         /\ a.t # N!Nothing => ~Coming(a.t)'
         /\ \A t : t # a.t => (Coming(t)' <=> Coming(t))
         /\ a.t # N!Nothing => a.t \notin held \/ ~Opened
  <1>1. a = fromHost[1] /\ 1 \in DOMAIN fromHost /\ fromHost' = Tail(fromHost)
    BY QueueNumbers, QueueHead DEF Reads
  <1>2. \A k \in DOMAIN fromHost' : k + 1 \in DOMAIN fromHost /\ k + 1 # 1 /\ fromHost'[k] = fromHost[k + 1]
    BY QueueNumbers, QueueHead DEF Reads
  <1>3. \A j \in DOMAIN fromHost : j = 1 \/ \E k \in DOMAIN fromHost' : j = k + 1
    <2>1. PICK l \in Nat : l = Len(fromHost)
      BY QueueNumbers
    <2>2. DOMAIN fromHost = 1..l /\ DOMAIN fromHost' = 1..(l - 1)
      BY <1>1, <2>1, QueueNumbers, QueueHead DEF Reads
    <2>3. \A j \in 1..l : j = 1 \/ (j - 1 \in 1..(l - 1) /\ j = (j - 1) + 1)
      OBVIOUS
    <2> QED BY <2>2, <2>3
  <1>4. \A t : t # a.t => (Coming(t)' <=> Coming(t))
    BY <1>1, <1>2, <1>3 DEF Coming
  <1>5. a.t # N!Nothing => ~Coming(a.t)'
    <2> SUFFICES ASSUME a.t # N!Nothing, NEW k \in DOMAIN fromHost', fromHost'[k].t = a.t
                 PROVE  FALSE
      BY DEF Coming
    <2>1. k + 1 \in DOMAIN fromHost /\ k + 1 # 1 /\ fromHost[k + 1].t = a.t
      BY <1>2
    <2>2. fromHost[k + 1].n = fromHost[1].n
      BY <1>1, <2>1 DEF Incoming
    <2> QED BY <1>1, <2>1, <2>2 DEF Incoming
  <1>6. a.t # N!Nothing => a.t \notin held \/ ~Opened
    BY <1>1 DEF Incoming, Opened
  <1> QED BY <1>1, <1>4, <1>5, <1>6, QueueNumbers DEF Coming

LEMMA NoSessions ==
  ASSUME sessions' = {}
  PROVE  PortMoves
  <1>1. \A t \in N!Id : N!Custody(t)' = "none"
    BY PortCustodyNext
  <1> QED BY <1>1 DEF PortMoves

LEMMA AllKeep ==
  ASSUME sessions' = sessions, held' = held, \A t \in N!Id : (Coming(t)' <=> Coming(t)) /\ (Going(t)' <=> Going(t))
  PROVE  PortMoves
  <1>1. \A t \in N!Id : Keeps(t)
    BY KeepsCustody
  <1> QED BY <1>1 DEF PortMoves

LEMMA CustodyOfClose ==
  ASSUME PortInv, NEW t \in N!Id, N!CloseDevice(t)
  PROVE  PortMoves
  <1>1. /\ Frames("close", t) /\ t \in held /\ held' = held \ {t}
        /\ fromHost' = fromHost /\ sessions' = sessions
    BY Kinds, SendFrameCases DEF N!CloseDevice
  <1>2. N!TypeOK /\ HostStates /\ Incoming /\ Opened
    BY DEF PortInv, RequestsServed
  <1>3. \A u : Coming(u)' <=> Coming(u)
    BY <1>1 DEF Coming
  <1>4. ASSUME NEW u \in N!Id, u # t
        PROVE  Keeps(u)
    <2>1. Going(u)' <=> Going(u)
      BY <1>1, <1>2, <1>4, Kinds, FramesGoing
    <2> QED BY <1>1, <1>3, <1>4, <2>1, KeepsCustody
  <1>5. CASE t \notin sessions
    <2>1. Keeps(t)
      BY <1>1, <1>5, KeepsCustody
    <2> QED BY <1>4, <2>1 DEF PortMoves
  <1>6. CASE t \in sessions
    <2>1. ~Coming(t)
      BY <1>1, <1>2 DEF Coming, Incoming, Opened
    <2>2. Going(t)'
      BY <1>1, <1>2, <1>6, Kinds, FramesGoing
    <2>3. N!Custody(t) = "held" /\ N!Custody(t)' = "closing"
      BY <1>1, <1>3, <1>6, <2>1, <2>2, PortCustody, PortCustodyNext
    <2>4. MovesOn({t}, {"granted", "held"}, "closing")
      BY <1>4, <2>3 DEF MovesOn
    <2> QED BY <2>4 DEF PortMoves
  <1> QED BY <1>5, <1>6

LEMMA CustodyOfAnswer ==
  ASSUME PortInv, N!AnswerArrives
  PROVE  PortMoves
  <1>1. PICK a : a = Head(fromHost)
    OBVIOUS
  <1>2. /\ Reads /\ UNCHANGED <<toHost, sessions>>
        /\ held' = IF a.t # N!Nothing THEN held \cup {a.t} ELSE held
    BY <1>1 DEF N!AnswerArrives, Reads
  <1>3. N!TypeOK /\ Incoming /\ Opened
    BY DEF PortInv, RequestsServed
  <1>4. /\ a.t \in N!Id \cup {N!Nothing} /\ Coming(a.t)
        /\ a.t # N!Nothing => ~Coming(a.t)' /\ a.t \notin held
        /\ \A t : t # a.t => (Coming(t)' <=> Coming(t))
    BY <1>1, <1>2, <1>3, ReadsComing
  <1>5. \A t : Going(t)' <=> Going(t)
    BY <1>2 DEF Going
  <1>6. ASSUME NEW t \in N!Id, t # a.t
        PROVE  Keeps(t)
    BY <1>2, <1>4, <1>5, <1>6, KeepsCustody
  <1>7. CASE a.t = N!Nothing
    BY <1>6, <1>7 DEF PortMoves
  <1>8. CASE a.t # N!Nothing /\ a.t \notin sessions
    <2>1. Keeps(a.t)
      BY <1>2, <1>8, KeepsCustody
    <2> QED BY <1>6, <2>1 DEF PortMoves
  <1>9. CASE a.t # N!Nothing /\ a.t \in sessions
    <2>1. PICK t \in N!Id : t = a.t
      BY <1>4, <1>9
    <2>2. N!Custody(t) = "granted" /\ N!Custody(t)' = "held"
      BY <1>2, <1>4, <1>9, <2>1, PortCustody, PortCustodyNext
    <2>3. MovesOn({t}, {"granted"}, "held")
      BY <1>6, <2>1, <2>2 DEF MovesOn
    <2> QED BY <2>3 DEF PortMoves
  <1> QED BY <1>7, <1>8, <1>9

\* A late open's session is closed at once.
LEMMA CustodyOfLateOpen ==
  ASSUME PortInv, N!LateOpenArrives
  PROVE  PortMoves
  <1>1. PICK a : a = Head(fromHost)
    OBVIOUS
  <1>2. /\ Reads /\ UNCHANGED <<held, sessions>>
        /\ IF a.t # N!Nothing THEN N!SendFrame("close", a.t) ELSE toHost' = toHost
    BY <1>1 DEF N!LateOpenArrives, Reads
  <1>3. N!TypeOK /\ HostStates /\ Incoming /\ Opened
    BY DEF PortInv, RequestsServed
  <1>4. /\ a.t \in N!Id \cup {N!Nothing} /\ Coming(a.t)
        /\ a.t # N!Nothing => ~Coming(a.t)' /\ a.t \notin held
        /\ \A t : t # a.t => (Coming(t)' <=> Coming(t))
    BY <1>1, <1>2, <1>3, ReadsComing
  <1>5. CASE a.t = N!Nothing
    <2>1. \A t \in N!Id : (Coming(t)' <=> Coming(t)) /\ (Going(t)' <=> Going(t))
      BY <1>2, <1>4, <1>5 DEF Going
    <2> QED BY <1>2, <2>1, AllKeep
  <1>6. CASE a.t # N!Nothing
    <2>1. PICK t \in N!Id : t = a.t
      BY <1>4, <1>6
    <2>2. Frames("close", t)
      BY <1>2, <1>6, <2>1, Kinds, SendFrameCases
    <2>3. ASSUME NEW u \in N!Id, u # t
          PROVE  Keeps(u)
      <3>1. Going(u)' <=> Going(u)
        BY <1>3, <2>2, <2>3, Kinds, FramesGoing
      <3> QED BY <1>2, <1>4, <2>1, <2>3, <3>1, KeepsCustody
    <2>4. CASE t \notin sessions
      <3>1. Keeps(t)
        BY <1>2, <2>4, KeepsCustody
      <3> QED BY <2>3, <3>1 DEF PortMoves
    <2>5. CASE t \in sessions
      <3>1. Going(t)' /\ ~Coming(t)' /\ t \notin held'
        BY <1>2, <1>3, <1>4, <1>6, <2>1, <2>2, <2>5, Kinds, FramesGoing
      <3>2. N!Custody(t) = "granted" /\ N!Custody(t)' = "closing"
        BY <1>2, <1>4, <2>1, <2>5, <3>1, PortCustody, PortCustodyNext
      <3>3. MovesOn({t}, {"granted", "held"}, "closing")
        BY <2>3, <3>2 DEF MovesOn
      <3> QED BY <3>3 DEF PortMoves
    <2> QED BY <2>4, <2>5
  <1> QED BY <1>5, <1>6

LEMMA CustodyOfReply ==
  ASSUME PortInv, N!HostAnswers
  PROVE  PortMoves
  <1>1. N!TypeOK /\ Posted /\ Incoming /\ Opened
    BY DEF PortInv, RequestsServed
  <1>2. PICK r \in N!Request, a \in N!Answer :
          /\ toHost # <<>> /\ r = Head(toHost) /\ toHost' = Tail(toHost)
          /\ fromHost' = Append(fromHost, a)
          /\ \/ r.kind = "open" /\ a.t = r.n /\ sessions' = sessions \cup {r.n}
             \/ r.kind = "open" /\ a.t = N!Nothing /\ sessions' = sessions
             \/ r.kind # "open" /\ a.t = N!Nothing /\ sessions' = sessions
             \/ r.kind # "open" /\ a.t = N!Nothing /\ sessions' = sessions \ {r.t}
          /\ r.kind = "close" => sessions' = sessions \ {r.t}
    BY <1>1, Replies
  <1>3. held' = held
    BY DEF N!HostAnswers
  <1>4. r = toHost[1] /\ 1 \in DOMAIN toHost /\ r.n \in N!Id
    BY <1>1, <1>2, QueueNumbers, QueueHead
  <1>5. r.n \notin sessions /\ (r.kind # "close" => r.t = N!Nothing)
    BY <1>1, <1>4 DEF Opened, Posted
  <1>6. \A t : Coming(t)' <=> Coming(t) \/ t = a.t
    <2>1. PICK l \in Nat : l = Len(fromHost)
      BY <1>1, QueueNumbers
    <2>2. DOMAIN fromHost = 1..l /\ DOMAIN fromHost' = 1..(l + 1) /\ fromHost'[l + 1] = a
          /\ \A k \in 1..l : fromHost'[k] = fromHost[k]
      BY <1>1, <1>2, <2>1, QueueNumbers
    <2>3. \A k \in 1..(l + 1) : k = l + 1 \/ k \in 1..l
      OBVIOUS
    <2>4. l + 1 \in 1..(l + 1) /\ \A k \in 1..l : k \in 1..(l + 1)
      OBVIOUS
    <2> QED BY <2>2, <2>3, <2>4 DEF Coming
  <1>7. \A t : r.kind # "close" \/ r.t # t => (Going(t)' <=> Going(t))
    <2>1. PICK l \in Nat : l = Len(toHost)
      BY <1>1, QueueNumbers
    <2>2. DOMAIN toHost = 1..l /\ DOMAIN toHost' = 1..(l - 1) /\ \A k \in 1..(l - 1) : toHost'[k] = toHost[k + 1]
      BY <1>1, <1>2, <2>1, QueueNumbers, QueueHead
    <2>3. \A j \in 1..l : j = 1 \/ (j - 1 \in 1..(l - 1) /\ j = (j - 1) + 1)
      OBVIOUS
    <2>4. \A k \in 1..(l - 1) : k + 1 \in 1..l
      OBVIOUS
    <2>5. ASSUME NEW t, r.kind # "close" \/ r.t # t, NEW j \in DOMAIN toHost,
                 toHost[j].kind = "close", toHost[j].t = t
          PROVE  Going(t)'
      <3>1. j # 1
        BY <1>4, <2>5
      <3>2. j - 1 \in 1..(l - 1) /\ j = (j - 1) + 1
        BY <2>2, <2>3, <2>5, <3>1
      <3>3. toHost'[j - 1] = toHost[j] /\ j - 1 \in DOMAIN toHost'
        BY <2>2, <3>2
      <3> QED BY <2>5, <3>3 DEF Going
    <2>6. ASSUME NEW t, Going(t)'
          PROVE  Going(t)
      BY <2>2, <2>4, <2>6 DEF Going
    <2> QED BY <2>5, <2>6 DEF Going
  <1>8. CASE r.kind = "open" /\ a.t = r.n /\ sessions' = sessions \cup {r.n}
    <2>1. ASSUME NEW t \in N!Id, t # r.n
          PROVE  Keeps(t)
      BY <1>3, <1>6, <1>7, <1>8, <2>1, KeepsCustody
    <2>2. N!Custody(r.n) = "none"
      BY <1>5, PortCustody
    <2>3. PICK u \in N!Id : u = r.n
      BY <1>4
    <2>4. N!Custody(u)' = "granted"
      BY <1>6, <1>8, <2>3, PortCustodyNext
    <2>5. MovesOn({u}, {"none"}, "granted")
      BY <2>1, <2>2, <2>3, <2>4 DEF MovesOn
    <2> QED BY <2>5 DEF PortMoves
  <1>9. CASE a.t = N!Nothing /\ sessions' \subseteq sessions
    <2>1. \A t \in N!Id : t \notin sessions' \/ (r.kind # "close" \/ r.t # t)
      BY <1>2
    <2>2. \A t \in N!Id : t \in sessions => t \in sessions' \/ t = r.t
      BY <1>2
    <2>3. ASSUME NEW t \in N!Id
          PROVE  Keeps(t) \/ N!Custody(t)' = "none"
      <3>1. CASE t \notin sessions'
        BY <3>1, PortCustodyNext
      <3>2. CASE t \in sessions'
        <4>1. t \in sessions /\ (Going(t)' <=> Going(t)) /\ (Coming(t)' <=> Coming(t))
          BY <1>6, <1>7, <1>9, <2>1, <3>2
        <4> QED BY <1>3, <3>2, <4>1, KeepsCustody
      <3> QED BY <3>1, <3>2
    <2> QED BY <2>3 DEF PortMoves
  <1> QED BY <1>2, <1>8, <1>9

LEMMA PortMovesStep ==
  ASSUME PortInv, N!Next
  PROVE  PortMoves
  <1>0. N!TypeOK /\ HostStates /\ Incoming
    BY DEF PortInv, RequestsServed
  <1>1. CASE N!Call \/ N!OpenDevice \/ N!Handshake
    <2>1. PICK kind \in N!Kind : kind # "close" /\ Frames(kind, N!Nothing)
      BY <1>1, Kinds, SendFrameCases DEF N!Call, N!OpenDevice, N!Handshake
    <2>2. UNCHANGED <<held, fromHost, sessions>>
      BY <1>1 DEF N!Call, N!OpenDevice, N!Handshake
    <2>3. \A t \in N!Id : (Coming(t)' <=> Coming(t)) /\ (Going(t)' <=> Going(t))
      BY <1>0, <2>1, <2>2, FramesGoing DEF Coming
    <2> QED BY <2>2, <2>3, AllKeep
  <1>2. CASE \E t \in N!Id : N!CloseDevice(t)
    BY <1>2, CustodyOfClose
  <1>3. CASE N!ConnectOnDemand \/ N!ReconnectFires \/ N!SwitchHost
    <2>1. sessions' = {} \/ UNCHANGED <<held, toHost, fromHost, sessions>>
      BY <1>3 DEF N!ConnectOnDemand, N!ReconnectFires, N!SwitchHost, N!Connected, N!ConnectFailed
    <2>2. CASE UNCHANGED <<held, toHost, fromHost, sessions>>
      BY <2>2, AllKeep DEF Coming, Going
    <2> QED BY <2>1, <2>2, NoSessions
  <1>4. CASE N!Disconnected
    <2>1. sessions' = {}
      BY <1>0, <1>4 DEF N!Disconnected, HostStates
    <2> QED BY <2>1, NoSessions
  <1>5. CASE N!HostErrorArrives
    <2>1. fromHost # <<>> /\ Head(fromHost) = N!HostError /\ sessions' = sessions
      BY <1>5 DEF N!HostErrorArrives
    <2>2. fromHost[1] = N!HostError /\ 1 \in DOMAIN fromHost
      BY <1>0, <2>1, QueueNumbers, QueueHead
    <2>3. sessions' = {}
      BY <1>0, <2>1, <2>2 DEF HostStates
    <2> QED BY <2>3, NoSessions
  <1>6. CASE N!StrayAnswerArrives
    <2>1. PICK a : a = Head(fromHost)
      OBVIOUS
    <2>2. /\ Reads /\ UNCHANGED <<held, toHost, sessions>>
          /\ a.n \notin DOMAIN pending \cup lateOpenRequests
      BY <1>6, <2>1 DEF N!StrayAnswerArrives, Reads
    <2>3. a = fromHost[1] /\ 1 \in DOMAIN fromHost
      BY <1>0, <2>1, <2>2, QueueNumbers, QueueHead DEF Reads
    <2>4. a.t = N!Nothing
      BY <1>0, <2>2, <2>3 DEF Incoming, Awaited
    <2>5. \A t \in N!Id : (Coming(t)' <=> Coming(t)) /\ (Going(t)' <=> Going(t))
      BY <1>0, <2>1, <2>2, <2>4, ReadsComing DEF Going
    <2> QED BY <2>2, <2>5, AllKeep
  <1>7. CASE N!TimeoutFires \/ N!Tick \/ N!HostStarts
    <2>1. UNCHANGED <<held, toHost, fromHost, sessions>>
      BY <1>7 DEF N!TimeoutFires, N!Tick, N!HostStarts
    <2> QED BY <2>1, AllKeep DEF Coming, Going
  <1>8. CASE N!HostDies
    BY <1>8, NoSessions DEF N!HostDies
  <1> QED
    BY <1>1, <1>2, <1>3, <1>4, <1>5, <1>6, <1>7, <1>8,
       CustodyOfAnswer, CustodyOfLateOpen, CustodyOfReply DEF N!Next

\* nm.js implements SessionCustody: deadlines, late answers, lost ports and
\* switched hosts never leave the daemon with a session that nobody holds and
\* nobody closes.
LEMMA PortKeepsCustody ==
  N!Spec => N!SessionsInCustody
  <1> DEFINE custody == [t \in N!Id |-> N!Custody(t)]
  <1>1. N!Init => N!Sessions!Init
    BY DEF N!Init, N!Sessions!Init, N!Custody
  <1>2. PortInv /\ [N!Next]_N!vars => [N!Sessions!Next]_custody
    <2> SUFFICES ASSUME PortInv, [N!Next]_N!vars
                 PROVE  N!Sessions!Next \/ custody' = custody
      OBVIOUS
    <2>1. CASE UNCHANGED N!vars
      <3>1. \A t \in N!Id : N!Custody(t)' = N!Custody(t)
        BY <2>1 DEF N!vars, N!callVars, N!portVars, N!Custody
      <3> QED BY <3>1
    <2>2. CASE \A t \in N!Id : Keeps(t) \/ N!Custody(t)' = "none"
      <3> DEFINE gone == {t \in N!Id : custody[t] # "none" /\ custody'[t] = "none"}
      <3>1. gone \in SUBSET {t \in N!Id : custody[t] # "none"}
        OBVIOUS
      <3>2. custody' = [t \in N!Id |-> IF t \in gone THEN "none" ELSE custody[t]]
        BY <2>2 DEF Keeps
      <3>3. N!Sessions!Ends
        BY <3>1, <3>2 DEF N!Sessions!Ends
      <3> QED BY <3>3 DEF N!Sessions!Next
    <2>3. CASE \E t \in N!Id : MovesOn({t}, {"granted", "held"}, "closing")
      <3>1. PICK u \in N!Id : MovesOn({u}, {"granted", "held"}, "closing")
        BY <2>3
      <3>2. N!Sessions!Release({u})
        BY <3>1 DEF MovesOn, Keeps, N!Sessions!Release, N!Sessions!Move
      <3>3. {u} \in SUBSET N!Id
        OBVIOUS
      <3> QED BY <3>2, <3>3 DEF N!Sessions!Next
    <2>4. CASE \E t \in N!Id : MovesOn({t}, {"none"}, "granted")
      <3>1. PICK u \in N!Id : MovesOn({u}, {"none"}, "granted")
        BY <2>4
      <3>2. N!Sessions!Grant(u)
        BY <3>1 DEF MovesOn, Keeps, N!Sessions!Grant, N!Sessions!Move
      <3> QED BY <3>2 DEF N!Sessions!Next
    <2>5. CASE \E t \in N!Id : MovesOn({t}, {"granted"}, "held")
      <3>1. PICK u \in N!Id : MovesOn({u}, {"granted"}, "held")
        BY <2>5
      <3>2. N!Sessions!Hand(u)
        BY <3>1 DEF MovesOn, Keeps, N!Sessions!Hand, N!Sessions!Move
      <3> QED BY <3>2 DEF N!Sessions!Next
    <2> QED BY <2>1, <2>2, <2>3, <2>4, <2>5, PortMovesStep DEF PortMoves
  <1> QED BY <1>1, <1>2, PortInvariant, PTL DEF N!Spec, N!SessionsInCustody, N!Sessions!Spec

\* Both tables of the background implement SessionCustody.
THEOREM EverySessionIsInCustody ==
  BackgroundSpec => EverySessionInCustody
  BY OwnershipOfBackground, PortOfBackground, SessionsNeverAbandoned, PortKeepsCustody, PTL
     DEF EverySessionInCustody
===============================================================================
