-------------------------- MODULE DeviceManagerProofs --------------------------
(***************************************************************************)
(* Theorems about DeviceManager, for any number of clients, devices,       *)
(* tokens and physical lifetimes: its types; the sessions, their           *)
(* capabilities, bindings and owners; the threads of a lifetime, the       *)
(* reservations and the counter of sessions outside NM.                    *)
(***************************************************************************)
EXTENDS DeviceManager, FiniteSetTheorems, TLAPS

(* Which fields of a task, a reader and a relay hold a value at which stage. *)

OpeningPc == {"reserve", "waiting", "woken", "opening", "opened", "built", "release",
              "abandon", "notify"}

Shaped(k) ==
  /\ k.pc \in OpeningPc => k.device \in Device /\ k.token \in Token
  /\ k.pc \in {"built", "release", "stop", "join"} => k.life \in Life
  /\ k.pc \in {"stop", "join"} =>
       /\ k.resume \in {"idle", "abandon", "draining"}
       /\ k.resume = "abandon" => k.device \in Device /\ k.token \in Token

TaskShape == \A c \in Client : Shaped(task[c])

TaskType == task \in [Client -> Task] /\ TaskShape

ThreadShape ==
  /\ \A l \in Life : reader[l].at \in {"detached", "joining"} => reader[l].victim \in Life
  /\ \A l \in Life : reader[l].at # "none" => lifeDev[l] \in Device
  /\ \A c \in Client : relay[c].at = "join" => relay[c].life \in Life

RestType ==
  /\ opening \in [Device -> Reservation \cup {None}]
  /\ nmSinks \in SUBSET Client
  /\ nonNm \in Int

TypeInv ==
  /\ ManagerType /\ LifeType /\ ThreadType /\ RelayType /\ EnvType
  /\ TaskType /\ ThreadShape /\ RestType

USE NoneAssumption, TransportAssumption, BoundAssumption, TokenAssumption
-----------------------------------------------------------------------------
(* Types of the helpers *)

LEMMA SmallCount ==
  \A T \in SUBSET Token : Cardinality(T) \in Nat
  BY FS_Subset, FS_CardinalityType

LEMMA RefreshType ==
  ASSUME ManagerType, NEW c \in Client, NEW d \in Device,
         devices' \in [Device -> Life \cup {None}], RefreshNmHot(c, d)
  PROVE  nmHot' \in [Client \X Device -> Life \cup {None}]
  BY DEF RefreshNmHot, ManagerType

LEMMA RegisterType ==
  ASSUME ManagerType, NEW c \in Client, NEW d \in Device, NEW t \in Token,
         devices' \in [Device -> Life \cup {None}], RegisterSession(c, d, t)
  PROVE  ManagerType'
  <1>1. nmHot' \in [Client \X Device -> Life \cup {None}]
    BY RefreshType DEF RegisterSession
  <1>2. sessions' \in [Token -> Session \cup {None}]
    BY DEF RegisterSession, ManagerType, Session, Mode
  <1> QED BY <1>1, <1>2 DEF RegisterSession, ManagerType

LEMMA InvalidateType ==
  ASSUME ManagerType, NEW T \in SUBSET Token, InvalidateTransport(T)
  PROVE  /\ transportValidity' \in [Token -> Nat]
         /\ validCaps' \in SUBSET (Token \X Nat)
  BY DEF InvalidateTransport, ManagerType

LEMMA DropType ==
  ASSUME ManagerType, NEW T \in SUBSET Token, DropSessions(T)
  PROVE  /\ sessions' \in [Token -> Session \cup {None}]
         /\ authHashes' \in SUBSET Token
         /\ transportValidity' \in [Token -> Nat]
         /\ validCaps' \in SUBSET (Token \X Nat)
  BY InvalidateType DEF DropSessions, ManagerType

LEMMA RemoveType ==
  ASSUME ManagerType, LifeType, NEW d \in Device, RemoveEntry(d)
  PROVE  /\ devices' \in [Device -> Life \cup {None}]
         /\ nmHot' \in [Client \X Device -> Life \cup {None}]
         /\ LifeType'
  BY DEF RemoveEntry, InvalidateNmHot, ManagerType, LifeType

LEMMA RecountType ==
  ASSUME nonNm \in Int, NEW t \in Token, NEW mode, Recount(t, mode)
  PROVE  nonNm' \in Int
  <1>1. NonNmOf({t}) \in SUBSET Token
    BY DEF NonNmOf
  <1> QED BY <1>1, SmallCount DEF Recount

LEMMA StopType ==
  ASSUME LifeType, NEW l \in Life, SignalStop(l)
  PROVE  LifeType'
  BY DEF SignalStop, LifeType

LEMMA DeliverType ==
  ASSUME NEW q \in Seq(Event), Len(q) <= MaxInbox, NEW e \in Event
  PROVE  Deliver(q, e) \in Seq(Event) /\ Len(Deliver(q, e)) <= MaxInbox
  <1>1. CASE Len(q) < MaxInbox
    BY <1>1 DEF Deliver
  <1>2. CASE Len(q) >= MaxInbox
    <2>1. q # <<>> /\ Len(q) \in Nat /\ Len(q) > 0
      BY <1>2
    <2>2. Tail(q) \in Seq(Event) /\ Len(Tail(q)) = Len(q) - 1
      BY <2>1
    <2> QED BY <1>2, <2>1, <2>2 DEF Deliver
  <1> QED BY <1>1, <1>2

LEMMA BroadcastType ==
  ASSUME RelayType, NEW e \in Event, Broadcast(e)
  PROVE  /\ inbox' \in [Client -> Seq(Event)]
         /\ \A c \in Client : Len(inbox'[c]) <= MaxInbox
  BY DeliverType DEF Broadcast, RelayType
-----------------------------------------------------------------------------
(* Every step preserves the types *)

LEMMA TypeInit == Init => TypeInv
  BY DEF Init, TypeInv, ManagerType, LifeType, ThreadType, RelayType, EnvType, TaskType, TaskShape,
     Shaped, ThreadShape, RestType, OpeningPc, At, Task, Pc, Resting, Reader, Relay

LEMMA Frame ==
  ASSUME TypeInv
  PROVE  /\ UNCHANGED managerVars => ManagerType'
         /\ UNCHANGED lifeVars => LifeType'
         /\ UNCHANGED threadVars => ThreadType'
         /\ UNCHANGED relayVars => RelayType'
         /\ UNCHANGED envVars => EnvType'
         /\ UNCHANGED task => TaskType'
         /\ UNCHANGED <<reader, lifeDev, relay>> => ThreadShape'
  <1>1. UNCHANGED managerVars => ManagerType'
    BY DEF TypeInv, managerVars, ManagerType
  <1>2. UNCHANGED lifeVars => LifeType'
    BY DEF TypeInv, lifeVars, LifeType
  <1>3. UNCHANGED threadVars => ThreadType'
    BY DEF TypeInv, threadVars, ThreadType
  <1>4. UNCHANGED relayVars => RelayType'
    BY DEF TypeInv, relayVars, RelayType
  <1>5. UNCHANGED envVars => EnvType'
    BY DEF TypeInv, envVars, EnvType
  <1>6. UNCHANGED task => TaskType'
    BY DEF TypeInv, TaskType, TaskShape, Shaped
  <1>7. UNCHANGED <<reader, lifeDev, relay>> => ThreadShape'
    BY DEF TypeInv, ThreadShape
  <1> QED BY <1>1, <1>2, <1>3, <1>4, <1>5, <1>6, <1>7

LEMMA AtType ==
  ASSUME NEW pc \in Pc \ (OpeningPc \cup {"stop", "join"})
  PROVE  At(pc) \in Task /\ Shaped(At(pc))
  BY DEF At, Task, Shaped, Pc, OpeningPc

\* Replacing one task by a well-formed one, in any well-formed array of tasks.
LEMMA TaskUpdate ==
  ASSUME NEW tasks \in [Client -> Task], \A x \in Client : Shaped(tasks[x]),
         NEW c \in Client, NEW k \in Task, Shaped(k), task' = [tasks EXCEPT ![c] = k]
  PROVE  TaskType'
  BY DEF TaskType, TaskShape

LEMMA WokenType ==
  ASSUME TaskType, NEW token
  PROVE  /\ Woken(task, token) \in [Client -> Task]
         /\ \A c \in Client : Shaped(Woken(task, token)[c])
  <1> SUFFICES ASSUME NEW c \in Client
               PROVE  Woken(task, token)[c] \in Task /\ Shaped(Woken(task, token)[c])
    BY DEF Woken
  <1>1. task[c] \in Task /\ Shaped(task[c])
    BY DEF TaskType, TaskShape
  <1>2. CASE task[c].pc = "waiting" /\ task[c].waitOn = token
    <2>1. Woken(task, token)[c] = [task[c] EXCEPT !.pc = "woken", !.waitOn = None]
      BY <1>2 DEF Woken
    <2>2. [task[c] EXCEPT !.pc = "woken", !.waitOn = None] \in Task
      BY <1>1 DEF Task, Pc
    <2>3. Shaped([task[c] EXCEPT !.pc = "woken", !.waitOn = None])
      BY <1>1, <1>2 DEF Shaped, OpeningPc, Task
    <2> QED BY <2>1, <2>2, <2>3
  <1>3. CASE ~(task[c].pc = "waiting" /\ task[c].waitOn = token)
    BY <1>1, <1>3 DEF Woken
  <1> QED BY <1>2, <1>3

LEMMA ConnectType ==
  ASSUME TypeInv, NEW c \in Client, Connect(c)
  PROVE  TypeInv'
  <1>1. TaskType'
    BY DEF Connect, TypeInv, TaskType, TaskShape, Shaped, Task, Pc, OpeningPc, At
  <1> QED BY <1>1, Frame DEF Connect, TypeInv, RestType, lifeVars, threadVars, relayVars, envVars

LEMMA PhysicalOpenType ==
  ASSUME TypeInv, NEW c \in Client, PhysicalOpen(c)
  PROVE  TypeInv'
  <1>1. TaskType'
    BY DEF PhysicalOpen, TypeInv, TaskType, TaskShape, Shaped, Task, Pc, OpeningPc, At
  <1> QED BY <1>1, Frame DEF PhysicalOpen, TypeInv, RestType, lifeVars, threadVars, relayVars, envVars

LEMMA EndReservationType ==
  ASSUME TypeInv, NEW c \in Client, EndReservation(c)
  PROVE  TypeInv'
  <1>1. TaskType'
    BY DEF EndReservation, TypeInv, TaskType, TaskShape, Shaped, Task, Pc, OpeningPc, At
  <1> QED BY <1>1, Frame DEF EndReservation, TypeInv, RestType, lifeVars, threadVars, relayVars, envVars

LEMMA JoinEntryType ==
  ASSUME TypeInv, NEW c \in Client, JoinEntry(c)
  PROVE  TypeInv'
  <1>1. TaskType'
    BY DEF JoinEntry, TypeInv, TaskType, TaskShape, Shaped, Task, Pc, OpeningPc, At
  <1> QED BY <1>1, Frame DEF JoinEntry, TypeInv, RestType, lifeVars, threadVars, relayVars, envVars

LEMMA LeaveType ==
  ASSUME TypeInv, NEW c \in Client, Leave(c)
  PROVE  TypeInv'
  <1>1. TaskType'
    BY DEF Leave, TypeInv, TaskType, TaskShape, Shaped, Task, Pc, OpeningPc, At
  <1> QED BY <1>1, Frame DEF Leave, TypeInv, RestType, lifeVars, threadVars, relayVars, envVars

LEMMA NotifyWaitersType ==
  ASSUME TypeInv, NEW c \in Client, NotifyWaiters(c)
  PROVE  TypeInv'
  <1>1. TaskType'
    BY WokenType, AtType, TaskUpdate DEF NotifyWaiters, TypeInv, Pc, OpeningPc
  <1> QED BY <1>1, Frame DEF NotifyWaiters, TypeInv, RestType, lifeVars, threadVars, relayVars, envVars

LEMMA OpenType ==
  ASSUME TypeInv, NEW c \in Client, NEW d \in Device, NEW t \in Token, Open(c, d, t)
  PROVE  TypeInv'
  <1>1. TaskType'
    BY DEF Open, TypeInv, TaskType, TaskShape, Shaped, Task, Pc, OpeningPc, At
  <1>2. EnvType'
    BY DEF Open, TypeInv, EnvType
  <1> QED BY <1>1, <1>2, Frame DEF Open, TypeInv, RestType, lifeVars, threadVars, relayVars, envVars

LEMMA ReleaseReaderType ==
  ASSUME TypeInv, NEW c \in Client, ReleaseReader(c)
  PROVE  TypeInv'
  <1>1. TaskType'
    BY DEF ReleaseReader, TypeInv, TaskType, TaskShape, Shaped, Task, Pc, OpeningPc, At
  <1>2. LifeType'
    BY DEF ReleaseReader, TypeInv, LifeType, TaskType, TaskShape, Shaped
  <1> QED BY <1>1, <1>2, Frame DEF ReleaseReader, TypeInv, RestType, lifeVars, threadVars, relayVars, envVars

LEMMA SnapshotOwnedType ==
  ASSUME TypeInv, NEW c \in Client, SnapshotOwned(c)
  PROVE  TypeInv'
  <1> DEFINE k == [task[c] EXCEPT !.pc = "draining", !.owned = Owned(c)]
  <1>1. Owned(c) \in SUBSET Token
    BY DEF Owned
  <1> PICK k0 \in Task : k0 = task[c]
    BY DEF TypeInv, TaskType
  <1>2. k \in Task /\ k.pc = "draining"
    BY <1>1 DEF Task, Pc
  <1>3. Shaped(k)
    BY <1>2 DEF Shaped, OpeningPc
  <1>4. task' = [task EXCEPT ![c] = k]
    BY DEF SnapshotOwned
  <1>5. TaskType'
    BY <1>2, <1>3, <1>4, TaskUpdate DEF TypeInv, TaskType, TaskShape
  <1> QED BY <1>5, Frame DEF SnapshotOwned, TypeInv, RestType, lifeVars, threadVars, relayVars, envVars

LEMMA ReserveType ==
  ASSUME TypeInv, NEW c \in Client, Reserve(c)
  PROVE  TypeInv'
  <1>1. task[c].device \in Device /\ task[c].token \in Token
    BY DEF Reserve, TypeInv, TaskType, TaskShape, Shaped, OpeningPc
  <1>2. ManagerType'
    BY <1>1, RegisterType, Frame DEF Reserve, TypeInv, ManagerType
  <1>3. opening' \in [Device -> Reservation \cup {None}]
    <2>1. [token |-> task[c].token, invalidated |-> FALSE] \in Reservation
      BY <1>1 DEF Reservation
    <2> QED BY <1>1, <2>1 DEF Reserve, TypeInv, RestType, managerVars
  <1>4. opening[task[c].device] # None => opening[task[c].device].token \in Token
    BY <1>1 DEF TypeInv, RestType, Reservation
  <1>5. TaskType'
    BY <1>1, <1>4 DEF Reserve, TypeInv, TaskType, TaskShape, Shaped, Task, Pc, OpeningPc, At
  <1> QED BY <1>1, <1>2, <1>3, <1>4, <1>5, Frame DEF Reserve, TypeInv, RestType, lifeVars, threadVars, relayVars, envVars

LEMMA WakeType ==
  ASSUME TypeInv, NEW c \in Client, Wake(c)
  PROVE  TypeInv'
  <1>1. task[c].device \in Device /\ task[c].token \in Token
    BY DEF Wake, TypeInv, TaskType, TaskShape, Shaped, OpeningPc
  <1>2. ManagerType'
    BY <1>1, RegisterType, Frame DEF Wake, TypeInv, ManagerType
  <1>3. TaskType'
    BY <1>1 DEF Wake, TypeInv, TaskType, TaskShape, Shaped, Task, Pc, OpeningPc, At
  <1> QED BY <1>1, <1>2, <1>3, Frame DEF Wake, TypeInv, RestType, lifeVars, threadVars, relayVars, envVars

LEMMA CheckReservationType ==
  ASSUME TypeInv, NEW c \in Client, NEW l \in Life, CheckReservation(c, l)
  PROVE  TypeInv'
  <1>1. task[c].device \in Device /\ task[c].token \in Token
    BY DEF CheckReservation, TypeInv, TaskType, TaskShape, Shaped, OpeningPc
  <1>2. ManagerType'
    BY <1>1, RegisterType, Frame DEF CheckReservation, TypeInv, ManagerType
  <1>3. LifeType'
    BY <1>1 DEF CheckReservation, TypeInv, LifeType
  <1>4. ThreadType'
    BY DEF CheckReservation, TypeInv, ThreadType, threadVars, Reader
  <1>5. ThreadShape'
    BY <1>1 DEF CheckReservation, TypeInv, ThreadShape, ThreadType, LifeType, threadVars, relayVars, Reader
  <1>6. TaskType'
    BY <1>1 DEF CheckReservation, TypeInv, TaskType, TaskShape, Shaped, Task, Pc, OpeningPc, At
  <1> QED BY <1>1, <1>2, <1>3, <1>4, <1>5, <1>6, Frame DEF CheckReservation, TypeInv, RestType, lifeVars, threadVars, relayVars, envVars

LEMMA ContinueType ==
  ASSUME NEW tasks \in [Client -> Task], \A x \in Client : Shaped(tasks[x]),
         NEW c \in Client, NEW entry \in Life \cup {None},
         NEW here \in {"idle", "draining", "abandon"},
         here = "abandon" => tasks[c].device \in Device /\ tasks[c].token \in Token,
         task' = Continue(tasks, c, entry, here)
  PROVE  TaskType'
  <1>1. CASE entry = None
    BY <1>1 DEF Continue, TaskType, TaskShape, Shaped, Task, Pc, OpeningPc
  <1>2. CASE entry # None
    <2> DEFINE k == [tasks[c] EXCEPT !.pc = "stop", !.life = entry, !.resume = here]
    <2> PICK k0 \in Task : k0 = tasks[c]
      OBVIOUS
    <2>1. k \in Task /\ k.pc = "stop" /\ k.life = entry /\ k.resume = here
          /\ k.device = tasks[c].device /\ k.token = tasks[c].token
      BY <1>2 DEF Task, Pc
    <2>2. Shaped(k)
      BY <1>2, <2>1 DEF Shaped, OpeningPc
    <2>3. task' = [tasks EXCEPT ![c] = k]
      BY <1>2 DEF Continue
    <2> QED BY <2>1, <2>2, <2>3, TaskUpdate
  <1> QED BY <1>1, <1>2

LEMMA PublishType ==
  ASSUME TypeInv, NEW c \in Client, Publish(c)
  PROVE  TypeInv'
  <1>1. task[c].device \in Device /\ task[c].token \in Token /\ task[c].life \in Life
    BY DEF Publish, TypeInv, TaskType, TaskShape, Shaped, OpeningPc
  <1>2. devices' \in [Device -> Life \cup {None}]
    BY <1>1 DEF Publish, TypeInv, ManagerType
  <1>3. ManagerType'
    BY <1>1, <1>2, RegisterType DEF Publish, TypeInv, ManagerType
  <1>4. LifeType'
    BY <1>1 DEF Publish, TypeInv, LifeType
  <1>5. task' = [task EXCEPT ![c].pc = "release"] => TaskType'
    BY <1>1 DEF TypeInv, TaskType, TaskShape, Shaped, Task, Pc, OpeningPc, At
  <1>6. task' = Continue(task, c, task[c].life, "abandon") => TaskType'
    BY <1>1, ContinueType DEF TypeInv, TaskType, TaskShape
  <1>7. TaskType'
    BY <1>5, <1>6 DEF Publish
  <1> QED BY <1>1, <1>2, <1>3, <1>4, <1>5, <1>6, <1>7, Frame DEF Publish, TypeInv, RestType, lifeVars, threadVars, relayVars, envVars

LEMMA StopEntryType ==
  ASSUME TypeInv, NEW c \in Client, StopEntry(c)
  PROVE  TypeInv'
  <1>1. task[c].life \in Life
    BY DEF StopEntry, TypeInv, TaskType, TaskShape, Shaped
  <1>2. LifeType' /\ lifeDev' = lifeDev
    BY <1>1, StopType DEF StopEntry, TypeInv, SignalStop
  <1>3. TaskType'
    BY DEF StopEntry, TypeInv, TaskType, TaskShape, Shaped, Task, Pc, OpeningPc, At
  <1> QED BY <1>1, <1>2, <1>3, Frame DEF StopEntry, TypeInv, RestType, lifeVars, threadVars, relayVars, envVars

LEMMA CloseSessionType ==
  ASSUME TypeInv, NEW c \in Client, NEW t \in Token,
         NEW tasks \in [Client -> Task], \A x \in Client : Shaped(tasks[x]),
         NEW here \in {"idle", "draining"}, CloseSession(c, t, tasks, here)
  PROVE  /\ ManagerType' /\ LifeType' /\ lifeDev' = lifeDev
         /\ TaskType' /\ nonNm' \in Int /\ nmSinks' \in SUBSET Client
  <1>1. PICK d \in Device : d = sessions[t].device
    BY DEF CloseSession, Live, TypeInv, ManagerType, Session
  <1> DEFINE last == SessionsOf(d) = {t}
  <1>2. /\ sessions' \in [Token -> Session \cup {None}]
        /\ authHashes' \in SUBSET Token
        /\ transportValidity' \in [Token -> Nat]
        /\ validCaps' \in SUBSET (Token \X Nat)
    BY DropType DEF CloseSession, TypeInv
  <1>3. nonNm' \in Int /\ nmSinks' \in SUBSET Client
    BY RecountType DEF CloseSession, TypeInv, RestType
  <1>4. last => ManagerType' /\ LifeType' /\ lifeDev' = lifeDev
    <2> HAVE last
    <2>1. RemoveEntry(d)
      BY <1>1 DEF CloseSession, RemoveEntry, InvalidateNmHot, SessionsOf
    <2>2. devices' \in [Device -> Life \cup {None}] /\ LifeType'
          /\ nmHot' \in [Client \X Device -> Life \cup {None}]
      BY <1>1, <2>1, RemoveType DEF TypeInv
    <2> QED BY <1>2, <2>1, <2>2 DEF ManagerType, RemoveEntry
  <1>5. ~last => ManagerType' /\ LifeType' /\ lifeDev' = lifeDev
    <2> HAVE ~last
    <2>1. UNCHANGED <<devices, lifeVars>> /\ RefreshNmHot(c, d)
      BY <1>1 DEF CloseSession, RefreshNmHot, Bindable, SessionsOf
    <2>2. LifeType' /\ lifeDev' = lifeDev /\ devices' \in [Device -> Life \cup {None}]
      BY <2>1, Frame DEF TypeInv, ManagerType, lifeVars
    <2>3. nmHot' \in [Client \X Device -> Life \cup {None}]
      BY <1>1, <2>1, <2>2, RefreshType DEF TypeInv
    <2> QED BY <1>2, <2>2, <2>3 DEF ManagerType
  <1>6. TaskType'
    <2>1. task' = Continue(tasks, c, IF last THEN devices[d] ELSE None, here)
      BY <1>1 DEF CloseSession, Continue, SessionsOf
    <2>2. (IF last THEN devices[d] ELSE None) \in Life \cup {None}
      BY <1>1 DEF TypeInv, ManagerType
    <2> QED BY <2>1, <2>2, ContinueType
  <1> QED BY <1>3, <1>4, <1>5, <1>6

LEMMA CloseType ==
  ASSUME TypeInv, NEW c \in Client, NEW t \in Token, Close(c, t)
  PROVE  TypeInv'
  <1>1. /\ ManagerType' /\ LifeType' /\ lifeDev' = lifeDev
         /\ TaskType' /\ nonNm' \in Int /\ nmSinks' \in SUBSET Client
    BY CloseSessionType DEF Close, TypeInv, TaskType, TaskShape
  <1> QED BY <1>1, Frame DEF Close, TypeInv, RestType, lifeVars, threadVars, relayVars, envVars

LEMMA DrainOneType ==
  ASSUME TypeInv, NEW c \in Client, NEW t \in Token, DrainOne(c, t)
  PROVE  TypeInv'
  <1> DEFINE k == [task[c] EXCEPT !.owned = @ \ {t}]
             listed == [task EXCEPT ![c].owned = @ \ {t}]
  <1>1. listed \in [Client -> Task] /\ \A x \in Client : Shaped(listed[x])
    <2> PICK k0 \in Task : k0 = task[c]
      BY DEF TypeInv, TaskType
    <2>1. k \in Task /\ k.pc = k0.pc /\ k.device = k0.device /\ k.token = k0.token
          /\ k.life = k0.life /\ k.resume = k0.resume
      BY DEF Task
    <2>2. Shaped(k)
      BY <2>1 DEF Shaped, TypeInv, TaskType, TaskShape
    <2>3. listed = [task EXCEPT ![c] = k]
      OBVIOUS
    <2> QED BY <2>1, <2>2, <2>3 DEF TypeInv, TaskType, TaskShape
  <1> HIDE DEF listed
  <1>2. CASE CloseSession(c, t, listed, "draining")
    <2>1. /\ ManagerType' /\ LifeType' /\ lifeDev' = lifeDev
          /\ TaskType' /\ nonNm' \in Int /\ nmSinks' \in SUBSET Client
      BY <1>1, <1>2, CloseSessionType
    <2> QED BY <2>1, Frame DEF DrainOne, TypeInv, RestType, threadVars, relayVars, envVars
  <1>3. CASE task' = listed /\ UNCHANGED <<managerVars, nmSinks, nonNm, lifeVars>>
    <2>1. TaskType'
      BY <1>1, <1>3 DEF TaskType, TaskShape
    <2> QED BY <1>3, <2>1, Frame DEF DrainOne, TypeInv, RestType, lifeVars, threadVars, relayVars, envVars
  <1> QED BY <1>2, <1>3 DEF DrainOne, listed

LEMMA SetDataplaneModeType ==
  ASSUME TypeInv, NEW c \in Client, NEW t \in Token, NEW mode \in Mode, SetDataplaneMode(c, t, mode)
  PROVE  TypeInv'
  <1>1. sessions[t] \in Session /\ sessions[t].device \in Device
    BY DEF SetDataplaneMode, Live, TypeInv, ManagerType, Session
  <1>2. sessions' \in [Token -> Session \cup {None}]
    <2>1. [sessions[t] EXCEPT !.mode = mode] \in Session
      BY <1>1 DEF Session
    <2> QED BY <2>1 DEF SetDataplaneMode, TypeInv, ManagerType
  <1>3. /\ transportValidity' \in [Token -> Nat]
        /\ validCaps' \in SUBSET (Token \X Nat)
    BY InvalidateType DEF SetDataplaneMode, TypeInv
  <1>4. authHashes' \in SUBSET Token /\ devices' \in [Device -> Life \cup {None}]
    BY DEF SetDataplaneMode, TypeInv, ManagerType
  <1>5. nmHot' \in [Client \X Device -> Life \cup {None}]
    BY <1>1, <1>4 DEF SetDataplaneMode, RefreshNmHot, TypeInv, ManagerType
  <1>6. nonNm' \in Int
    BY RecountType DEF SetDataplaneMode, TypeInv, RestType
  <1>7. ManagerType'
    BY <1>2, <1>3, <1>4, <1>5 DEF ManagerType
  <1> QED BY <1>6, <1>7, Frame DEF SetDataplaneMode, TypeInv, RestType, lifeVars, threadVars, relayVars, envVars

LEMMA DisconnectType ==
  ASSUME TypeInv, NEW c \in Client, Disconnect(c)
  PROVE  TypeInv'
  <1>1. ManagerType'
    BY DEF Disconnect, TypeInv, ManagerType
  <1>2. TaskType'
    BY DEF Disconnect, TypeInv, TaskType, TaskShape, Shaped, Task, Pc, OpeningPc
  <1>3. RelayType'
    <2> DEFINE room == IF relay[c].at = "idle" /\ inbox[c] # <<>> THEN {0, 1} ELSE {0}
    <2>1. PICK kept \in room : inbox' = [inbox EXCEPT ![c] = SubSeq(@, 1, kept)]
      BY DEF Disconnect
    <2>2. inbox[c] \in Seq(Event) /\ Len(inbox[c]) <= MaxInbox
      BY DEF TypeInv, RelayType
    <2>3. SubSeq(inbox[c], 1, kept) \in Seq(Event) /\ Len(SubSeq(inbox[c], 1, kept)) <= MaxInbox
      <3>1. kept \in 0..Len(inbox[c])
        BY <2>2
      <3> QED BY <2>2, <3>1
    <2> QED BY <2>1, <2>3 DEF Disconnect, TypeInv, RelayType
  <1>4. nmSinks' \in SUBSET Client
    BY DEF Disconnect, TypeInv, RestType
  <1>5. ThreadShape'
    BY Frame DEF Disconnect, lifeVars, threadVars
  <1> QED BY <1>1, <1>2, <1>3, <1>4, <1>5, Frame DEF Disconnect, TypeInv, RestType, lifeVars, threadVars, envVars
-----------------------------------------------------------------------------
LEMMA HeadType ==
  ASSUME RelayType, NEW c \in Client, inbox[c] # <<>>
  PROVE  /\ Head(inbox[c]) \in Event
         /\ [inbox EXCEPT ![c] = Tail(@)] \in [Client -> Seq(Event)]
         /\ \A x \in Client : Len([inbox EXCEPT ![c] = Tail(@)][x]) <= MaxInbox
  <1>1. inbox[c] \in Seq(Event) /\ Len(inbox[c]) <= MaxInbox
    BY DEF RelayType
  <1>2. Head(inbox[c]) \in Event /\ Tail(inbox[c]) \in Seq(Event) /\ Len(Tail(inbox[c])) <= MaxInbox
    BY <1>1
  <1> QED BY <1>2 DEF RelayType

LEMMA HotplugRemoveType ==
  ASSUME TypeInv, NEW d \in Device, HotplugRemove(d)
  PROVE  TypeInv'
  <1>1. [device |-> d, cause |-> None] \in Event
    BY DEF Event
  <1>2. RelayType'
    BY <1>1, BroadcastType DEF HotplugRemove, TypeInv, RelayType
  <1>3. EnvType'
    BY DEF HotplugRemove, TypeInv, EnvType
  <1>4. ThreadShape'
    BY Frame DEF HotplugRemove, lifeVars, threadVars
  <1> QED BY <1>2, <1>3, <1>4, Frame DEF HotplugRemove, TypeInv, RestType, lifeVars, threadVars

LEMMA RelayLaggedType ==
  ASSUME TypeInv, NEW c \in Client, RelayLagged(c)
  PROVE  TypeInv'
  <1>1. RelayType'
    BY HeadType DEF RelayLagged, TypeInv, RelayType
  <1>2. ThreadShape'
    BY Frame DEF RelayLagged, lifeVars, threadVars
  <1> QED BY <1>1, <1>2, Frame DEF RelayLagged, TypeInv, RestType, lifeVars, threadVars

LEMMA DetachType ==
  ASSUME TypeInv, NEW d \in Device, DetachLifetime(d)
  PROVE  ManagerType' /\ LifeType' /\ lifeDev' = lifeDev
  <1>1. SessionsOf(d) \in SUBSET Token
    BY DEF SessionsOf
  <1>2. /\ sessions' \in [Token -> Session \cup {None}]
        /\ authHashes' \in SUBSET Token
        /\ transportValidity' \in [Token -> Nat]
        /\ validCaps' \in SUBSET (Token \X Nat)
    <2> PICK T \in SUBSET Token : T = SessionsOf(d)
      BY <1>1
    <2>1. DropSessions(T)
      BY DEF DetachLifetime, DropSessions, InvalidateTransport
    <2> QED BY <2>1, DropType DEF TypeInv
  <1>3. RemoveEntry(d)
    BY DEF DetachLifetime
  <1> QED BY <1>2, <1>3, RemoveType DEF TypeInv, ManagerType, RemoveEntry

LEMMA ForceCloseType ==
  ASSUME TypeInv, NEW c \in Client, ForceClose(c)
  PROVE  TypeInv'
  <1>1. PICK d \in Device : d = Head(inbox[c]).device /\ Head(inbox[c]).cause \in Life \cup {None}
    BY HeadType DEF ForceClose, TypeInv, Event
  <1>2. DetachLifetime(d)
    BY <1>1 DEF ForceClose, DetachLifetime, SessionsOf, DropSessions, InvalidateTransport, RemoveEntry,
                InvalidateNmHot
  <1>3. ManagerType' /\ LifeType' /\ lifeDev' = lifeDev
    BY <1>2, DetachType
  <1>4. TaskType' /\ opening' \in [Device -> Reservation \cup {None}]
    <2>1. CASE opening[d] = None
      BY <1>1, <2>1, Frame DEF ForceClose, TypeInv, RestType
    <2>2. CASE opening[d] # None
      <3>1. opening' \in [Device -> Reservation \cup {None}]
        <4>1. [opening[d] EXCEPT !.invalidated = TRUE] \in Reservation
          BY <2>2 DEF TypeInv, RestType, Reservation
        <4> QED BY <1>1, <2>2, <4>1 DEF ForceClose, TypeInv, RestType
      <3>2. task' = Woken(task, opening[d].token)
        BY <1>1, <2>2 DEF ForceClose
      <3> QED BY <3>1, <3>2, WokenType DEF TypeInv, TaskType, TaskShape
    <2> QED BY <2>1, <2>2
  <1>5. RelayType' /\ ThreadShape'
    <2>1. NonNmOf(SessionsOf(d)) \in SUBSET Token
      BY DEF NonNmOf, SessionsOf
    <2>2. [at |-> "unlocked", life |-> devices[d], cause |-> Head(inbox[c]).cause,
           owed |-> NonNmOf(SessionsOf(d))] \in Relay
      BY <1>1, <2>1 DEF TypeInv, ManagerType, Relay
    <2>3. relay' = [relay EXCEPT ![c] = [at |-> "unlocked", life |-> devices[d],
                      cause |-> Head(inbox[c]).cause, owed |-> NonNmOf(SessionsOf(d))]]
      BY <1>1 DEF ForceClose
    <2>4. RelayType'
      BY <2>2, <2>3, HeadType DEF ForceClose, TypeInv, RelayType
    <2>5. ThreadShape'
      BY <1>3, <2>3 DEF ForceClose, TypeInv, RelayType, ThreadShape, threadVars
    <2> QED BY <2>4, <2>5
  <1> QED BY <1>3, <1>4, <1>5, Frame DEF ForceClose, TypeInv, RestType, threadVars, envVars

LEMMA ForceCloseStopType ==
  ASSUME TypeInv, NEW c \in Client, ForceCloseStop(c)
  PROVE  TypeInv'
  <1>1. relay[c] \in Relay
    BY DEF TypeInv, RelayType
  <1>2. nonNm' \in Int
    BY <1>1, SmallCount DEF ForceCloseStop, TypeInv, RestType, Relay
  <1>3. RelayType' /\ LifeType' /\ ThreadShape'
    <2>1. CASE relay[c].life = None
      <3>1. Resting \in Relay
        BY DEF Resting, Relay
      <3>2. LifeType'
        BY <2>1, Frame DEF ForceCloseStop
      <3>3. RelayType'
        BY <2>1, <3>1 DEF ForceCloseStop, TypeInv, RelayType
      <3>4. Resting.at = "idle" /\ relay' = [relay EXCEPT ![c] = Resting]
        BY <2>1 DEF ForceCloseStop, Resting
      <3>5. ThreadShape'
        BY <2>1, <3>4 DEF ForceCloseStop, TypeInv, RelayType, ThreadShape, lifeVars, threadVars
      <3> QED BY <3>2, <3>3, <3>5
    <2>2. CASE relay[c].life # None
      <3>1. PICK l \in Life : l = relay[c].life
        BY <1>1, <2>2 DEF Relay
      <3>2. SignalStop(l)
        BY <2>2, <3>1 DEF ForceCloseStop, SignalStop
      <3>3. LifeType' /\ lifeDev' = lifeDev
        BY <3>2, StopType DEF TypeInv, SignalStop
      <3> DEFINE r == [relay[c] EXCEPT !.at = "join", !.owed = {}]
      <3>4. r \in Relay /\ r.life \in Life
        BY <1>1, <3>1 DEF Relay
      <3>5. relay' = [relay EXCEPT ![c] = r]
        BY <2>2 DEF ForceCloseStop
      <3> HIDE DEF r
      <3> QED BY <3>3, <3>4, <3>5 DEF ForceCloseStop, TypeInv, RelayType, ThreadShape, threadVars
    <2> QED BY <2>1, <2>2
  <1> QED BY <1>2, <1>3, Frame DEF ForceCloseStop, TypeInv, RestType, threadVars, envVars

LEMMA ForceCloseJoinType ==
  ASSUME TypeInv, NEW c \in Client, ForceCloseJoin(c)
  PROVE  TypeInv'
  <1>1. Resting \in Relay /\ Resting.at = "idle"
    BY DEF Resting, Relay
  <1>2. RelayType'
    BY <1>1 DEF ForceCloseJoin, TypeInv, RelayType
  <1>3. ThreadShape'
    BY <1>1 DEF ForceCloseJoin, TypeInv, RelayType, ThreadShape, lifeVars, threadVars
  <1> QED BY <1>2, <1>3, Frame DEF ForceCloseJoin, TypeInv, RestType, lifeVars, threadVars, envVars
-----------------------------------------------------------------------------
LEMMA ReaderPassesType ==
  ASSUME TypeInv, NEW l \in Life, ReaderPasses(l)
  PROVE  TypeInv'
  <1>1. ThreadType' /\ ThreadShape'
    BY DEF ReaderPasses, TypeInv, ThreadType, ThreadShape, Reader, lifeVars, relayVars
  <1> QED BY <1>1, Frame DEF ReaderPasses, TypeInv, RestType, lifeVars, relayVars, envVars

LEMMA ReaderStopsType ==
  ASSUME TypeInv, NEW l \in Life, ReaderStops(l)
  PROVE  TypeInv'
  <1>1. ThreadType' /\ ThreadShape'
    BY DEF ReaderStops, TypeInv, ThreadType, ThreadShape, Reader, lifeVars, relayVars
  <1> QED BY <1>1, Frame DEF ReaderStops, TypeInv, RestType, lifeVars, relayVars, envVars

LEMMA ReaderFailsType ==
  ASSUME TypeInv, NEW l \in Life, ReaderFails(l)
  PROVE  TypeInv'
  <1>1. ThreadType' /\ ThreadShape'
    BY DEF ReaderFails, TypeInv, ThreadType, ThreadShape, Reader, lifeVars, relayVars
  <1> QED BY <1>1, Frame DEF ReaderFails, TypeInv, RestType, lifeVars, relayVars, envVars

LEMMA ReaderDetachesType ==
  ASSUME TypeInv, NEW l \in Life, ReaderDetaches(l)
  PROVE  TypeInv'
  <1>1. PICK d \in Device : d = lifeDev[l]
    BY DEF ReaderDetaches, TypeInv, ThreadShape
  <1>2. CASE devices[d] = None
    <2>1. ThreadType' /\ ThreadShape'
      BY <1>1, <1>2 DEF ReaderDetaches, TypeInv, ThreadType, ThreadShape, Reader, lifeVars, relayVars
    <2> QED BY <1>1, <1>2, <2>1, Frame DEF ReaderDetaches, TypeInv, RestType, lifeVars, relayVars, envVars
  <1>3. CASE devices[d] # None
    <2>1. DetachLifetime(d)
      BY <1>1, <1>3 DEF ReaderDetaches, DetachLifetime, SessionsOf, DropSessions, InvalidateTransport,
                        RemoveEntry, InvalidateNmHot
    <2>2. ManagerType' /\ LifeType' /\ lifeDev' = lifeDev
      BY <2>1, DetachType
    <2> DEFINE r == [at |-> "detached", victim |-> devices[d], owed |-> NonNmOf(SessionsOf(d))]
    <2>3. NonNmOf(SessionsOf(d)) \in SUBSET Token
      BY DEF NonNmOf, SessionsOf
    <2>4. r \in Reader /\ r.victim \in Life
      BY <1>3, <2>3 DEF TypeInv, ManagerType, Reader
    <2>5. reader' = [reader EXCEPT ![l] = r]
      BY <1>1, <1>3 DEF ReaderDetaches
    <2> HIDE DEF r
    <2>6. ThreadType' /\ ThreadShape'
      BY <1>1, <2>2, <2>4, <2>5 DEF ReaderDetaches, TypeInv, ThreadType, ThreadShape, relayVars
    <2> QED BY <2>2, <2>6, Frame DEF ReaderDetaches, TypeInv, RestType, relayVars, envVars
  <1> QED BY <1>2, <1>3

LEMMA ReaderStopsIoType ==
  ASSUME TypeInv, NEW l \in Life, ReaderStopsIo(l)
  PROVE  TypeInv'
  <1>1. PICK v \in Life : v = reader[l].victim
    BY DEF ReaderStopsIo, TypeInv, ThreadShape
  <1>2. SignalStop(v)
    BY <1>1 DEF ReaderStopsIo, SignalStop
  <1>3. LifeType' /\ lifeDev' = lifeDev
    BY <1>2, StopType DEF TypeInv, SignalStop
  <1>4. ThreadType' /\ ThreadShape'
    BY <1>1, <1>3 DEF ReaderStopsIo, TypeInv, ThreadType, ThreadShape, Reader, relayVars
  <1> QED BY <1>3, <1>4, Frame DEF ReaderStopsIo, TypeInv, RestType, relayVars, envVars

LEMMA ReaderAnnouncesType ==
  ASSUME TypeInv, NEW l \in Life, ReaderAnnounces(l)
  PROVE  TypeInv'
  <1>1. reader[l] \in Reader /\ lifeDev[l] \in Device
    BY DEF ReaderAnnounces, TypeInv, ThreadType, ThreadShape
  <1>2. nonNm' \in Int
    BY <1>1, SmallCount DEF ReaderAnnounces, TypeInv, RestType, Reader
  <1>3. PICK e \in Event : e = [device |-> lifeDev[l], cause |-> l]
    BY <1>1 DEF Event
  <1>4. RelayType'
    <2>1. Broadcast(e)
      BY <1>3 DEF ReaderAnnounces, Broadcast, Deliver
    <2> QED BY <2>1, BroadcastType DEF ReaderAnnounces, TypeInv, RelayType
  <1>5. ThreadType' /\ ThreadShape'
    BY <1>1 DEF ReaderAnnounces, TypeInv, ThreadType, ThreadShape, Reader, lifeVars
  <1> QED BY <1>2, <1>4, <1>5, Frame DEF ReaderAnnounces, TypeInv, RestType, lifeVars, envVars

LEMMA IoWorkerExitsType ==
  ASSUME TypeInv, NEW l \in Life, IoWorkerExits(l)
  PROVE  TypeInv'
  <1>1. ThreadType' /\ ThreadShape'
    BY DEF IoWorkerExits, TypeInv, ThreadType, ThreadShape, lifeVars, relayVars
  <1> QED BY <1>1, Frame DEF IoWorkerExits, TypeInv, RestType, lifeVars, relayVars, envVars
-----------------------------------------------------------------------------
LEMMA TransportConnectType ==
  ASSUME TypeInv, NEW t \in Token, NEW kind \in Transport, TransportConnect(t, kind)
  PROVE  TypeInv'
  <1> DEFINE s == sessions[t]
             number == s.wsGen + s.wtGen + 1
             stepped == [s EXCEPT !.mode = kind, !.wsGen = @ + (IF kind = "ws" THEN 1 ELSE 0),
                                  !.wtGen = @ + (IF kind = "wt" THEN 1 ELSE 0)]
  <1>1. s \in Session
    BY DEF TransportConnect, Live, TypeInv, ManagerType
  <1>2. number \in Nat /\ s.device \in Device /\ s.owner \in Client /\ s.wsGen \in Nat /\ s.wtGen \in Nat
    BY <1>1 DEF Session
  <1>3. sessions' \in [Token -> Session \cup {None}]
    <2>1. stepped \in Session
      <3>1. /\ s.wsGen + (IF kind = "ws" THEN 1 ELSE 0) \in Nat
            /\ s.wtGen + (IF kind = "wt" THEN 1 ELSE 0) \in Nat
            /\ kind \in Mode
        BY <1>2 DEF Mode
      <3> QED BY <1>1, <3>1 DEF Session
    <2>2. sessions' = [sessions EXCEPT ![t] = stepped]
      BY DEF TransportConnect
    <2> HIDE DEF stepped
    <2> QED BY <2>1, <2>2 DEF TypeInv, ManagerType
  <1>4. /\ transportValidity' \in [Token -> Nat]
        /\ validCaps' \in SUBSET (Token \X Nat)
    BY <1>2 DEF TransportConnect, TypeInv, ManagerType
  <1>5. authHashes' \in SUBSET Token /\ devices' \in [Device -> Life \cup {None}]
    BY DEF TransportConnect, TypeInv, ManagerType
  <1>6. nmHot' \in [Client \X Device -> Life \cup {None}]
    BY <1>2, <1>5 DEF TransportConnect, RefreshNmHot, TypeInv, ManagerType
  <1>7. ManagerType'
    BY <1>3, <1>4, <1>5, <1>6 DEF ManagerType
  <1>8. nonNm' \in Int /\ nmSinks' \in SUBSET Client
    BY RecountType DEF TransportConnect, TypeInv, RestType
  <1>9. EnvType'
    <2>1. GenOf(t, kind) + 1 \in Nat
      BY <1>2 DEF GenOf
    <2>2. [token |-> t, kind |-> kind, gen |-> GenOf(t, kind) + 1, cap |-> number] \in Conn
      BY <1>2, <2>1 DEF Conn
    <2> QED BY <2>2 DEF TransportConnect, TypeInv, EnvType
  <1> QED BY <1>7, <1>8, <1>9, Frame DEF TransportConnect, TypeInv, RestType, lifeVars, threadVars, relayVars

LEMMA TransportDisconnectType ==
  ASSUME TypeInv, NEW k \in conns, TransportDisconnect(k)
  PROVE  TypeInv'
  <1>1. EnvType'
    BY DEF TransportDisconnect, TypeInv, EnvType
  <1>2. PICK t \in Token : t = k.token
    BY DEF TypeInv, EnvType, Conn
  <1>3. ManagerType' /\ nonNm' \in Int /\ nmSinks' \in SUBSET Client
    <2>1. CASE ConnectionCurrent(k)
      <3>1. sessions[t] \in Session /\ sessions[t].device \in Device /\ sessions[t].owner \in Client
        BY <1>2, <2>1 DEF ConnectionCurrent, GenerationCurrent, Live, TypeInv, ManagerType, Session
      <3>2. sessions' \in [Token -> Session \cup {None}]
        <4>1. [sessions[t] EXCEPT !.mode = "nm"] \in Session
          BY <3>1 DEF Session, Mode
        <4> QED BY <1>2, <2>1, <4>1 DEF TransportDisconnect, TypeInv, ManagerType
      <3>3. /\ InvalidateTransport({t}) /\ Recount(t, "nm") /\ nmSinks' = nmSinks
            /\ authHashes' = authHashes /\ devices' = devices
        BY <1>2, <2>1 DEF TransportDisconnect, InvalidateTransport, Recount, NonNmOf, CapOf
      <3>4. /\ transportValidity' \in [Token -> Nat]
            /\ validCaps' \in SUBSET (Token \X Nat)
        BY <3>3, InvalidateType DEF TypeInv
      <3>5. nonNm' \in Int /\ nmSinks' \in SUBSET Client
        BY <3>3, RecountType DEF TypeInv, RestType
      <3>6. nmHot' \in [Client \X Device -> Life \cup {None}]
        <4>1. RefreshNmHot(sessions[t].owner, sessions[t].device)
          BY <1>2, <2>1 DEF TransportDisconnect, RefreshNmHot, Bindable
        <4>2. devices' \in [Device -> Life \cup {None}]
          BY <3>3 DEF TypeInv, ManagerType
        <4> QED BY <3>1, <4>1, <4>2 DEF RefreshNmHot, TypeInv, ManagerType
      <3> QED BY <3>2, <3>3, <3>4, <3>5, <3>6 DEF TypeInv, ManagerType
    <2>2. CASE ~ConnectionCurrent(k)
      BY <2>2, Frame DEF TransportDisconnect, TypeInv, RestType
    <2> QED BY <2>1, <2>2
  <1> QED BY <1>1, <1>3, Frame DEF TransportDisconnect, TypeInv, RestType, lifeVars, threadVars, relayVars
-----------------------------------------------------------------------------
LEMMA TypeStep ==
  ASSUME TypeInv, [Next]_vars
  PROVE  TypeInv'
  <1>1. CASE UNCHANGED vars
    BY <1>1, Frame DEF vars, TypeInv, RestType, lifeVars, threadVars, relayVars
  <1>2. CASE Environment
    BY <1>2, ConnectType, DisconnectType, RelayLaggedType, OpenType, CloseType,
       SetDataplaneModeType, HotplugRemoveType, ReaderFailsType, TransportConnectType,
       TransportDisconnectType DEF Environment
  <1>3. ASSUME NEW c \in Client, RequestStep(c)
        PROVE  TypeInv'
    BY <1>3, ReserveType, WakeType, PhysicalOpenType, PublishType, ReleaseReaderType,
       EndReservationType, NotifyWaitersType, StopEntryType, JoinEntryType, SnapshotOwnedType,
       LeaveType, CheckReservationType, DrainOneType DEF RequestStep
  <1>4. ASSUME NEW c \in Client, RelayStep(c)
        PROVE  TypeInv'
    BY <1>4, ForceCloseType, ForceCloseStopType, ForceCloseJoinType DEF RelayStep
  <1>5. ASSUME NEW l \in Life, ReaderStep(l) \/ IoWorkerExits(l)
        PROVE  TypeInv'
    BY <1>5, ReaderPassesType, ReaderStopsType, ReaderDetachesType, ReaderStopsIoType,
       ReaderAnnouncesType, IoWorkerExitsType DEF ReaderStep
  <1> QED BY <1>1, <1>2, <1>3, <1>4, <1>5 DEF Next

\* Every variable of the daemon keeps its type, for any number of clients,
\* devices, tokens and lifetimes.
THEOREM TypeCorrect == Spec => []TypeOK
  <1>1. TypeInv => TypeOK
    BY DEF TypeInv, TypeOK, TaskType, RestType
  <1> QED BY TypeInit, TypeStep, <1>1, PTL DEF Spec

-----------------------------------------------------------------------------
(* Sessions, Entries, capabilities and NM bindings *)



(* The strengthening behind the session invariants *)

\* Stages of an open that has yet to register its session.
Unregistered == {"reserve", "waiting", "woken", "opening", "opened", "built"}
Holds(c) == task[c].pc \in Unregistered

\* A token is drawn once: no session and no other open uses it.
TokensFresh ==
  /\ \A t \in Token : Live(t) => t \in usedTokens
  /\ \A c \in Client : Holds(c) => task[c].token \in usedTokens /\ ~Live(task[c].token)
  /\ \A c, e \in Client : c # e /\ Holds(c) /\ Holds(e) => task[c].token # task[e].token

Draining(c) ==
  task[c].pc = "draining" \/ (task[c].pc \in {"stop", "join"} /\ task[c].resume = "draining")

\* What a client that is not there yet, leaves or has left may still own.
OwnersPresent ==
  /\ \A c \in Client : task[c].pc \in {"new", "gone"} => Owned(c) = {}
  /\ \A c \in Client : Draining(c) => Owned(c) \subseteq task[c].owned
  /\ \A c \in Client : task[c].pc \in {"new", "snapshot", "gone"} \/ Draining(c) => c \notin nmSinks

\* An invalidated reservation stands for a device without an Entry.
InvalidatedWithoutEntry ==
  \A d \in Device : opening[d] # None /\ opening[d].invalidated => devices[d] = None

\* A connection's capability has a number of its own; 0 stands for none.
ConnsNumbered == \A k \in conns : k.cap # 0

SessionInv ==
  /\ TokensFresh /\ OwnersPresent /\ InvalidatedWithoutEntry /\ ConnsNumbered
  /\ SessionsStandOnEntry /\ EntryHasSession /\ CapabilityAuthority /\ NmBindingExact
-----------------------------------------------------------------------------
(* What the steps do to the manager's maps *)

\* The open of c registers its token t for device d.
Registers(c, d, t) ==
  /\ Holds(c) /\ t = task[c].token /\ ~Holds(c)'
  /\ RegisterSession(c, d, t)
  /\ UNCHANGED <<nmSinks, usedTokens>>
  /\ devices'[d] # None
  /\ \A x \in Device : devices[x] # None \/ x # d => devices'[x] = devices[x]
  /\ devices'[d] # devices[d] => ~opening[d].invalidated /\ UNCHANGED opening

\* Session t of client c is closed; the last one of its device d takes the Entry along.
Closes(c, d, t) ==
  /\ Live(t) /\ sessions[t].owner = c /\ sessions[t].device = d
  /\ DropSessions({t})
  /\ UNCHANGED <<nmSinks, usedTokens>>
  /\ IF SessionsOf(d) = {t} THEN RemoveEntry(d)
     ELSE UNCHANGED devices /\ RefreshNmHot(c, d)

Detaches(d) == DetachLifetime(d) /\ UNCHANGED <<nmSinks, usedTokens>>

LEMMA RegisterCases ==
  ASSUME TypeInv, NEW c \in Client,
         Reserve(c) \/ Wake(c) \/ Publish(c) \/ \E l \in Life : CheckReservation(c, l)
  PROVE  \/ UNCHANGED <<managerVars, nmSinks, usedTokens>>
         \/ \E d \in Device, t \in Token : Registers(c, d, t)
  <1>1. task[c].pc \in Unregistered
    BY DEF Reserve, Wake, Publish, CheckReservation, Unregistered
  <1>2. PICK d \in Device, t \in Token : d = task[c].device /\ t = task[c].token
    BY <1>1 DEF Unregistered, OpeningPc, TypeInv, TaskType, TaskShape, Shaped
  <1>3. task \in [Client -> Task] /\ devices \in [Device -> Life \cup {None}]
    BY DEF TypeInv, TaskType, ManagerType
  <1>4. CASE Reserve(c)
    <2>1. CASE devices[d] # None
      <3>1. RegisterSession(c, d, t)
        BY <1>2, <1>4, <2>1 DEF Reserve, RegisterSession, RefreshNmHot, Bindable
      <3>2. ~Holds(c)'
        BY <1>2, <1>3, <1>4, <2>1 DEF Reserve, Holds, Unregistered, At
      <3> QED BY <1>1, <1>2, <1>4, <2>1, <3>1, <3>2 DEF Reserve, Registers, Holds, envVars
    <2>2. CASE devices[d] = None
      BY <1>2, <1>4, <2>2 DEF Reserve, managerVars, envVars
    <2> QED BY <2>1, <2>2
  <1>5. CASE Wake(c)
    <2>1. CASE devices[d] # None
      <3>1. RegisterSession(c, d, t)
        BY <1>2, <1>5, <2>1 DEF Wake, RegisterSession, RefreshNmHot, Bindable
      <3>2. ~Holds(c)'
        BY <1>2, <1>3, <1>5, <2>1 DEF Wake, Holds, Unregistered, At
      <3> QED BY <1>1, <1>2, <1>5, <2>1, <3>1, <3>2 DEF Wake, Registers, Holds, envVars
    <2>2. CASE devices[d] = None
      BY <1>2, <1>5, <2>2 DEF Wake, managerVars, envVars
    <2> QED BY <2>1, <2>2
  <1>6. CASE Publish(c)
    <2>1. CASE ReservationCurrent(c)
      <3>1. RegisterSession(c, d, t)
        BY <1>2, <1>6, <2>1 DEF Publish, RegisterSession, RefreshNmHot, Bindable
      <3>2. ~Holds(c)'
        BY <1>2, <1>3, <1>6 DEF Publish, Holds, Unregistered, Continue
      <3>3. /\ devices'[d] # None
            /\ \A x \in Device : devices[x] # None \/ x # d => devices'[x] = devices[x]
        <4>1. task[c].life \in Life
          BY <1>6 DEF Publish, TypeInv, TaskType, TaskShape, Shaped
        <4>2. devices' = IF devices[d] = None THEN [devices EXCEPT ![d] = task[c].life] ELSE devices
          BY <1>2, <1>6, <2>1 DEF Publish
        <4> QED BY <1>3, <4>1, <4>2
      <3>4. ~opening[d].invalidated /\ UNCHANGED opening
        BY <1>2, <1>6, <2>1 DEF Publish, ReservationCurrent
      <3> QED BY <1>1, <1>2, <1>6, <3>1, <3>2, <3>3, <3>4 DEF Publish, Registers, Holds, envVars
    <2>2. CASE ~ReservationCurrent(c)
      BY <1>2, <1>6, <2>2 DEF Publish, managerVars, envVars
    <2> QED BY <2>1, <2>2
  <1>7. ASSUME NEW l \in Life, CheckReservation(c, l)
        PROVE  \/ UNCHANGED <<managerVars, nmSinks, usedTokens>>
               \/ Registers(c, d, t)
    <2>1. CASE ReservationCurrent(c) /\ devices[d] # None
      <3>1. RegisterSession(c, d, t) /\ UNCHANGED devices
        BY <1>2, <1>7, <2>1 DEF CheckReservation, RegisterSession, RefreshNmHot, Bindable
      <3>2. ~Holds(c)'
        <4>1. task' = [task EXCEPT ![c].pc = "abandon"]
          BY <1>2, <1>7, <2>1 DEF CheckReservation
        <4> QED BY <1>3, <4>1 DEF Holds, Unregistered
      <3> QED BY <1>1, <1>2, <1>7, <2>1, <3>1, <3>2 DEF CheckReservation, Registers, Holds, envVars
    <2>2. CASE ~(ReservationCurrent(c) /\ devices[d] # None)
      BY <1>2, <1>7, <2>2 DEF CheckReservation, managerVars, envVars
    <2> QED BY <2>1, <2>2
  <1> QED BY <1>4, <1>5, <1>6, <1>7

LEMMA CloseCases ==
  ASSUME TypeInv, NEW c \in Client, NEW t \in Token, Close(c, t) \/ DrainOne(c, t)
  PROVE  \/ UNCHANGED <<managerVars, nmSinks, usedTokens>>
         \/ \E d \in Device : Closes(c, d, t)
  <1>1. ASSUME NEW tasks, NEW here, CloseSession(c, t, tasks, here), usedTokens' = usedTokens
        PROVE  \E d \in Device : Closes(c, d, t)
    <2>1. PICK d \in Device : d = sessions[t].device
      BY <1>1 DEF CloseSession, Live, TypeInv, ManagerType, Session
    <2> WITNESS d \in Device
    <2> QED BY <1>1, <2>1 DEF CloseSession, Closes, RemoveEntry, InvalidateNmHot, RefreshNmHot, Bindable,
               SessionsOf
  <1> QED BY <1>1 DEF Close, DrainOne, envVars

LEMMA DetachCases ==
  ASSUME TypeInv, (\E c \in Client : ForceClose(c)) \/ (\E l \in Life : ReaderDetaches(l))
  PROVE  \/ UNCHANGED <<managerVars, nmSinks, usedTokens>>
         \/ \E d \in Device : Detaches(d)
  <1>1. ASSUME NEW c \in Client, ForceClose(c)
        PROVE  \E d \in Device : Detaches(d)
    <2>1. PICK d \in Device : d = Head(inbox[c]).device
      BY <1>1, HeadType DEF ForceClose, TypeInv, Event
    <2> WITNESS d \in Device
    <2> QED BY <1>1, <2>1 DEF ForceClose, Detaches, DetachLifetime, SessionsOf, DropSessions,
               InvalidateTransport, RemoveEntry, InvalidateNmHot, envVars
  <1>2. ASSUME NEW l \in Life, ReaderDetaches(l), devices[lifeDev[l]] # None
        PROVE  \E d \in Device : Detaches(d)
    <2>1. PICK d \in Device : d = lifeDev[l]
      BY <1>2 DEF ReaderDetaches, TypeInv, ThreadShape
    <2> WITNESS d \in Device
    <2> QED BY <1>2, <2>1 DEF ReaderDetaches, Detaches, DetachLifetime, SessionsOf, DropSessions,
               InvalidateTransport, RemoveEntry, InvalidateNmHot, envVars
  <1>3. ASSUME NEW l \in Life, ReaderDetaches(l), devices[lifeDev[l]] = None
        PROVE  UNCHANGED <<managerVars, nmSinks, usedTokens>>
    BY <1>3 DEF ReaderDetaches, envVars
  <1> QED BY <1>1, <1>2, <1>3

\* Every step is one of these for the manager's maps.
LEMMA ManagerCases ==
  ASSUME TypeInv, [Next]_vars
  PROVE  \/ UNCHANGED <<managerVars, nmSinks, usedTokens>>
         \/ \E c \in Client, d \in Device, t \in Token : Registers(c, d, t) \/ Closes(c, d, t) \/ Open(c, d, t)
         \/ \E d \in Device : Detaches(d)
         \/ \E c \in Client : Connect(c) \/ Disconnect(c)
         \/ \E c \in Client, t \in Token, mode \in Mode : SetDataplaneMode(c, t, mode)
         \/ \E t \in Token, kind \in Transport : TransportConnect(t, kind)
         \/ \E k \in conns : ConnectionCurrent(k) /\ TransportDisconnect(k)
  <1>1. CASE UNCHANGED vars
    BY <1>1 DEF vars, envVars
  <1>2. CASE Environment
    <2>1. ASSUME NEW k \in conns, TransportDisconnect(k), ~ConnectionCurrent(k)
          PROVE  UNCHANGED <<managerVars, nmSinks, usedTokens>>
      BY <2>1 DEF TransportDisconnect
    <2>2. ASSUME (\E c \in Client : RelayLagged(c)) \/ (\E d \in Device : HotplugRemove(d))
                 \/ (\E l \in Life : ReaderFails(l))
          PROVE  UNCHANGED <<managerVars, nmSinks, usedTokens>>
      BY <2>2 DEF RelayLagged, HotplugRemove, ReaderFails, envVars
    <2> QED BY <1>2, <2>1, <2>2, CloseCases DEF Environment
  <1>3. ASSUME NEW c \in Client, RequestStep(c)
        PROVE  \/ UNCHANGED <<managerVars, nmSinks, usedTokens>>
               \/ \E d \in Device, t \in Token : Registers(c, d, t) \/ Closes(c, d, t)
    <2>1. ASSUME PhysicalOpen(c) \/ ReleaseReader(c) \/ EndReservation(c) \/ NotifyWaiters(c)
                 \/ StopEntry(c) \/ JoinEntry(c) \/ SnapshotOwned(c) \/ Leave(c)
          PROVE  UNCHANGED <<managerVars, nmSinks, usedTokens>>
      BY <2>1 DEF PhysicalOpen, ReleaseReader, EndReservation, NotifyWaiters, StopEntry, JoinEntry,
                  SnapshotOwned, Leave, envVars
    <2> QED BY <1>3, <2>1, RegisterCases, CloseCases DEF RequestStep
  <1>4. ASSUME NEW c \in Client, RelayStep(c)
        PROVE  \/ UNCHANGED <<managerVars, nmSinks, usedTokens>>
               \/ \E d \in Device : Detaches(d)
    BY <1>4, DetachCases DEF RelayStep, ForceCloseStop, ForceCloseJoin, envVars
  <1>5. ASSUME NEW l \in Life, ReaderStep(l) \/ IoWorkerExits(l)
        PROVE  \/ UNCHANGED <<managerVars, nmSinks, usedTokens>>
               \/ \E d \in Device : Detaches(d)
    BY <1>5, DetachCases DEF ReaderStep, ReaderPasses, ReaderStops, ReaderStopsIo, ReaderAnnounces,
                             IoWorkerExits, envVars
  <1> QED BY <1>1, <1>2, <1>3, <1>4, <1>5 DEF Next
-----------------------------------------------------------------------------
(* What the steps do to the stages of the request tasks *)

\* A client that is not there yet, leaves or has left.
Away(x) == task[x].pc \in {"new", "snapshot", "gone"} \/ Draining(x)

\* Task x starts no open, is not disconnected, and closes what it listed.
Calm(x) ==
  /\ Holds(x)' => Holds(x) /\ task'[x].token = task[x].token
  /\ Away(x)' => Away(x)
  /\ task'[x].pc \in {"new", "gone"} =>
       task[x].pc \in {"new", "gone"} \/ (task[x].pc = "draining" /\ task[x].owned = {})
  /\ Draining(x)' =>
       \/ Draining(x) /\ task'[x].owned = task[x].owned
       \/ Draining(x) /\ \E t \in Token : ~Live(t)' /\ task'[x].owned = task[x].owned \ {t}
       \/ task'[x].owned = Owned(x)

LEMMA SameTaskCalm ==
  ASSUME NEW x \in Client, task'[x] = task[x]
  PROVE  Calm(x)
  BY DEF Calm, Holds, Away, Draining

LEMMA WokenCalm ==
  ASSUME NEW x \in Client, NEW token, task'[x] = Woken(task, token)[x], task \in [Client -> Task]
  PROVE  Calm(x)
  <1>1. CASE task[x].pc = "waiting" /\ task[x].waitOn = token
    <2>1. PICK k \in Task : k = task[x]
      OBVIOUS
    <2>2. task'[x] = [k EXCEPT !.pc = "woken", !.waitOn = None]
      BY <1>1, <2>1 DEF Woken
    <2>3. task'[x].pc = "woken" /\ task'[x].token = task[x].token
      BY <2>1, <2>2 DEF Task
    <2> QED BY <1>1, <2>3 DEF Calm, Holds, Unregistered, Away, Draining
  <1>2. CASE ~(task[x].pc = "waiting" /\ task[x].waitOn = token)
    <2>1. task'[x] = task[x]
      BY <1>2 DEF Woken
    <2> QED BY <2>1, SameTaskCalm
  <1> QED BY <1>1, <1>2

\* Task x goes on at `here`, stopping an Entry first if it took one over.
LEMMA ContinueStage ==
  ASSUME NEW x \in Client, NEW tasks \in [Client -> Task], NEW entry,
         NEW here \in {"idle", "draining", "abandon"}, task' = Continue(tasks, x, entry, here)
  PROVE  /\ task'[x].owned = tasks[x].owned
         /\ \/ task'[x].pc = here
            \/ task'[x].pc = "stop" /\ task'[x].resume = here
         /\ \A y \in Client \ {x} : task'[y] = tasks[y]
  BY DEF Continue, Task

\* An open goes on, with its token while it has yet to register, or ends.
LEMMA OpenCalm ==
  ASSUME NEW x \in Client, task \in [Client -> Task],
         \/ task'[x].pc \in {"idle", "release", "abandon", "notify"}
         \/ /\ Holds(x) /\ task'[x].token = task[x].token
            /\ task'[x].pc \in Unregistered
  PROVE  Calm(x)
  BY DEF Calm, Holds, Unregistered, Away, Draining

LEMMA OpeningCalm ==
  ASSUME TypeInv, NEW c \in Client, NEW x \in Client,
         Reserve(c) \/ Wake(c) \/ PhysicalOpen(c) \/ Publish(c) \/ ReleaseReader(c)
         \/ EndReservation(c) \/ NotifyWaiters(c) \/ \E l \in Life : CheckReservation(c, l)
  PROVE  Calm(x)
  <1>1. task \in [Client -> Task]
    BY DEF TypeInv, TaskType
  <1>2. CASE Publish(c)
    <2>1. CASE task' = [task EXCEPT ![c].pc = "release"]
      <3>1. x = c => task'[x].pc = "release"
        BY <1>1, <2>1
      <3>2. x # c => task'[x] = task[x]
        BY <1>1, <2>1
      <3> QED BY <1>1, <3>1, <3>2, OpenCalm, SameTaskCalm
    <2>2. CASE task' = Continue(task, c, task[c].life, "abandon")
      BY <1>1, <2>2, ContinueStage, SameTaskCalm DEF Calm, Holds, Unregistered, Away, Draining
    <2> QED BY <1>2, <2>1, <2>2 DEF Publish
  <1>3. CASE NotifyWaiters(c)
    <2>1. Woken(task, task[c].token) \in [Client -> Task]
      BY WokenType DEF TypeInv
    <2>2. CASE x = c
      BY <1>3, <2>1, <2>2 DEF NotifyWaiters, At, Calm, Holds, Unregistered, Away, Draining
    <2>3. CASE x # c
      BY <1>1, <1>3, <2>1, <2>3, WokenCalm DEF NotifyWaiters
    <2> QED BY <2>2, <2>3
  <1>4. CASE x # c
    <2>1. ~NotifyWaiters(c) /\ ~Publish(c) => task'[x] = task[x]
      BY <1>1, <1>4 DEF Reserve, Wake, PhysicalOpen, ReleaseReader, EndReservation, CheckReservation
    <2> QED BY <1>2, <1>3, <2>1, SameTaskCalm
  <1>5. CASE x = c
    <2> PICK k \in Task : k = task[c]
      BY <1>1
    <2>1. CASE Reserve(c)
      <3>1. CASE task' = [task EXCEPT ![c] = At("idle")]
        BY <1>1, <1>5, <3>1, OpenCalm DEF At
      <3>2. CASE task' = [task EXCEPT ![c].pc = "opening"]
        BY <1>1, <1>5, <2>1, <3>2, OpenCalm DEF Reserve, Holds, Unregistered, Task
      <3>3. CASE task' = [task EXCEPT ![c].pc = "waiting", ![c].waitOn = opening[task[c].device].token]
        <4>1. task'[c].pc = "waiting" /\ task'[c].token = task[c].token
          BY <1>1, <3>3 DEF Task
        <4> QED BY <1>1, <1>5, <2>1, <4>1, OpenCalm DEF Reserve, Holds, Unregistered
      <3> QED BY <2>1, <3>1, <3>2, <3>3 DEF Reserve
    <2>2. CASE Wake(c)
      <3>1. CASE task' = [task EXCEPT ![c] = At("idle")]
        BY <1>1, <1>5, <3>1, OpenCalm DEF At
      <3>2. CASE task' = [task EXCEPT ![c].pc = "reserve"]
        BY <1>1, <1>5, <2>2, <3>2, OpenCalm DEF Wake, Holds, Unregistered, Task
      <3> QED BY <2>2, <3>1, <3>2 DEF Wake
    <2>3. CASE PhysicalOpen(c) \/ ReleaseReader(c)
      <3>1. \/ task'[c].pc = "abandon"
            \/ task[c].pc = "opening" /\ task'[c].pc = "opened" /\ task'[c].token = task[c].token
        BY <1>1, <2>3 DEF PhysicalOpen, ReleaseReader, Task
      <3> QED BY <1>1, <1>5, <3>1, OpenCalm DEF Holds, Unregistered
    <2>4. CASE EndReservation(c)
      BY <1>1, <1>5, <2>4 DEF EndReservation, At, Calm, Holds, Unregistered, Away, Draining
    <2>5. CASE \E l \in Life : CheckReservation(c, l)
      <3>1. PICK l \in Life : CheckReservation(c, l)
        BY <2>5
      <3>2. CASE task' = [task EXCEPT ![c].pc = "abandon"]
        BY <1>1, <1>5, <3>2, OpenCalm
      <3>3. CASE task' = [task EXCEPT ![c].pc = "built", ![c].life = l]
        <4>1. task'[c].pc = "built" /\ task'[c].token = task[c].token
          BY <1>1, <3>3 DEF Task
        <4> QED BY <1>1, <1>5, <3>1, <4>1, OpenCalm DEF CheckReservation, Holds, Unregistered
      <3> QED BY <3>1, <3>2, <3>3 DEF CheckReservation
    <2> QED BY <1>2, <1>3, <2>1, <2>2, <2>3, <2>4, <2>5
  <1> QED BY <1>4, <1>5

LEMMA ClosingCalm ==
  ASSUME TypeInv, NEW c \in Client, NEW x \in Client,
         \/ StopEntry(c) \/ JoinEntry(c) \/ SnapshotOwned(c) \/ Leave(c)
         \/ \E t \in Token : Close(c, t) \/ DrainOne(c, t)
  PROVE  Calm(x)
  <1>1. task \in [Client -> Task]
    BY DEF TypeInv, TaskType
  <1>2. CASE StopEntry(c)
    BY <1>1, <1>2 DEF StopEntry, Calm, Holds, Unregistered, Away, Draining
  <1>3. CASE JoinEntry(c)
    <2>1. task[c].resume \in {"idle", "abandon", "draining"}
      BY <1>3 DEF JoinEntry, TypeInv, TaskType, TaskShape, Shaped
    <2>2. task' = [task EXCEPT ![c].pc = task[c].resume, ![c].life = None, ![c].resume = "idle"]
      BY <1>3 DEF JoinEntry
    <2>3. CASE x = c
      <3>1. task'[c].pc = task[c].resume /\ task'[c].owned = task[c].owned
        <4>1. PICK k \in Task : k = task[c]
          BY <1>1
        <4>2. task'[c] = [k EXCEPT !.pc = k.resume, !.life = None, !.resume = "idle"]
          BY <1>1, <2>2, <4>1
        <4> QED BY <4>1, <4>2 DEF Task
      <3> QED BY <1>3, <2>1, <2>3, <3>1 DEF JoinEntry, Calm, Holds, Unregistered, Away, Draining
    <2>4. CASE x # c
      BY <1>1, <2>2, <2>4, SameTaskCalm
    <2> QED BY <2>3, <2>4
  <1>4. CASE SnapshotOwned(c)
    <2>1. task' = [task EXCEPT ![c].pc = "draining", ![c].owned = Owned(c)] /\ task[c].pc = "snapshot"
      BY <1>4 DEF SnapshotOwned
    <2>2. CASE x = c
      <3>1. task'[c].pc = "draining" /\ task'[c].owned = Owned(c)
        <4>1. PICK k \in Task : k = task[c]
          BY <1>1
        <4>2. task'[c] = [k EXCEPT !.pc = "draining", !.owned = Owned(c)]
          BY <1>1, <2>1, <4>1
        <4> QED BY <4>1, <4>2 DEF Task
      <3> QED BY <2>1, <2>2, <3>1 DEF Calm, Holds, Unregistered, Away, Draining
    <2>3. CASE x # c
      BY <1>1, <2>1, <2>3, SameTaskCalm
    <2> QED BY <2>2, <2>3
  <1>5. CASE Leave(c)
    BY <1>1, <1>5 DEF Leave, At, Calm, Holds, Unregistered, Away, Draining
  <1>6. ASSUME NEW t \in Token, Close(c, t)
        PROVE  Calm(x)
    <2>1. PICK entry : task' = Continue(task, c, entry, "idle")
      BY <1>6 DEF Close, CloseSession
    <2>2. /\ \/ task'[c].pc = "idle"
             \/ task'[c].pc = "stop" /\ task'[c].resume = "idle"
          /\ \A y \in Client \ {c} : task'[y] = task[y]
      BY <1>1, <2>1, ContinueStage
    <2>3. CASE x = c
      BY <2>2, <2>3 DEF Calm, Holds, Unregistered, Away, Draining
    <2>4. CASE x # c
      BY <2>2, <2>4, SameTaskCalm
    <2> QED BY <2>3, <2>4
  <1>7. ASSUME NEW t \in Token, DrainOne(c, t)
        PROVE  Calm(x)
    <2> DEFINE listed == [task EXCEPT ![c].owned = @ \ {t}]
    <2>1. /\ listed \in [Client -> Task]
          /\ listed[c].owned = task[c].owned \ {t} /\ listed[c].pc = task[c].pc
          /\ \A y \in Client \ {c} : listed[y] = task[y]
      <3>1. PICK k \in Task : k = task[c]
        BY <1>1
      <3>2. listed[c] = [k EXCEPT !.owned = @ \ {t}]
        BY <1>1, <3>1
      <3>3. listed[c] \in Task
        BY <3>2 DEF Task
      <3> QED BY <1>1, <3>1, <3>2, <3>3 DEF Task
    <2>2. task[c].pc = "draining"
      BY <1>7 DEF DrainOne
    <2>3. ~Live(t)'
      <3>1. CASE ~Live(t) /\ UNCHANGED sessions
        BY <3>1 DEF Live
      <3>2. CASE DropSessions({t})
        BY <3>2 DEF DropSessions, Live
      <3> QED BY <1>7, <3>1, <3>2 DEF DrainOne, CloseSession, managerVars
    <2>4. task' = listed \/ \E entry : task' = Continue(listed, c, entry, "draining")
      BY <1>7 DEF DrainOne, CloseSession
    <2> HIDE DEF listed
    <2>5. /\ task'[c].owned = task[c].owned \ {t}
          /\ \/ task'[c].pc = "draining"
             \/ task'[c].pc = "stop" /\ task'[c].resume = "draining"
          /\ \A y \in Client \ {c} : task'[y] = task[y]
      BY <2>1, <2>2, <2>4, ContinueStage
    <2>6. CASE x = c
      BY <2>2, <2>3, <2>5, <2>6 DEF Calm, Holds, Unregistered, Away, Draining
    <2>7. CASE x # c
      BY <2>5, <2>7, SameTaskCalm
    <2> QED BY <2>6, <2>7
  <1> QED BY <1>2, <1>3, <1>4, <1>5, <1>6, <1>7

\* No step but an open's start and a disconnect is anything else.
LEMMA TaskCases ==
  ASSUME TypeInv, [Next]_vars, NEW x \in Client
  PROVE  \/ Calm(x)
         \/ \E d \in Device, t \in Token : Open(x, d, t)
         \/ Disconnect(x)
  <1>1. task \in [Client -> Task]
    BY DEF TypeInv, TaskType
  <1>2. CASE UNCHANGED task
    BY <1>2, SameTaskCalm
  <1>3. ASSUME NEW c \in Client, NEW d \in Device, NEW t \in Token, Open(c, d, t), c # x
        PROVE  Calm(x)
    BY <1>1, <1>3, SameTaskCalm DEF Open
  <1>4. ASSUME NEW c \in Client, Disconnect(c), c # x
        PROVE  Calm(x)
    BY <1>1, <1>4, SameTaskCalm DEF Disconnect
  <1>5. ASSUME NEW c \in Client, Connect(c)
        PROVE  Calm(x)
    <2>1. CASE c = x
      BY <1>1, <1>5, <2>1, OpenCalm DEF Connect, At
    <2>2. CASE c # x
      BY <1>1, <1>5, <2>2, SameTaskCalm DEF Connect
    <2> QED BY <2>1, <2>2
  <1>6. ASSUME NEW c \in Client, RequestStep(c)
        PROVE  Calm(x)
    BY <1>6, OpeningCalm, ClosingCalm DEF RequestStep
  <1>7. ASSUME NEW c \in Client, RelayStep(c)
        PROVE  Calm(x)
    <2>1. CASE UNCHANGED task
      BY <2>1, SameTaskCalm
    <2>2. CASE \E token : task' = Woken(task, token)
      BY <1>1, <2>2, WokenCalm
    <2> QED BY <1>7, <2>1, <2>2 DEF RelayStep, ForceClose, ForceCloseStop, ForceCloseJoin
  <1>8. ASSUME NEW l \in Life, ReaderStep(l) \/ IoWorkerExits(l) \/ ReaderFails(l)
        PROVE  UNCHANGED task
    BY <1>8 DEF ReaderStep, ReaderPasses, ReaderStops, ReaderDetaches, ReaderStopsIo, ReaderAnnounces,
                IoWorkerExits, ReaderFails
  <1>9. CASE Environment
    <2>1. ASSUME \/ \E c \in Client : RelayLagged(c)
                 \/ \E c \in Client, t \in Token, mode \in Mode : SetDataplaneMode(c, t, mode)
                 \/ \E d \in Device : HotplugRemove(d)
                 \/ \E t \in Token, kind \in Transport : TransportConnect(t, kind)
                 \/ \E k \in conns : TransportDisconnect(k)
          PROVE  UNCHANGED task
      BY <2>1 DEF RelayLagged, SetDataplaneMode, HotplugRemove, TransportConnect, TransportDisconnect
    <2> QED BY <1>2, <1>3, <1>4, <1>5, <1>8, <1>9, <2>1, ClosingCalm DEF Environment
  <1> QED BY <1>2, <1>6, <1>7, <1>8, <1>9 DEF Next, vars
-----------------------------------------------------------------------------
(* Sessions come and go *)

LEMMA TokensStep ==
  ASSUME TypeInv, [Next]_vars
  PROVE  usedTokens \subseteq usedTokens'
  BY ManagerCases DEF Registers, Closes, Detaches, Open, Connect, Disconnect, SetDataplaneMode,
                      TransportConnect, TransportDisconnect, envVars

\* A session is new, or keeps its device and its owner.
Kept(t) ==
  /\ Live(t)
  /\ sessions'[t].device = sessions[t].device
  /\ sessions'[t].owner = sessions[t].owner

LEMMA LiveCases ==
  ASSUME TypeInv, [Next]_vars, NEW t \in Token, Live(t)'
  PROVE  \/ Kept(t)
         \/ \E c \in Client, d \in Device : Registers(c, d, t)
  <1>1. sessions \in [Token -> Session \cup {None}]
    BY DEF TypeInv, ManagerType
  <1>2. ASSUME sessions'[t] = sessions[t]
        PROVE  Kept(t)
    BY <1>2 DEF Live, Kept
  <1>3. ASSUME NEW c \in Client, NEW d \in Device, NEW u \in Token, Registers(c, d, u), u # t
        PROVE  Kept(t)
    BY <1>1, <1>2, <1>3 DEF Registers, RegisterSession
  <1>4. ASSUME NEW T \in SUBSET Token, DropSessions(T)
        PROVE  Kept(t)
    BY <1>1, <1>2, <1>4 DEF DropSessions, Live
  <1>5. ASSUME NEW c \in Client, NEW u \in Token, NEW mode \in Mode, SetDataplaneMode(c, u, mode)
        PROVE  Kept(t)
    BY <1>1, <1>5 DEF SetDataplaneMode, Live, Kept, Session
  <1>6. ASSUME NEW u \in Token, NEW kind \in Transport, TransportConnect(u, kind)
        PROVE  Kept(t)
    BY <1>1, <1>6 DEF TransportConnect, Live, Kept, Session
  <1>7. ASSUME NEW k \in conns, ConnectionCurrent(k), TransportDisconnect(k)
        PROVE  Kept(t)
    BY <1>1, <1>7 DEF TransportDisconnect, ConnectionCurrent, GenerationCurrent, Live, Kept, Session
  <1>8. ASSUME \E d \in Device : Detaches(d)
        PROVE  Kept(t)
    BY <1>4, <1>8 DEF Detaches, DetachLifetime, SessionsOf
  <1>9. ASSUME NEW c \in Client, NEW d \in Device, NEW u \in Token, Closes(c, d, u)
        PROVE  Kept(t)
    BY <1>4, <1>9 DEF Closes
  <1> QED BY <1>2, <1>3, <1>5, <1>6, <1>7, <1>8, <1>9, ManagerCases
          DEF managerVars, Open, Connect, Disconnect

LEMMA FreshStep ==
  ASSUME TypeInv, TokensFresh, [Next]_vars
  PROVE  TokensFresh'
  <1>1. usedTokens \subseteq usedTokens'
    BY TokensStep
  <1>2. \A c \in Client : Holds(c) => task[c].token \in Token
    BY DEF Holds, Unregistered, TypeInv, TaskType, TaskShape, Shaped, OpeningPc
  <1>3. ASSUME NEW c \in Client, Holds(c)'
        PROVE  \/ Holds(c) /\ task'[c].token = task[c].token
               \/ \E d \in Device : Open(c, d, task'[c].token) /\ task'[c].token \in Token
    <2>1. CASE Calm(c)
      BY <1>3, <2>1 DEF Calm
    <2>2. ASSUME NEW d \in Device, NEW t \in Token, Open(c, d, t)
          PROVE  task'[c].token = t
      BY <2>2 DEF Open, At, TypeInv, TaskType
    <2>3. CASE Disconnect(c)
      BY <1>3, <2>3 DEF Disconnect, Holds, Unregistered, TypeInv, TaskType
    <2> QED BY <2>1, <2>2, <2>3, TaskCases
  <1>4. ASSUME NEW t \in Token, Live(t)'
        PROVE  t \in usedTokens'
    BY <1>1, <1>4, LiveCases DEF TokensFresh, Kept, Registers
  <1>5. ASSUME NEW c \in Client, Holds(c)'
        PROVE  task'[c].token \in usedTokens' /\ sessions'[task'[c].token] = None
    <2>1. CASE Holds(c) /\ task'[c].token = task[c].token
      <3>1. PICK t \in Token : t = task[c].token
        BY <1>2, <2>1
      <3>2. t \in usedTokens /\ ~Live(t)
        BY <2>1, <3>1 DEF TokensFresh
      <3>3. ASSUME NEW e \in Client, NEW d \in Device, Registers(e, d, t)
            PROVE  FALSE
        BY <1>5, <2>1, <3>1, <3>3 DEF Registers, TokensFresh, Holds
      <3>4. ~Live(t)'
        BY <3>2, <3>3, LiveCases DEF Kept
      <3> QED BY <1>1, <2>1, <3>1, <3>2, <3>4 DEF Live
    <2>2. ASSUME NEW d \in Device, NEW t \in Token, t = task'[c].token, Open(c, d, t)
          PROVE  task'[c].token \in usedTokens' /\ sessions'[task'[c].token] = None
      <3>1. t \in usedTokens' /\ ~Live(t)
        BY <2>2 DEF Open, TokensFresh
      <3>2. sessions' = sessions
        BY <2>2 DEF Open, managerVars
      <3> QED BY <2>2, <3>1, <3>2 DEF Live
    <2> QED BY <1>3, <1>5, <2>1, <2>2
  <1>6. ASSUME NEW c \in Client, NEW e \in Client, c # e, Holds(c)', Holds(e)'
        PROVE  task'[c].token # task'[e].token
    <2>1. ASSUME NEW x \in Client, NEW y \in Client, x # y, Holds(y)',
                 NEW d \in Device, Open(x, d, task'[x].token)
          PROVE  task'[x].token # task'[y].token
      <3>1. task'[y] = task[y] /\ task'[x].token \notin usedTokens
        BY <2>1 DEF Open, TypeInv, TaskType
      <3>2. Holds(y)
        BY <2>1, <3>1 DEF Holds
      <3> QED BY <3>1, <3>2 DEF TokensFresh
    <2>2. CASE Holds(c) /\ task'[c].token = task[c].token /\ Holds(e) /\ task'[e].token = task[e].token
      BY <1>6, <2>2 DEF TokensFresh
    <2> QED BY <1>3, <1>6, <2>1, <2>2
  <1> QED BY <1>4, <1>5, <1>6 DEF TokensFresh, Holds, Live

LEMMA SinksCases ==
  ASSUME TypeInv, [Next]_vars, NEW x \in Client, x \in nmSinks'
  PROVE  (x \in nmSinks /\ ~Disconnect(x)) \/ (Connect(x) /\ task'[x].pc = "idle")
  <1>1. ASSUME Connect(x)
        PROVE  task'[x].pc = "idle"
    BY <1>1 DEF Connect, At, TypeInv, TaskType
  <1>2. ASSUME NEW c \in Client, Connect(c), c # x
        PROVE  x \in nmSinks
    BY <1>2 DEF Connect
  <1>3. ~Disconnect(x)
    BY DEF Disconnect
  <1>4. ASSUME NEW c \in Client, Disconnect(c)
        PROVE  x \in nmSinks
    BY <1>4 DEF Disconnect
  <1> QED BY <1>1, <1>2, <1>3, <1>4, ManagerCases
          DEF Registers, Closes, Detaches, Open, SetDataplaneMode, TransportConnect, TransportDisconnect

LEMMA OwnersStep ==
  ASSUME TypeInv, TokensFresh, OwnersPresent, [Next]_vars
  PROVE  OwnersPresent'
  <1>1. ASSUME NEW x \in Client, ~Holds(x)
        PROVE  Owned(x)' \subseteq Owned(x)
    <2>1. ASSUME NEW t \in Token, Live(t)', sessions'[t].owner = x
          PROVE  Live(t) /\ sessions[t].owner = x
      <3>1. ASSUME NEW c \in Client, NEW d \in Device, Registers(c, d, t)
            PROVE  FALSE
        <4>1. sessions'[t].owner = c
          BY <3>1 DEF Registers, RegisterSession, TypeInv, ManagerType
        <4> QED BY <1>1, <2>1, <3>1, <4>1 DEF Registers, Holds
      <3> QED BY <2>1, <3>1, LiveCases DEF Kept
    <2> QED BY <2>1 DEF Owned, Live
  <1>2. ASSUME NEW x \in Client, Away(x)
        PROVE  ~Holds(x)
    BY <1>2 DEF Away, Holds, Unregistered, Draining
  <1>3. ASSUME NEW x \in Client, NEW d \in Device, NEW t \in Token, Open(x, d, t)
        PROVE  ~Away(x)'
    BY <1>3 DEF Open, At, Away, Draining, TypeInv, TaskType
  <1>4. ASSUME NEW x \in Client, Disconnect(x)
        PROVE  task'[x].pc = "snapshot" /\ ~Draining(x)' /\ x \notin nmSinks'
    BY <1>4 DEF Disconnect, Draining, TypeInv, TaskType
  <1>5. ASSUME NEW x \in Client, Away(x)'
        PROVE  x \notin nmSinks'
    <2>1. CASE Calm(x)
      <3>1. Away(x) /\ x \notin nmSinks
        BY <1>5, <2>1 DEF Calm, OwnersPresent, Away
      <3>2. task'[x].pc # "idle"
        BY <1>5 DEF Away, Draining
      <3> QED BY <3>1, <3>2, SinksCases
    <2> QED BY <1>3, <1>4, <1>5, <2>1, TaskCases
  <1>6. ASSUME NEW x \in Client, task'[x].pc \in {"new", "gone"}
        PROVE  Owned(x)' = {}
    <2>1. Calm(x)
      BY <1>3, <1>4, <1>6, TaskCases DEF Away
    <2>2. \/ task[x].pc \in {"new", "gone"}
          \/ task[x].pc = "draining" /\ task[x].owned = {}
      BY <1>6, <2>1 DEF Calm
    <2>3. Away(x) /\ Owned(x) = {}
      BY <2>2 DEF OwnersPresent, Away, Draining
    <2> QED BY <1>1, <1>2, <2>3
  <1>7. ASSUME NEW x \in Client, Draining(x)'
        PROVE  Owned(x)' \subseteq task'[x].owned
    <2>1. Away(x)'
      BY <1>7 DEF Away
    <2>2. Calm(x)
      BY <1>3, <1>4, <1>7, <2>1, TaskCases
    <2>3. Owned(x)' \subseteq Owned(x)
      BY <1>1, <1>2, <2>1, <2>2 DEF Calm
    <2>4. Draining(x) => Owned(x) \subseteq task[x].owned
      BY DEF OwnersPresent
    <2>5. \A t \in Token : t \in Owned(x)' => Live(t)'
      BY DEF Owned, Live
    <2>6. Owned(x)' \subseteq Token
      BY DEF Owned
    <2> QED BY <1>7, <2>2, <2>3, <2>4, <2>5, <2>6 DEF Calm
  <1> QED BY <1>5, <1>6, <1>7 DEF OwnersPresent, Away
-----------------------------------------------------------------------------
(* The manager's maps stay consistent *)

ManagerInv ==
  SessionsStandOnEntry /\ EntryHasSession /\ CapabilityAuthority /\ NmBindingExact

LEMMA RegistersStep ==
  ASSUME TypeInv, TokensFresh, ManagerInv,
         NEW c \in Client, NEW d \in Device, NEW t \in Token, Registers(c, d, t)
  PROVE  ManagerInv'
  <1> DEFINE s == [device |-> d, owner |-> c, mode |-> "nm", wsGen |-> 0, wtGen |-> 0]
  <1>1. /\ sessions \in [Token -> Session \cup {None}]
        /\ devices \in [Device -> Life \cup {None}]
        /\ nmHot \in [Client \X Device -> Life \cup {None}]
    BY DEF TypeInv, ManagerType
  <1>2. sessions[t] = None
    BY DEF Registers, TokensFresh, Live
  <1>3. /\ sessions' = [sessions EXCEPT ![t] = s]
        /\ s.device = d /\ s.owner = c /\ s.mode = "nm" /\ s # None
    <2>1. s \in Session
      BY DEF Session, Mode
    <2> QED BY <2>1 DEF Registers, RegisterSession
  <1> HIDE DEF s
  <1>4. /\ sessions'[t] = s
        /\ \A u \in Token \ {t} : sessions'[u] = sessions[u]
    BY <1>1, <1>3
  <1>5. /\ devices'[d] # None /\ nmSinks' = nmSinks
        /\ \A x \in Device : devices[x] # None \/ x # d => devices'[x] = devices[x]
        /\ authHashes' = authHashes \cup {t}
        /\ transportValidity' = transportValidity /\ validCaps' = validCaps
        /\ RefreshNmHot(c, d)
    BY DEF Registers, RegisterSession
  <1>6. \A u \in Token : Live(u) => sessions[u].device \in Device
    BY <1>1 DEF Live, Session
  <1>7. SessionsStandOnEntry'
    BY <1>2, <1>3, <1>4, <1>5, <1>6 DEF ManagerInv, SessionsStandOnEntry, Live
  <1>8. EntryHasSession'
    <2>1. ASSUME NEW x \in Device, devices'[x] # None
          PROVE  \E u \in Token : sessions'[u] # None /\ sessions'[u].device = x
      <3>1. CASE x = d
        BY <1>3, <1>4, <3>1
      <3>2. CASE x # d
        <4>1. devices[x] # None
          BY <1>5, <2>1, <3>2
        <4>2. PICK u \in Token : sessions[u] # None /\ sessions[u].device = x
          BY <4>1 DEF ManagerInv, EntryHasSession, SessionsOf, Live
        <4> QED BY <1>2, <1>4, <4>2
      <3> QED BY <3>1, <3>2
    <2> QED BY <2>1 DEF EntryHasSession, SessionsOf, Live
  <1>9. CapabilityAuthority'
    <2>1. ASSUME NEW v \in validCaps
          PROVE  /\ sessions'[v[1]] # None /\ sessions'[v[1]].mode \in Transport
                 /\ transportValidity[v[1]] = v[2]
      <3>1. v[1] \in Token /\ sessions[v[1]] # None
        BY DEF TypeInv, ManagerType, ManagerInv, CapabilityAuthority, Live
      <3> QED BY <1>2, <1>4, <3>1 DEF ManagerInv, CapabilityAuthority
    <2> QED BY <1>5, <2>1 DEF ManagerInv, CapabilityAuthority, Live
  <1>10. NmBindingExact'
    <2> SUFFICES ASSUME NEW e \in Client, NEW x \in Device
                 PROVE  nmHot'[<<e, x>>] = IF Bindable(e, x) THEN devices'[x] ELSE None
      BY ZenonT(40) DEF NmBindingExact, Bindable, SessionsOf, Live
    <2>1. nmHot' = [nmHot EXCEPT ![<<c, d>>] = IF Bindable(c, d) THEN devices'[d] ELSE None]
      BY <1>5 DEF RefreshNmHot
    <2>2. CASE e = c /\ x = d
      BY <1>1, <2>1, <2>2
    <2>3. CASE ~(e = c /\ x = d)
      <3>1. nmHot'[<<e, x>>] = nmHot[<<e, x>>]
        BY <1>1, <2>1, <2>3
      <3>2. nmHot[<<e, x>>] = IF /\ e \in nmSinks
                                 /\ \E u \in Token : /\ sessions[u] # None /\ sessions[u].device = x
                                                     /\ sessions[u].owner = e /\ sessions[u].mode = "nm"
                              THEN devices[x] ELSE None
        BY DEF ManagerInv, NmBindingExact, SessionsOf, Live
      <3>3. \A u \in Token : sessions'[u] # None /\ sessions'[u].device = x /\ sessions'[u].owner = e
               => u # t
        BY <1>3, <1>4, <2>3
      <3>4. Bindable(e, x) <=>
              /\ e \in nmSinks
              /\ \E u \in Token : /\ sessions[u] # None /\ sessions[u].device = x
                                  /\ sessions[u].owner = e /\ sessions[u].mode = "nm"
        BY <1>2, <1>4, <1>5, <3>3 DEF Bindable
      <3>5. Bindable(e, x) => devices'[x] = devices[x]
        BY <1>5, <3>4 DEF ManagerInv, SessionsStandOnEntry, Live
      <3> QED BY <3>1, <3>2, <3>4, <3>5
    <2> QED BY <2>2, <2>3
  <1> QED BY <1>7, <1>8, <1>9, <1>10 DEF ManagerInv

\* Sessions end, each with its hash and its capability.
LEMMA DropAuthority ==
  ASSUME TypeInv, CapabilityAuthority, authHashes = {t \in Token : Live(t)},
         NEW T \in SUBSET Token, DropSessions(T)
  PROVE  /\ CapabilityAuthority'
         /\ authHashes' = {t \in Token : sessions'[t] # None}
         /\ \A u \in T : sessions'[u] = None
         /\ \A u \in Token \ T : sessions'[u] = sessions[u]
  <1>1. /\ \A u \in T : sessions'[u] = None
        /\ \A u \in Token \ T : sessions'[u] = sessions[u]
        /\ authHashes' = authHashes \ T
    BY DEF DropSessions
  <1>2. /\ \A u \in T : transportValidity'[u] = 0
        /\ \A u \in Token \ T : transportValidity'[u] = transportValidity[u]
        /\ \A v : v \in validCaps' <=> v \in validCaps /\ ~\E u \in T : v = <<u, transportValidity[u]>>
    BY DEF DropSessions, InvalidateTransport, CapOf
  <1>3. \A v \in validCaps : \E u \in Token, n \in Nat : v = <<u, n>>
    BY DEF TypeInv, ManagerType
  <1>4. ASSUME NEW v \in validCaps'
        PROVE  v[1] \in Token \ T /\ v \in validCaps
    <2>1. PICK u \in Token, n \in Nat : v = <<u, n>> /\ v \in validCaps
      BY <1>2, <1>3
    <2>2. transportValidity[u] = n
      BY <2>1 DEF CapabilityAuthority
    <2> QED BY <1>2, <2>1, <2>2
  <1>5. \A v \in validCaps' : Live(v[1])' /\ sessions'[v[1]].mode \in Transport /\ transportValidity'[v[1]] = v[2]
    BY <1>1, <1>2, <1>4 DEF CapabilityAuthority, Live
  <1>6. \A t \in Token : transportValidity'[t] # 0 => <<t, transportValidity'[t]>> \in validCaps'
    BY <1>2 DEF CapabilityAuthority
  <1> QED BY <1>1, <1>5, <1>6 DEF CapabilityAuthority, Live

\* A device loses its Entry and all its sessions.
LEMMA RemovalStep ==
  ASSUME TypeInv, ManagerInv, NEW d \in Device,
         DropSessions(SessionsOf(d)), RemoveEntry(d), nmSinks' = nmSinks
  PROVE  ManagerInv'
  <1>1. /\ devices \in [Device -> Life \cup {None}]
        /\ nmHot \in [Client \X Device -> Life \cup {None}]
    BY DEF TypeInv, ManagerType
  <1>2. /\ CapabilityAuthority'
        /\ authHashes' = {t \in Token : sessions'[t] # None}
        /\ \A u \in SessionsOf(d) : sessions'[u] = None
        /\ \A u \in Token \ SessionsOf(d) : sessions'[u] = sessions[u]
    <2>1. SessionsOf(d) \in SUBSET Token
      BY DEF SessionsOf
    <2> QED BY <2>1, DropAuthority DEF ManagerInv, SessionsStandOnEntry
  <1>3. /\ devices'[d] = None
        /\ \A x \in Device \ {d} : devices'[x] = devices[x]
        /\ \A e \in Client : nmHot'[<<e, d>>] = None
        /\ \A e \in Client, x \in Device \ {d} : nmHot'[<<e, x>>] = nmHot[<<e, x>>]
    BY <1>1 DEF RemoveEntry, InvalidateNmHot
  <1>4. \A u \in Token : sessions'[u] # None =>
           sessions[u] = sessions'[u] /\ Live(u) /\ sessions[u].device # d
    BY <1>2 DEF SessionsOf, Live
  <1>5. \A u \in Token : Live(u) => sessions[u].device \in Device
    BY DEF TypeInv, ManagerType, Live, Session
  <1>6. \A u \in Token : Live(u) /\ sessions[u].device # d => sessions'[u] = sessions[u]
    BY <1>2 DEF SessionsOf
  <1>7. SessionsStandOnEntry'
    BY <1>2, <1>3, <1>4, <1>5 DEF ManagerInv, SessionsStandOnEntry, Live
  <1>8. EntryHasSession'
    <2>1. ASSUME NEW x \in Device, devices'[x] # None
          PROVE  \E u \in Token : sessions'[u] # None /\ sessions'[u].device = x
      <3>1. x # d /\ devices[x] # None
        BY <1>3, <2>1
      <3>2. PICK u \in Token : Live(u) /\ sessions[u].device = x
        BY <3>1 DEF ManagerInv, EntryHasSession, SessionsOf
      <3> QED BY <1>6, <3>1, <3>2 DEF Live
    <2> QED BY <2>1 DEF EntryHasSession, SessionsOf, Live
  <1>9. NmBindingExact'
    <2> SUFFICES ASSUME NEW e \in Client, NEW x \in Device
                 PROVE  nmHot'[<<e, x>>] = IF Bindable(e, x) THEN devices'[x] ELSE None
      BY ZenonT(40) DEF NmBindingExact, Bindable, SessionsOf, Live
    <2>1. CASE x = d
      BY <1>3, <2>1
    <2>2. CASE x # d
      <3>1. nmHot[<<e, x>>] = IF /\ e \in nmSinks
                                 /\ \E u \in Token : /\ Live(u) /\ sessions[u].device = x
                                                     /\ sessions[u].owner = e /\ sessions[u].mode = "nm"
                              THEN devices[x] ELSE None
        BY DEF ManagerInv, NmBindingExact, SessionsOf
      <3>2. Bindable(e, x) <=>
              /\ e \in nmSinks
              /\ \E u \in Token : /\ Live(u) /\ sessions[u].device = x
                                  /\ sessions[u].owner = e /\ sessions[u].mode = "nm"
        BY <1>4, <1>6, <2>2 DEF Bindable, Live
      <3> QED BY <1>3, <2>2, <3>1, <3>2
    <2> QED BY <2>1, <2>2
  <1> QED BY <1>2, <1>7, <1>8, <1>9 DEF ManagerInv

LEMMA ExactIfBindable ==
  ASSUME \A e \in Client, x \in Device :
           nmHot'[<<e, x>>] = IF Bindable(e, x) THEN devices'[x] ELSE None
  PROVE  NmBindingExact'
  BY ZenonT(40) DEF NmBindingExact, Bindable, SessionsOf, Live

\* A binding that is refreshed is exact; the others are if their condition stays.
LEMMA RefreshExact ==
  ASSUME TypeInv, NmBindingExact, NEW c \in Client, NEW d \in Device, RefreshNmHot(c, d),
         devices' = devices,
         \A e \in Client, x \in Device : ~(e = c /\ x = d) =>
           (Bindable(e, x) <=> /\ e \in nmSinks
                               /\ \E u \in Token : /\ Live(u) /\ sessions[u].device = x
                                                   /\ sessions[u].owner = e /\ sessions[u].mode = "nm")
  PROVE  NmBindingExact'
  <1> SUFFICES ASSUME NEW e \in Client, NEW x \in Device
               PROVE  nmHot'[<<e, x>>] = IF Bindable(e, x) THEN devices'[x] ELSE None
    BY ExactIfBindable
  <1>1. nmHot \in [Client \X Device -> Life \cup {None}]
    BY DEF TypeInv, ManagerType
  <1>2. nmHot' = [nmHot EXCEPT ![<<c, d>>] = IF Bindable(c, d) THEN devices'[d] ELSE None]
    BY DEF RefreshNmHot
  <1>3. CASE e = c /\ x = d
    BY <1>1, <1>2, <1>3
  <1>4. CASE ~(e = c /\ x = d)
    <2>1. nmHot'[<<e, x>>] = nmHot[<<e, x>>]
      BY <1>1, <1>2, <1>4
    <2>2. nmHot[<<e, x>>] = IF /\ e \in nmSinks
                               /\ \E u \in Token : /\ Live(u) /\ sessions[u].device = x
                                                   /\ sessions[u].owner = e /\ sessions[u].mode = "nm"
                            THEN devices[x] ELSE None
      BY DEF NmBindingExact, SessionsOf
    <2> QED BY <1>4, <2>1, <2>2
  <1> QED BY <1>3, <1>4

LEMMA ClosesStep ==
  ASSUME TypeInv, ManagerInv, NEW c \in Client, NEW d \in Device, NEW t \in Token, Closes(c, d, t)
  PROVE  ManagerInv'
  <1>1. CASE SessionsOf(d) = {t}
    BY <1>1, RemovalStep DEF Closes
  <1>2. CASE SessionsOf(d) # {t}
    <2>1. /\ CapabilityAuthority'
          /\ authHashes' = {u \in Token : sessions'[u] # None}
          /\ sessions'[t] = None
          /\ \A u \in Token \ {t} : sessions'[u] = sessions[u]
      BY DropAuthority DEF Closes, ManagerInv, SessionsStandOnEntry
    <2>2. /\ devices' = devices /\ nmSinks' = nmSinks /\ RefreshNmHot(c, d)
          /\ Live(t) /\ sessions[t].owner = c /\ sessions[t].device = d
      BY <1>2 DEF Closes
    <2>3. SessionsStandOnEntry'
      BY <2>1, <2>2 DEF ManagerInv, SessionsStandOnEntry, Live
    <2>4. EntryHasSession'
      <3>1. ASSUME NEW x \in Device, devices[x] # None
            PROVE  \E u \in Token : sessions'[u] # None /\ sessions'[u].device = x
        <4>1. PICK u \in SessionsOf(x) : u # t
          BY <1>2, <2>2, <3>1 DEF ManagerInv, EntryHasSession, SessionsOf
        <4> QED BY <2>1, <4>1 DEF SessionsOf, Live
      <3> QED BY <2>2, <3>1 DEF EntryHasSession, SessionsOf, Live
    <2>5. NmBindingExact'
      <3>1. ASSUME NEW e \in Client, NEW x \in Device, ~(e = c /\ x = d)
            PROVE  Bindable(e, x) <=> /\ e \in nmSinks
                               /\ \E u \in Token : /\ Live(u) /\ sessions[u].device = x
                                                   /\ sessions[u].owner = e /\ sessions[u].mode = "nm"
        BY <2>1, <2>2, <3>1 DEF Bindable, Live
      <3> QED BY <2>2, <3>1, RefreshExact DEF ManagerInv
    <2> QED BY <2>1, <2>3, <2>4, <2>5 DEF ManagerInv
  <1> QED BY <1>1, <1>2

\* A session changes its data plane: device and owner stay.
LEMMA ModeStep ==
  ASSUME TypeInv, ManagerInv, NEW t \in Token, NEW s \in Session,
         Live(t), sessions' = [sessions EXCEPT ![t] = s],
         s.device = sessions[t].device, s.owner = sessions[t].owner,
         authHashes' = authHashes, devices' = devices, nmSinks' = nmSinks,
         RefreshNmHot(s.owner, s.device), CapabilityAuthority'
  PROVE  ManagerInv'
  <1>1. /\ sessions'[t] = s /\ s # None /\ s.device \in Device /\ s.owner \in Client
        /\ \A u \in Token \ {t} : sessions'[u] = sessions[u]
    BY DEF TypeInv, ManagerType, Session
  <1>2. SessionsStandOnEntry'
    <2>1. \A u \in Token : Live(u)' <=> Live(u)
      BY <1>1 DEF Live
    <2>2. \A u \in Token : Live(u) => sessions'[u].device = sessions[u].device
      BY <1>1
    <2> QED BY <2>1, <2>2 DEF ManagerInv, SessionsStandOnEntry
  <1>3. EntryHasSession'
    <2>1. \A x \in Device, u \in Token : Live(u) /\ sessions[u].device = x
             => sessions'[u] # None /\ sessions'[u].device = x
      BY <1>1 DEF Live
    <2> QED BY <2>1 DEF ManagerInv, EntryHasSession, SessionsOf, Live
  <1>4. NmBindingExact'
    <2>1. ASSUME NEW e \in Client, NEW x \in Device, ~(e = s.owner /\ x = s.device)
          PROVE  Bindable(e, x) <=> /\ e \in nmSinks
                               /\ \E u \in Token : /\ Live(u) /\ sessions[u].device = x
                                                   /\ sessions[u].owner = e /\ sessions[u].mode = "nm"
      BY <1>1, <2>1 DEF Bindable, Live
    <2> QED BY <1>1, <2>1, RefreshExact DEF ManagerInv
  <1> QED BY <1>2, <1>3, <1>4 DEF ManagerInv

LEMMA InvalidateAuthority ==
  ASSUME TypeInv, CapabilityAuthority, NEW t \in Token, InvalidateTransport({t}),
         \A u \in Token \ {t} : sessions'[u] = sessions[u]
  PROVE  CapabilityAuthority'
  <1>1. /\ transportValidity'[t] = 0
        /\ \A u \in Token \ {t} : transportValidity'[u] = transportValidity[u]
        /\ \A v : v \in validCaps' <=> v \in validCaps /\ v # <<t, transportValidity[t]>>
    BY DEF InvalidateTransport, CapOf
  <1>2. ASSUME NEW v \in validCaps'
        PROVE  v[1] \in Token \ {t} /\ v \in validCaps
    <2>1. PICK u \in Token, n \in Nat : v = <<u, n>> /\ v \in validCaps
      BY <1>1 DEF TypeInv, ManagerType
    <2>2. transportValidity[u] = n
      BY <2>1 DEF CapabilityAuthority
    <2> QED BY <1>1, <2>1, <2>2
  <1>3. \A v \in validCaps' : Live(v[1])' /\ sessions'[v[1]].mode \in Transport /\ transportValidity'[v[1]] = v[2]
    BY <1>1, <1>2 DEF CapabilityAuthority, Live
  <1>4. \A u \in Token : transportValidity'[u] # 0 => <<u, transportValidity'[u]>> \in validCaps'
    BY <1>1 DEF CapabilityAuthority
  <1> QED BY <1>3, <1>4 DEF CapabilityAuthority

LEMMA SetDataplaneModeStep ==
  ASSUME TypeInv, ManagerInv, NEW c \in Client, NEW t \in Token, NEW mode \in Mode,
         SetDataplaneMode(c, t, mode)
  PROVE  ManagerInv'
  <1>1. sessions[t] \in Session /\ Live(t) /\ sessions[t].owner = c
    BY DEF SetDataplaneMode, Live, TypeInv, ManagerType
  <1>2. PICK s \in Session : /\ s = [sessions[t] EXCEPT !.mode = mode]
                             /\ s.device = sessions[t].device /\ s.owner = sessions[t].owner
    <2>1. PICK r \in Session : r = sessions[t]
      BY <1>1
    <2>2. [r EXCEPT !.mode = mode] \in Session
      BY DEF Session
    <2> QED BY <2>1, <2>2 DEF Session
  <1>3. sessions' = [sessions EXCEPT ![t] = s]
    BY <1>2 DEF SetDataplaneMode
  <1>4. CapabilityAuthority'
    <2>1. \A u \in Token \ {t} : sessions'[u] = sessions[u]
      BY <1>3 DEF TypeInv, ManagerType
    <2> QED BY <2>1, InvalidateAuthority DEF SetDataplaneMode, ManagerInv
  <1>5. RefreshNmHot(s.owner, s.device)
    BY <1>1, <1>2, ZenonT(40) DEF SetDataplaneMode, RefreshNmHot, Bindable
  <1> QED BY <1>1, <1>2, <1>3, <1>4, <1>5, ModeStep DEF SetDataplaneMode

LEMMA TransportDisconnectStep ==
  ASSUME TypeInv, ManagerInv, NEW k \in conns, ConnectionCurrent(k), TransportDisconnect(k)
  PROVE  ManagerInv'
  <1>1. PICK t \in Token : t = k.token
    BY DEF TypeInv, EnvType, Conn
  <1>2. sessions[t] \in Session /\ Live(t)
    BY <1>1 DEF ConnectionCurrent, GenerationCurrent, Live, TypeInv, ManagerType
  <1>3. PICK s \in Session : /\ s = [sessions[t] EXCEPT !.mode = "nm"]
                             /\ s.device = sessions[t].device /\ s.owner = sessions[t].owner
    <2>1. PICK r \in Session : r = sessions[t]
      BY <1>2
    <2>2. [r EXCEPT !.mode = "nm"] \in Session
      BY DEF Session, Mode
    <2> QED BY <2>1, <2>2 DEF Session
  <1>4. sessions' = [sessions EXCEPT ![t] = s]
    BY <1>1, <1>3 DEF TransportDisconnect
  <1>5. CapabilityAuthority'
    <2>1. \A u \in Token \ {t} : sessions'[u] = sessions[u]
      BY <1>4 DEF TypeInv, ManagerType
    <2>2. InvalidateTransport({t})
      BY <1>1 DEF TransportDisconnect, InvalidateTransport, CapOf
    <2> QED BY <2>1, <2>2, InvalidateAuthority DEF ManagerInv
  <1>6. RefreshNmHot(s.owner, s.device)
    BY <1>1, <1>3 DEF TransportDisconnect, RefreshNmHot, Bindable
  <1> QED BY <1>2, <1>3, <1>4, <1>5, <1>6, ModeStep DEF TransportDisconnect

LEMMA TransportConnectStep ==
  ASSUME TypeInv, ManagerInv, NEW t \in Token, NEW kind \in Transport, TransportConnect(t, kind)
  PROVE  ManagerInv'
  <1> DEFINE number == sessions[t].wsGen + sessions[t].wtGen + 1
  <1>1. /\ sessions[t] \in Session /\ Live(t)
        /\ sessions \in [Token -> Session \cup {None}]
        /\ transportValidity \in [Token -> Nat]
    BY DEF TransportConnect, Live, TypeInv, ManagerType
  <1>2. PICK w \in Nat, g \in Nat : w = sessions[t].wsGen + (IF kind = "ws" THEN 1 ELSE 0)
                                 /\ g = sessions[t].wtGen + (IF kind = "wt" THEN 1 ELSE 0)
    BY <1>1 DEF Session
  <1>3. PICK s \in Session : /\ s = [sessions[t] EXCEPT !.mode = kind, !.wsGen = w, !.wtGen = g]
                             /\ s.device = sessions[t].device /\ s.owner = sessions[t].owner
                             /\ s.mode = kind
    <2>1. PICK r \in Session : r = sessions[t]
      BY <1>1
    <2> DEFINE q == [r EXCEPT !.mode = kind, !.wsGen = w, !.wtGen = g]
    <2>2. q \in Session /\ q.device = r.device /\ q.owner = r.owner /\ q.mode = kind
      BY DEF Session, Mode
    <2>3. q = [sessions[t] EXCEPT !.mode = kind, !.wsGen = w, !.wtGen = g]
      BY <2>1
    <2> HIDE DEF q
    <2> QED BY <2>1, <2>2, <2>3
  <1>4. sessions' = [sessions EXCEPT ![t] = s]
    BY <1>2, <1>3 DEF TransportConnect
  <1>5. CapabilityAuthority'
    <2>1. /\ sessions'[t] = s /\ s # None
          /\ \A u \in Token \ {t} : sessions'[u] = sessions[u]
      BY <1>1, <1>4
    <2>2. /\ transportValidity' = [transportValidity EXCEPT ![t] = number]
          /\ validCaps' = (validCaps \ CapOf(t)) \cup {<<t, number>>}
      BY DEF TransportConnect
    <2> HIDE DEF number
    <2>3. /\ transportValidity'[t] = number
          /\ \A u \in Token \ {t} : transportValidity'[u] = transportValidity[u]
      BY <1>1, <2>2
    <2>4. \A v : v \in validCaps' <=> \/ v \in validCaps /\ v # <<t, transportValidity[t]>>
                                      \/ v = <<t, number>>
      BY <2>2 DEF CapOf
    <2>5. ASSUME NEW v \in validCaps', v # <<t, number>>
          PROVE  v[1] \in Token \ {t} /\ v \in validCaps
      <3>1. PICK u \in Token, n \in Nat : v = <<u, n>> /\ v \in validCaps
        BY <2>4, <2>5 DEF TypeInv, ManagerType
      <3>2. transportValidity[u] = n
        BY <3>1 DEF ManagerInv, CapabilityAuthority
      <3> QED BY <2>4, <2>5, <3>1, <3>2
    <2>6. ASSUME NEW v \in validCaps'
          PROVE  Live(v[1])' /\ sessions'[v[1]].mode \in Transport /\ transportValidity'[v[1]] = v[2]
      <3>1. CASE v = <<t, number>>
        BY <1>3, <2>1, <2>3, <3>1 DEF Live
      <3>2. CASE v # <<t, number>>
        BY <2>1, <2>3, <2>5, <3>2 DEF ManagerInv, CapabilityAuthority, Live
      <3> QED BY <3>1, <3>2
    <2>7. \A u \in Token : transportValidity'[u] # 0 => <<u, transportValidity'[u]>> \in validCaps'
      BY <2>3, <2>4 DEF ManagerInv, CapabilityAuthority
    <2> QED BY <2>6, <2>7 DEF CapabilityAuthority
  <1>6. RefreshNmHot(s.owner, s.device)
    BY <1>3 DEF TransportConnect, RefreshNmHot, Bindable
  <1> QED BY <1>1, <1>3, <1>4, <1>5, <1>6, ModeStep DEF TransportConnect

LEMMA SinkStep ==
  ASSUME TypeInv, ManagerInv, OwnersPresent, NEW c \in Client, Connect(c) \/ Disconnect(c)
  PROVE  ManagerInv'
  <1>1. UNCHANGED <<sessions, authHashes, devices, transportValidity, validCaps>>
    BY DEF Connect, Disconnect, managerVars
  <1>2. SessionsStandOnEntry' /\ EntryHasSession' /\ CapabilityAuthority'
    BY <1>1 DEF ManagerInv, SessionsStandOnEntry, EntryHasSession, SessionsOf, CapabilityAuthority, Live
  <1>3. NmBindingExact'
    <2> SUFFICES ASSUME NEW e \in Client, NEW x \in Device
                 PROVE  nmHot'[<<e, x>>] = IF Bindable(e, x) THEN devices'[x] ELSE None
      BY ZenonT(40) DEF NmBindingExact, Bindable, SessionsOf, Live
    <2>1. nmHot[<<e, x>>] = IF /\ e \in nmSinks
                               /\ \E u \in Token : /\ Live(u) /\ sessions[u].device = x
                                                   /\ sessions[u].owner = e /\ sessions[u].mode = "nm"
                            THEN devices[x] ELSE None
      BY DEF ManagerInv, NmBindingExact, SessionsOf
    <2>2. CASE Connect(c)
      <3>1. nmHot' = nmHot /\ nmSinks' = nmSinks \cup {c}
        BY <2>2 DEF Connect, managerVars
      <3>2. ~\E u \in Token : Live(u) /\ sessions[u].owner = c
        BY <2>2 DEF Connect, OwnersPresent, Owned
      <3> QED BY <1>1, <2>1, <3>1, <3>2 DEF Bindable, Live
    <2>3. CASE Disconnect(c)
      <3>1. nmHot'[<<e, x>>] = (IF e = c THEN None ELSE nmHot[<<e, x>>]) /\ nmSinks' = nmSinks \ {c}
        BY <2>3 DEF Disconnect
      <3> QED BY <1>1, <2>1, <3>1 DEF Bindable, Live
    <2> QED BY <2>2, <2>3
  <1> QED BY <1>2, <1>3 DEF ManagerInv

LEMMA ManagerStep ==
  ASSUME TypeInv, TokensFresh, OwnersPresent, ManagerInv, [Next]_vars
  PROVE  ManagerInv'
  <1>1. ASSUME UNCHANGED managerVars, nmSinks' = nmSinks
        PROVE  ManagerInv'
    BY <1>1 DEF managerVars, ManagerInv, SessionsStandOnEntry, EntryHasSession, CapabilityAuthority,
                NmBindingExact, SessionsOf, Live
  <1>2. ASSUME NEW d \in Device, Detaches(d)
        PROVE  ManagerInv'
    BY <1>2, RemovalStep DEF Detaches, DetachLifetime
  <1>3. ASSUME NEW c \in Client, NEW d \in Device, NEW t \in Token, Open(c, d, t)
        PROVE  ManagerInv'
    BY <1>1, <1>3 DEF Open
  <1> QED BY <1>1, <1>2, <1>3, ManagerCases, RegistersStep, ClosesStep, SinkStep, SetDataplaneModeStep,
             TransportConnectStep, TransportDisconnectStep
-----------------------------------------------------------------------------
(* An invalidated reservation keeps its device without an Entry *)

\* An Entry appears only by the open whose reservation is still good.
LEMMA EntryCases ==
  ASSUME TypeInv, [Next]_vars, NEW d \in Device, devices[d] = None, devices'[d] # None
  PROVE  ~opening[d].invalidated /\ UNCHANGED opening
  <1>1. ASSUME NEW c \in Client, NEW x \in Device, NEW t \in Token, Registers(c, x, t)
        PROVE  ~opening[d].invalidated /\ UNCHANGED opening
    BY <1>1 DEF Registers
  <1>2. ASSUME NEW x \in Device, RemoveEntry(x)
        PROVE  FALSE
    BY <1>2 DEF RemoveEntry, TypeInv, ManagerType
  <1> QED BY <1>1, <1>2, ManagerCases
          DEF managerVars, Closes, Detaches, DetachLifetime, Open, Connect, Disconnect, SetDataplaneMode,
              TransportConnect, TransportDisconnect

\* Only force_close invalidates a reservation, and it removes the Entry.
LEMMA ReservationCases ==
  ASSUME TypeInv, [Next]_vars, NEW d \in Device, opening'[d] # None, opening'[d].invalidated
  PROVE  opening'[d] = opening[d] \/ devices'[d] = None
  <1>1. opening \in [Device -> Reservation \cup {None}]
    BY DEF TypeInv, RestType
  <1>2. ASSUME NEW c \in Client, Reserve(c)
        PROVE  opening'[d] = opening[d]
    BY <1>1, <1>2 DEF Reserve
  <1>3. ASSUME NEW c \in Client, EndReservation(c)
        PROVE  opening'[d] = opening[d]
    BY <1>1, <1>3 DEF EndReservation
  <1>4. ASSUME NEW c \in Client, ForceClose(c)
        PROVE  opening'[d] = opening[d] \/ devices'[d] = None
    <2>1. CASE d = Head(inbox[c]).device
      BY <1>4, <2>1 DEF ForceClose, DetachLifetime, RemoveEntry, TypeInv, ManagerType
    <2>2. CASE d # Head(inbox[c]).device
      BY <1>1, <1>4, <2>2 DEF ForceClose
    <2> QED BY <2>1, <2>2
  <1>5. ASSUME Environment
        PROVE  UNCHANGED opening
    BY <1>5 DEF Environment, Connect, Disconnect, RelayLagged, Open, Close, SetDataplaneMode,
                HotplugRemove, ReaderFails, TransportConnect, TransportDisconnect
  <1>6. ASSUME NEW c \in Client, RequestStep(c)
        PROVE  opening'[d] = opening[d]
    BY <1>2, <1>3, <1>6 DEF RequestStep, Wake, PhysicalOpen, Publish, ReleaseReader, NotifyWaiters,
       StopEntry, JoinEntry, SnapshotOwned, Leave, CheckReservation, DrainOne
  <1>7. ASSUME NEW c \in Client, RelayStep(c)
        PROVE  opening'[d] = opening[d] \/ devices'[d] = None
    BY <1>4, <1>7 DEF RelayStep, ForceCloseStop, ForceCloseJoin
  <1>8. ASSUME NEW l \in Life, ReaderStep(l) \/ IoWorkerExits(l)
        PROVE  UNCHANGED opening
    BY <1>8 DEF ReaderStep, ReaderPasses, ReaderStops, ReaderDetaches, ReaderStopsIo, ReaderAnnounces,
                IoWorkerExits
  <1> QED BY <1>5, <1>6, <1>7, <1>8 DEF Next, vars

LEMMA InvalidatedStep ==
  ASSUME TypeInv, InvalidatedWithoutEntry, [Next]_vars
  PROVE  InvalidatedWithoutEntry'
  <1> SUFFICES ASSUME NEW d \in Device, opening'[d] # None, opening'[d].invalidated
               PROVE  devices'[d] = None
    BY DEF InvalidatedWithoutEntry
  <1>1. CASE opening'[d] = opening[d]
    <2>1. devices[d] = None /\ opening[d].invalidated
      BY <1>1 DEF InvalidatedWithoutEntry
    <2> QED BY <2>1, EntryCases
  <1> QED BY <1>1, ReservationCases

\* Connection k ends; the others stay, the new ones are numbered.
LEMMA ConnCases ==
  ASSUME TypeInv, [Next]_vars
  PROVE  \/ conns' = conns
         \/ \E k \in conns : TransportDisconnect(k) /\ conns' = conns \ {k}
         \/ \E t \in Token, kind \in Transport : TransportConnect(t, kind) /\ conns \subseteq conns'
  <1>1. ASSUME NEW c \in Client, RequestStep(c) \/ RelayStep(c)
        PROVE  conns' = conns
    BY <1>1 DEF RequestStep, Reserve, Wake, PhysicalOpen, Publish, ReleaseReader, EndReservation,
       NotifyWaiters, StopEntry, JoinEntry, SnapshotOwned, Leave, CheckReservation, DrainOne,
       RelayStep, ForceClose, ForceCloseStop, ForceCloseJoin, envVars
  <1>2. ASSUME NEW l \in Life, ReaderStep(l) \/ IoWorkerExits(l)
        PROVE  conns' = conns
    BY <1>2 DEF ReaderStep, ReaderPasses, ReaderStops, ReaderDetaches, ReaderStopsIo, ReaderAnnounces,
                IoWorkerExits, envVars
  <1>3. ASSUME NEW k \in conns, TransportDisconnect(k)
        PROVE  conns' = conns \ {k}
    BY <1>3 DEF TransportDisconnect
  <1>4. ASSUME NEW t \in Token, NEW kind \in Transport, TransportConnect(t, kind)
        PROVE  conns \subseteq conns'
    BY <1>4 DEF TransportConnect
  <1>5. ASSUME \/ \E c \in Client : Connect(c) \/ Disconnect(c) \/ RelayLagged(c)
               \/ \E c \in Client, d \in Device, t \in Token : Open(c, d, t)
               \/ \E c \in Client, t \in Token : Close(c, t)
               \/ \E c \in Client, t \in Token, mode \in Mode : SetDataplaneMode(c, t, mode)
               \/ \E d \in Device : HotplugRemove(d)
               \/ \E l \in Life : ReaderFails(l)
        PROVE  conns' = conns
    BY <1>5 DEF Connect, Disconnect, RelayLagged, Open, Close, SetDataplaneMode, HotplugRemove,
                ReaderFails, envVars
  <1> QED BY <1>1, <1>2, <1>3, <1>4, <1>5 DEF Next, Environment, vars, envVars

LEMMA NumberedStep ==
  ASSUME TypeInv, ConnsNumbered, [Next]_vars
  PROVE  ConnsNumbered'
  <1>1. ASSUME NEW t \in Token, NEW kind \in Transport, TransportConnect(t, kind), NEW k \in conns'
        PROVE  k.cap # 0
    <2>1. sessions[t].wsGen + sessions[t].wtGen + 1 # 0
      BY <1>1 DEF TransportConnect, Live, TypeInv, ManagerType, Session
    <2> QED BY <1>1, <2>1 DEF TransportConnect, ConnsNumbered
  <1> QED BY <1>1, ConnCases DEF ConnsNumbered
-----------------------------------------------------------------------------
(* The theorems *)

LEMMA SessionInit == Init => SessionInv
  BY DEF Init, SessionInv, TokensFresh, OwnersPresent, InvalidatedWithoutEntry, ConnsNumbered,
     SessionsStandOnEntry, EntryHasSession, CapabilityAuthority, NmBindingExact, Live, Holds,
     Unregistered, Draining, Owned, SessionsOf, At

LEMMA SessionStep == TypeInv /\ SessionInv /\ [Next]_vars => SessionInv'
  BY FreshStep, OwnersStep, InvalidatedStep, NumberedStep, ManagerStep DEF SessionInv, ManagerInv

\* The strengthened session invariant is inductive.
THEOREM SessionInvHolds == Spec => [](TypeInv /\ SessionInv)
  <1>1. Init => TypeInv /\ SessionInv
    BY TypeInit, SessionInit
  <1>2. TypeInv /\ SessionInv /\ [Next]_vars => (TypeInv /\ SessionInv)'
    BY TypeStep, SessionStep
  <1> QED BY <1>1, <1>2, PTL DEF Spec

\* However many clients race with dead readers and removals, a session never
\* outlives the Entry of its device, nor an auth hash its session.
THEOREM SessionsKeepTheirEntry == Spec => []SessionsStandOnEntry
  <1>1. SessionInv => SessionsStandOnEntry
    BY DEF SessionInv
  <1> QED BY SessionInvHolds, <1>1, PTL

\* No published Entry is left without a session: an open HID handle never leaks.
THEOREM EntriesAreHeld == Spec => []EntryHasSession
  <1>1. SessionInv => EntryHasSession
    BY DEF SessionInv
  <1> QED BY SessionInvHolds, <1>1, PTL

\* Sessions and Entries come and go together.
THEOREM SessionsAndEntriesMatch == Spec => []SessionsMatchEntries
  <1>1. SessionsStandOnEntry /\ EntryHasSession => SessionsMatchEntries
    BY DEF SessionsMatchEntries
  <1> QED BY SessionsKeepTheirEntry, EntriesAreHeld, <1>1, PTL

\* A capability that still passes its check is the current one of a live WS/WT
\* session.
THEOREM CapabilitiesAreCurrent == Spec => []CapabilityAuthority
  <1>1. SessionInv => CapabilityAuthority
    BY DEF SessionInv
  <1> QED BY SessionInvHolds, <1>1, PTL

\* The lock-free NM bindings are exactly what the maps say.
THEOREM BindingsAreExact == Spec => []NmBindingExact
  <1>1. SessionInv => NmBindingExact
    BY DEF SessionInv
  <1> QED BY SessionInvHolds, <1>1, PTL

\* After close_all_for_client nothing of the client is left.
THEOREM DepartedClientOwnsNothing == Spec => []DepartedOwnsNothing
  <1>1. SessionInv => DepartedOwnsNothing
    BY DEF SessionInv, OwnersPresent, NmBindingExact, DepartedOwnsNothing
  <1> QED BY SessionInvHolds, <1>1, PTL

\* While a reservation is invalidated nothing is published for its device.
THEOREM InvalidatedOpensPublishNothing == Spec => InvalidatedOpenPublishesNothing
  <1>1. TypeInv /\ SessionInv /\ [Next]_vars =>
          [\A d \in Device : opening[d] # None /\ opening[d].invalidated => devices'[d] = None]_vars
    BY EntryCases DEF SessionInv, InvalidatedWithoutEntry
  <1> QED BY SessionInvHolds, <1>1, PTL DEF Spec, InvalidatedOpenPublishesNothing

\* A connection whose capability is revoked ends without touching a session.
THEOREM RevokedConnectionsAreHarmless == Spec => RevokedConnectionHarmless
  <1>1. ASSUME TypeInv, SessionInv, [Next]_vars,
               NEW k \in conns \ conns', <<k.token, k.cap>> \notin validCaps
        PROVE  sessions' = sessions
    <2>1. TransportDisconnect(k)
      BY <1>1, ConnCases
    <2>2. k.token \in Token /\ k.cap # 0
      BY <1>1 DEF SessionInv, ConnsNumbered, TypeInv, EnvType, Conn
    <2>3. ~ConnectionCurrent(k)
      BY <1>1, <2>2 DEF SessionInv, CapabilityAuthority, ConnectionCurrent
    <2> QED BY <2>1, <2>3 DEF TransportDisconnect, managerVars
  <1>2. TypeInv /\ SessionInv /\ [Next]_vars =>
          [\A k \in conns \ conns' : <<k.token, k.cap>> \notin validCaps => sessions' = sessions]_vars
    BY <1>1
  <1> QED BY SessionInvHolds, <1>2, PTL DEF Spec, RevokedConnectionHarmless

\* Closing, moving or demoting one session leaves every other as it was, unless
\* the device itself is lost with all of them.
THEOREM SessionsAreIsolated == Spec => SessionIsolation
  <1>1. ASSUME TypeInv, SessionInv, [Next]_vars, NEW t \in Token, Live(t), sessions'[t] # sessions[t]
        PROVE  \/ \A u \in Token \ {t} : sessions'[u] = sessions[u]
               \/ /\ devices'[sessions[t].device] = None
                  /\ \A u \in Token : sessions'[u] = IF u \in SessionsOf(sessions[t].device)
                                                    THEN None ELSE sessions[u]
    <2>1. sessions \in [Token -> Session \cup {None}] /\ devices \in [Device -> Life \cup {None}]
      BY <1>1 DEF TypeInv, ManagerType
    <2>2. ASSUME NEW c \in Client, NEW d \in Device, NEW u \in Token, Registers(c, d, u)
          PROVE  FALSE
      BY <1>1, <2>1, <2>2 DEF Registers, RegisterSession, SessionInv, TokensFresh
    <2>3. ASSUME NEW c \in Client, NEW d \in Device, NEW u \in Token, Closes(c, d, u)
          PROVE  \A y \in Token \ {t} : sessions'[y] = sessions[y]
      BY <1>1, <2>1, <2>3 DEF Closes, DropSessions
    <2>4. ASSUME NEW d \in Device, Detaches(d)
          PROVE  /\ devices'[sessions[t].device] = None
                 /\ \A u \in Token : sessions'[u] = IF u \in SessionsOf(sessions[t].device)
                                                   THEN None ELSE sessions[u]
      <3>1. /\ DropSessions(SessionsOf(d)) /\ devices'[d] = None
        BY <2>1, <2>4 DEF Detaches, DetachLifetime, RemoveEntry
      <3>2. sessions[t].device = d
        BY <1>1, <3>1 DEF DropSessions, SessionsOf
      <3> QED BY <3>1, <3>2 DEF DropSessions
    <2>5. ASSUME NEW c \in Client, NEW u \in Token, NEW mode \in Mode, SetDataplaneMode(c, u, mode)
          PROVE  \A y \in Token \ {t} : sessions'[y] = sessions[y]
      BY <1>1, <2>1, <2>5 DEF SetDataplaneMode
    <2>6. ASSUME NEW u \in Token, NEW kind \in Transport, TransportConnect(u, kind)
          PROVE  \A y \in Token \ {t} : sessions'[y] = sessions[y]
      BY <1>1, <2>1, <2>6 DEF TransportConnect
    <2>7. ASSUME NEW k \in conns, ConnectionCurrent(k), TransportDisconnect(k)
          PROVE  \A y \in Token \ {t} : sessions'[y] = sessions[y]
      BY <1>1, <2>1, <2>7 DEF TransportDisconnect
    <2>8. sessions' # sessions
      BY <1>1
    <2> QED BY <1>1, <2>2, <2>3, <2>4, <2>5, <2>6, <2>7, <2>8, ManagerCases
            DEF managerVars, Open, Connect, Disconnect
  <1>2. TypeInv /\ SessionInv /\ [Next]_vars =>
          [\A t \in Token : Live(t) /\ sessions'[t] # sessions[t] =>
             \/ \A u \in Token \ {t} : sessions'[u] = sessions[u]
             \/ /\ devices'[sessions[t].device] = None
                /\ \A u \in Token : sessions'[u] = IF u \in SessionsOf(sessions[t].device)
                                                  THEN None ELSE sessions[u]]_vars
    BY <1>1
  <1> QED BY SessionInvHolds, <1>2, PTL DEF Spec, SessionIsolation

-----------------------------------------------------------------------------
(* Physical lifetimes, reservations and the non_nm_sessions counter *)


(* The strengthening behind ThreadsFollowLifetimes *)

\* Every stage of a lifetime has its keeper: the open that builds it, the map
\* that publishes it, whoever took it out of the map and is to stop it, and
\* once it is signalled the one that joins its I/O worker.
Stage(l) ==
  /\ phase[l] = "free" => reader[l].at = "none" /\ io[l] = "none"
  /\ phase[l] = "local" => \E c \in Client : task[c].pc = "built" /\ task[c].life = l
  /\ phase[l] = "installed" => lifeDev[l] \in Device /\ devices[lifeDev[l]] = l
  /\ phase[l] = "detached" =>
       \/ \E c \in Client : task[c].pc = "stop" /\ task[c].life = l
       \/ \E c \in Client : relay[c].at = "unlocked" /\ relay[c].life = l
       \/ \E r \in Life : reader[r].at = "detached" /\ reader[r].victim = l
  /\ phase[l] = "stopping" =>
       \/ io[l] = "exited"
       \/ \E c \in Client : task[c].pc = "join" /\ task[c].life = l
       \/ \E c \in Client : relay[c].at = "join" /\ relay[c].life = l
       \/ \E r \in Life : reader[r].at = "joining" /\ reader[r].victim = l

Stages == \A l \in Life : Stage(l)

\* Who holds a lifetime holds one of the stage it takes it for.
Published == \A d \in Device :
  devices[d] # None => phase[devices[d]] = "installed" /\ lifeDev[devices[d]] = d

Built ==
  /\ \A c \in Client : task[c].pc = "built" =>
       phase[task[c].life] = "local" /\ lifeDev[task[c].life] = task[c].device
  /\ \A c, e \in Client : c # e /\ task[c].pc = "built" /\ task[e].pc = "built" =>
       task[c].life # task[e].life

Ending == {"detached", "stopping"}
Taken ==
  /\ \A c \in Client : task[c].pc \in {"stop", "join"} => phase[task[c].life] \in Ending
  /\ \A c \in Client : relay[c].at # "idle" /\ relay[c].life # None => phase[relay[c].life] \in Ending
  /\ \A r \in Life : reader[r].at \in {"detached", "joining"} => phase[reader[r].victim] \in Ending

\* A gate is released for a published Entry, or for one that is being stopped.
Gates ==
  /\ \A l \in gate : l \in published \/ phase[l] = "stopping"
  /\ \A c \in Client : task[c].pc = "release" => task[c].life \in published

LifeInv == Stages /\ Published /\ Built /\ Taken /\ Gates /\ GatedReader
-----------------------------------------------------------------------------
(* What the steps do to the lifetimes *)

LifePc == {"built", "release", "stop", "join"}

\* The lifetime task x holds, and what it holds it for, stay.
SameGrip(x) ==
  task[x].pc \in LifePc \/ task'[x].pc \in LifePc =>
    /\ task'[x].pc = task[x].pc
    /\ task'[x].life = task[x].life
    /\ task'[x].device = task[x].device

\* Task c goes on from one stage to another; the rest of the tasks stay.
Moves(c, from, to) ==
  /\ task[c].pc \in from /\ task'[c].pc = to
  /\ \A x \in Client \ {c} : SameGrip(x)

\* Task c builds a local Entry l; releases or gives up the one it built; stops
\* and joins the one it took.
Builds(c, l) ==
  /\ Moves(c, {"opened"}, "built")
  /\ phase[l] = "free"
  /\ phase' = [phase EXCEPT ![l] = "local"]
  /\ lifeDev' = [lifeDev EXCEPT ![l] = task'[c].device]
  /\ task'[c].life = l /\ task'[c].device \in Device
  /\ reader' = [reader EXCEPT ![l].at = "gated"]
  /\ io' = [io EXCEPT ![l] = "running"]
  /\ UNCHANGED <<devices, gate, published, relay>>

Installs(c, d, l) ==
  /\ Moves(c, {"built"}, "release")
  /\ task[c].life = l /\ task'[c].life = l
  /\ task[c].device = d /\ task'[c].device = d
  /\ opening[d] # None /\ opening[d].token = task[c].token /\ task'[c].token = task[c].token
  /\ devices[d] = None
  /\ devices' = [devices EXCEPT ![d] = l]
  /\ phase' = [phase EXCEPT ![l] = "installed"]
  /\ published' = published \cup {l}
  /\ UNCHANGED <<lifeDev, gate, threadVars, relay>>

GivesUp(c, l) ==
  /\ Moves(c, {"built"}, "stop")
  /\ task[c].life = l /\ task'[c].life = l
  /\ phase' = [phase EXCEPT ![l] = "detached"]
  /\ UNCHANGED <<devices, lifeDev, gate, published, threadVars, relay>>

\* The close of c takes the Entry of d out of the map.
TakesOut(c, d) ==
  /\ Moves(c, {"idle", "draining"}, "stop")
  /\ devices[d] # None /\ task'[c].life = devices[d]
  /\ RemoveEntry(d)
  /\ UNCHANGED <<threadVars, relay>>

Stops(c, l) ==
  /\ Moves(c, {"stop"}, "join")
  /\ task[c].life = l /\ task'[c].life = l
  /\ SignalStop(l)
  /\ UNCHANGED <<devices, threadVars, relay>>

LEMMA SameTaskGrip ==
  ASSUME NEW x \in Client, task'[x] = task[x]
  PROVE  SameGrip(x)
  BY DEF SameGrip

LEMMA OtherGrip ==
  ASSUME NEW x \in Client, task[x].pc \notin LifePc, task'[x].pc \notin LifePc
  PROVE  SameGrip(x)
  BY DEF SameGrip

LEMMA WokenGrip ==
  ASSUME NEW x \in Client, NEW token, task'[x] = Woken(task, token)[x], task \in [Client -> Task]
  PROVE  SameGrip(x)
  <1>1. CASE task[x].pc = "waiting" /\ task[x].waitOn = token
    <2>1. PICK k \in Task : k = task[x]
      OBVIOUS
    <2>2. task'[x] = [k EXCEPT !.pc = "woken", !.waitOn = None]
      BY <1>1, <2>1 DEF Woken
    <2>3. task'[x].pc = "woken"
      BY <2>1, <2>2 DEF Task
    <2> QED BY <1>1, <2>3, OtherGrip DEF LifePc
  <1>2. CASE ~(task[x].pc = "waiting" /\ task[x].waitOn = token)
    BY <1>2, SameTaskGrip DEF Woken
  <1> QED BY <1>1, <1>2

Quiet ==
  /\ UNCHANGED <<devices, lifeVars, threadVars, relay>>
  /\ \A x \in Client : SameGrip(x)

\* One task goes on outside the stages that hold a lifetime.
LEMMA QuietTask ==
  ASSUME task \in [Client -> Task], NEW c \in Client, NEW k \in Task,
         task' = [task EXCEPT ![c] = k], task[c].pc \notin LifePc, k.pc \notin LifePc
  PROVE  \A x \in Client : SameGrip(x)
  BY SameTaskGrip, OtherGrip

LEMMA QuietRequests ==
  ASSUME TypeInv, NEW c \in Client,
         Reserve(c) \/ Wake(c) \/ PhysicalOpen(c) \/ EndReservation(c) \/ NotifyWaiters(c)
         \/ SnapshotOwned(c) \/ Leave(c)
  PROVE  Quiet
  <1>1. task \in [Client -> Task]
    BY DEF TypeInv, TaskType
  <1>2. UNCHANGED <<devices, lifeVars, threadVars, relay>>
    BY DEF Reserve, Wake, PhysicalOpen, EndReservation, NotifyWaiters, SnapshotOwned, Leave,
           managerVars, relayVars
  <1>3. CASE NotifyWaiters(c)
    <2>1. Woken(task, task[c].token) \in [Client -> Task]
      BY WokenType DEF TypeInv
    <2>2. SameGrip(c)
      BY <1>3, <2>1, OtherGrip DEF NotifyWaiters, At, LifePc
    <2>3. ASSUME NEW x \in Client \ {c}
          PROVE  SameGrip(x)
      BY <1>1, <1>3, <2>1, WokenGrip DEF NotifyWaiters
    <2> QED BY <1>2, <2>2, <2>3 DEF Quiet
  <1>4. CASE ~NotifyWaiters(c)
    <2>1. \A x \in Client \ {c} : task'[x] = task[x]
      BY <1>1, <1>4 DEF Reserve, Wake, PhysicalOpen, EndReservation, SnapshotOwned, Leave
    <2>2. task[c].pc \notin LifePc
      BY <1>4 DEF Reserve, Wake, PhysicalOpen, EndReservation, SnapshotOwned, Leave, LifePc
    <2>3. task'[c].pc \notin LifePc
      <3> PICK k \in Task : k = task[c]
        BY <1>1
      <3>1. CASE Reserve(c) \/ Wake(c) \/ PhysicalOpen(c)
        BY <1>1, <3>1 DEF Reserve, Wake, PhysicalOpen, LifePc, At, Task
      <3>2. CASE EndReservation(c)
        BY <1>1, <3>2 DEF EndReservation, LifePc, At, Task
      <3>3. CASE SnapshotOwned(c) \/ Leave(c)
        BY <1>1, <3>3 DEF SnapshotOwned, Leave, LifePc, At, Task
      <3> QED BY <1>4, <3>1, <3>2, <3>3
    <2> QED BY <1>2, <2>1, <2>2, <2>3, SameTaskGrip, OtherGrip DEF Quiet
  <1> QED BY <1>3, <1>4

LEMMA QuietEnvironment ==
  ASSUME TypeInv,
         \/ \E c \in Client : Connect(c) \/ Disconnect(c) \/ RelayLagged(c)
         \/ \E c \in Client, d \in Device, t \in Token : Open(c, d, t)
         \/ \E c \in Client, t \in Token, mode \in Mode : SetDataplaneMode(c, t, mode)
         \/ \E d \in Device : HotplugRemove(d)
         \/ \E t \in Token, kind \in Transport : TransportConnect(t, kind)
         \/ \E k \in conns : TransportDisconnect(k)
  PROVE  Quiet
  <1>1. task \in [Client -> Task]
    BY DEF TypeInv, TaskType
  <1>2. ASSUME NEW c \in Client, Connect(c) \/ \E d \in Device, t \in Token : Open(c, d, t)
        PROVE  Quiet
    <2>1. \A x \in Client \ {c} : task'[x] = task[x]
      BY <1>1, <1>2 DEF Connect, Open
    <2>2. task[c].pc \notin LifePc /\ task'[c].pc \notin LifePc
      <3>1. CASE Connect(c)
        BY <1>1, <3>1 DEF Connect, At, LifePc
      <3>2. ASSUME NEW d \in Device, NEW t \in Token, Open(c, d, t)
            PROVE  task[c].pc = "idle" /\ task'[c].pc = "reserve"
        BY <1>1, <3>2 DEF Open, At
      <3> QED BY <1>2, <3>1, <3>2 DEF LifePc
    <2>3. UNCHANGED <<devices, lifeVars, threadVars, relay>>
      BY <1>2 DEF Connect, Open, managerVars, relayVars
    <2> QED BY <2>1, <2>2, <2>3, SameTaskGrip, OtherGrip DEF Quiet
  <1>3. ASSUME NEW c \in Client, Disconnect(c)
        PROVE  Quiet
    <2>1. \A x \in Client \ {c} : task'[x] = task[x]
      BY <1>1, <1>3 DEF Disconnect
    <2>2. task[c].pc \notin LifePc /\ task'[c].pc \notin LifePc
      BY <1>1, <1>3 DEF Disconnect, LifePc, Task
    <2>3. UNCHANGED <<devices, lifeVars, threadVars, relay>>
      BY <1>3 DEF Disconnect
    <2> QED BY <2>1, <2>2, <2>3, SameTaskGrip, OtherGrip DEF Quiet
  <1>4. ASSUME NEW k \in conns, TransportDisconnect(k)
        PROVE  UNCHANGED <<devices, lifeVars, threadVars, relay, task>>
    BY <1>4 DEF TransportDisconnect, managerVars, relayVars
  <1>5. ASSUME \/ \E c \in Client : RelayLagged(c)
               \/ \E c \in Client, t \in Token, mode \in Mode : SetDataplaneMode(c, t, mode)
               \/ \E d \in Device : HotplugRemove(d)
               \/ \E t \in Token, kind \in Transport : TransportConnect(t, kind)
        PROVE  UNCHANGED <<devices, lifeVars, threadVars, relay, task>>
    BY <1>5 DEF RelayLagged, SetDataplaneMode, HotplugRemove, TransportConnect, managerVars, relayVars
  <1>6. UNCHANGED <<devices, lifeVars, threadVars, relay, task>> => Quiet
    BY SameTaskGrip DEF Quiet
  <1> QED BY <1>2, <1>3, <1>4, <1>5, <1>6

LEMMA CheckCases ==
  ASSUME TypeInv, NEW c \in Client, NEW l \in Life, CheckReservation(c, l)
  PROVE  Quiet \/ Builds(c, l)
  <1>1. task \in [Client -> Task] /\ task[c].device \in Device
    BY DEF CheckReservation, TypeInv, TaskType, TaskShape, Shaped, OpeningPc
  <1> DEFINE build == ReservationCurrent(c) /\ devices[task[c].device] = None
  <1>2. CASE build
    <2>1. task' = [task EXCEPT ![c].pc = "built", ![c].life = l]
      BY <1>2 DEF CheckReservation
    <2>2. task'[c].pc = "built" /\ task'[c].life = l /\ task'[c].device = task[c].device
      BY <1>1, <2>1 DEF Task
    <2>3. Moves(c, {"opened"}, "built")
      <3>1. \A x \in Client \ {c} : task'[x] = task[x]
        BY <1>1, <2>1
      <3> QED BY <2>2, <3>1, SameTaskGrip DEF CheckReservation, Moves
    <2> QED BY <1>1, <1>2, <2>2, <2>3 DEF CheckReservation, Builds, managerVars, relayVars
  <1>3. CASE ~build
    <2>1. task' = [task EXCEPT ![c].pc = "abandon"]
      BY <1>3 DEF CheckReservation
    <2>2. \A x \in Client : SameGrip(x)
      <3>1. task[c].pc \notin LifePc /\ task'[c].pc \notin LifePc
        BY <1>1, <2>1 DEF CheckReservation, LifePc, Task
      <3>2. \A x \in Client \ {c} : task'[x] = task[x]
        BY <1>1, <2>1
      <3> QED BY <3>1, <3>2, SameTaskGrip, OtherGrip
    <2> QED BY <1>3, <2>2 DEF CheckReservation, Quiet, RegisterSession, lifeVars, threadVars, relayVars,
                              managerVars
  <1> QED BY <1>2, <1>3

\* Task c stops the lifetime it takes over before it goes on.
LEMMA ContinueMoves ==
  ASSUME NEW c \in Client, NEW tasks \in [Client -> Task], NEW entry \in Life,
         NEW here, task' = Continue(tasks, c, entry, here), task[c].pc \in {"built", "idle", "draining"},
         \A x \in Client \ {c} : tasks[x] = task[x]
  PROVE  Moves(c, {task[c].pc}, "stop") /\ task'[c].life = entry
  <1>1. entry # None
    OBVIOUS
  <1>2. PICK k \in Task : k = tasks[c]
    OBVIOUS
  <1>3. task' = [tasks EXCEPT ![c] = [k EXCEPT !.pc = "stop", !.life = entry, !.resume = here]]
    BY <1>1, <1>2 DEF Continue
  <1>4. task'[c].pc = "stop" /\ task'[c].life = entry
    BY <1>3 DEF Task
  <1>5. \A x \in Client \ {c} : task'[x] = task[x]
    BY <1>3
  <1> QED BY <1>4, <1>5, SameTaskGrip DEF Moves

LEMMA PublishCases ==
  ASSUME TypeInv, NEW c \in Client, Publish(c)
  PROVE  \E l \in Life : GivesUp(c, l) \/ \E d \in Device : Installs(c, d, l)
  <1>1. task \in [Client -> Task] /\ task[c].pc = "built"
    BY DEF Publish, TypeInv, TaskType
  <1>2. PICK l \in Life, d \in Device : l = task[c].life /\ d = task[c].device
    BY <1>1 DEF TypeInv, TaskType, TaskShape, Shaped, OpeningPc
  <1> DEFINE install == ReservationCurrent(c) /\ devices[d] = None
  <1>3. CASE install
    <2>1. task' = [task EXCEPT ![c].pc = "release"]
      BY <1>2, <1>3 DEF Publish
    <2>2. /\ task'[c].pc = "release" /\ task'[c].life = l
          /\ task'[c].device = d /\ task'[c].token = task[c].token
      BY <1>1, <1>2, <2>1 DEF Task
    <2>3. Moves(c, {"built"}, "release")
      <3>1. \A x \in Client \ {c} : task'[x] = task[x]
        BY <1>1, <2>1
      <3> QED BY <1>1, <2>2, <3>1, SameTaskGrip DEF Moves
    <2>4. Installs(c, d, l)
      BY <1>2, <1>3, <2>2, <2>3 DEF Publish, Installs, ReservationCurrent, relayVars
    <2> QED BY <2>4
  <1>4. CASE ~install
    <2>1. task' = Continue(task, c, l, "abandon") /\ UNCHANGED devices
      BY <1>2, <1>4 DEF Publish
    <2>2. Moves(c, {"built"}, "stop") /\ task'[c].life = l
      BY <1>1, <2>1, ContinueMoves
    <2>3. GivesUp(c, l)
      BY <1>2, <1>4, <2>1, <2>2 DEF Publish, GivesUp, relayVars
    <2> QED BY <2>3
  <1> QED BY <1>3, <1>4

LEMMA CloseLifeCases ==
  ASSUME TypeInv, SessionsStandOnEntry, NEW c \in Client, NEW t \in Token, Close(c, t) \/ DrainOne(c, t)
  PROVE  Quiet \/ \E d \in Device : TakesOut(c, d)
  <1>1. task \in [Client -> Task] /\ task[c].pc \in {"idle", "draining"}
    BY DEF Close, DrainOne, TypeInv, TaskType
  <1>2. ASSUME NEW tasks \in [Client -> Task], tasks[c].pc = task[c].pc,
               \A x \in Client \ {c} : tasks[x] = task[x], task' = tasks
        PROVE  \A x \in Client : SameGrip(x)
    BY <1>1, <1>2, SameTaskGrip, OtherGrip DEF LifePc
  <1>3. ASSUME NEW tasks \in [Client -> Task], tasks[c].pc = task[c].pc,
               \A x \in Client \ {c} : tasks[x] = task[x],
               NEW here \in {"idle", "draining"}, CloseSession(c, t, tasks, here),
               UNCHANGED <<threadVars, relayVars>>
        PROVE  Quiet \/ \E d \in Device : TakesOut(c, d)
    <2>1. PICK d \in Device : d = sessions[t].device
      BY <1>3 DEF CloseSession, Live, TypeInv, ManagerType, Session
    <2>2. PICK l \in Life : l = devices[d]
      BY <1>3, <2>1 DEF CloseSession, SessionsStandOnEntry, TypeInv, ManagerType
    <2>3. CASE SessionsOf(d) = {t}
      <3>1. RemoveEntry(d)
        BY <1>3, <2>1, <2>3 DEF CloseSession, RemoveEntry, InvalidateNmHot
      <3>2. task' = Continue(tasks, c, l, here)
        BY <1>3, <2>1, <2>2, <2>3 DEF CloseSession, Continue
      <3>3. Moves(c, {task[c].pc}, "stop") /\ task'[c].life = l
        BY <1>1, <1>3, <3>2, ContinueMoves
      <3>4. TakesOut(c, d)
        BY <1>1, <1>3, <2>2, <3>1, <3>3 DEF TakesOut, Moves, relayVars
      <3> QED BY <3>4
    <2>4. CASE SessionsOf(d) # {t}
      <3>1. UNCHANGED <<devices, lifeVars>> /\ task' = [tasks EXCEPT ![c].pc = here]
        BY <1>3, <2>1, <2>4 DEF CloseSession, Continue
      <3>2. task'[c].pc = here /\ \A x \in Client \ {c} : task'[x] = task[x]
        BY <1>3, <3>1 DEF Task
      <3>3. \A x \in Client : SameGrip(x)
        BY <1>1, <3>2, SameTaskGrip, OtherGrip DEF LifePc
      <3> QED BY <1>3, <3>1, <3>3 DEF Quiet, relayVars
    <2> QED BY <2>3, <2>4
  <1>4. CASE Close(c, t)
    BY <1>1, <1>3, <1>4 DEF Close
  <1>5. CASE DrainOne(c, t)
    <2> DEFINE listed == [task EXCEPT ![c].owned = @ \ {t}]
    <2>1. listed \in [Client -> Task] /\ listed[c].pc = task[c].pc
          /\ \A x \in Client \ {c} : listed[x] = task[x]
      <3>1. PICK k \in Task : k = task[c]
        BY <1>1
      <3>2. [k EXCEPT !.owned = @ \ {t}] \in Task /\ [k EXCEPT !.owned = @ \ {t}].pc = k.pc
        BY DEF Task
      <3>3. listed = [task EXCEPT ![c] = [k EXCEPT !.owned = @ \ {t}]]
        BY <3>1
      <3> QED BY <1>1, <3>1, <3>2, <3>3
    <2>2. \/ CloseSession(c, t, listed, "draining")
          \/ task' = listed /\ UNCHANGED <<managerVars, nmSinks, nonNm, lifeVars>>
      BY <1>5 DEF DrainOne
    <2>3. UNCHANGED <<threadVars, relayVars>>
      BY <1>5 DEF DrainOne
    <2> HIDE DEF listed
    <2>4. CASE CloseSession(c, t, listed, "draining")
      BY <1>3, <2>1, <2>3, <2>4
    <2>5. CASE task' = listed /\ UNCHANGED <<managerVars, nmSinks, nonNm, lifeVars>>
      BY <1>2, <2>1, <2>3, <2>5 DEF Quiet, managerVars, relayVars
    <2> QED BY <2>2, <2>4, <2>5
  <1> QED BY <1>4, <1>5

LEMMA StopCases ==
  ASSUME TypeInv, NEW c \in Client, StopEntry(c)
  PROVE  \E l \in Life : Stops(c, l)
  <1>1. task \in [Client -> Task] /\ task[c].pc = "stop"
    BY DEF StopEntry, TypeInv, TaskType
  <1>2. PICK l \in Life : l = task[c].life
    BY <1>1 DEF TypeInv, TaskType, TaskShape, Shaped
  <1>3. /\ task'[c].pc = "join" /\ task'[c].life = l
        /\ \A x \in Client \ {c} : task'[x] = task[x]
    BY <1>1, <1>2 DEF StopEntry, Task
  <1>4. Stops(c, l)
    BY <1>1, <1>2, <1>3, SameTaskGrip DEF StopEntry, Stops, Moves, SignalStop, managerVars, relayVars
  <1> QED BY <1>4

\* Every step is one of these for the lifetimes.
LEMMA LifeCases ==
  ASSUME TypeInv, SessionsStandOnEntry, [Next]_vars
  PROVE  \/ Quiet
         \/ \E c \in Client, l \in Life :
              Builds(c, l) \/ GivesUp(c, l) \/ Stops(c, l) \/ \E d \in Device : Installs(c, d, l)
         \/ \E c \in Client, d \in Device : TakesOut(c, d)
         \/ \E c \in Client : ReleaseReader(c) \/ JoinEntry(c) \/ RelayStep(c)
         \/ \E l \in Life : ReaderFails(l) \/ ReaderStep(l) \/ IoWorkerExits(l)
  <1>1. CASE UNCHANGED vars
    BY <1>1, SameTaskGrip DEF vars, managerVars, relayVars, Quiet
  <1>2. CASE Environment
    BY <1>2, QuietEnvironment, CloseLifeCases DEF Environment
  <1>3. ASSUME NEW c \in Client, RequestStep(c)
        PROVE  \/ Quiet
               \/ \E l \in Life : Builds(c, l) \/ GivesUp(c, l) \/ Stops(c, l)
                                  \/ \E d \in Device : Installs(c, d, l)
               \/ \E d \in Device : TakesOut(c, d)
               \/ ReleaseReader(c) \/ JoinEntry(c)
    BY <1>3, QuietRequests, CheckCases, PublishCases, StopCases, CloseLifeCases DEF RequestStep
  <1> QED BY <1>1, <1>2, <1>3 DEF Next
-----------------------------------------------------------------------------
(* Every lifetime keeps its keeper *)

LEMMA LifeTypes ==
  ASSUME TypeInv
  PROVE  /\ phase \in [Life -> {"free", "local", "installed", "detached", "stopping"}]
         /\ lifeDev \in [Life -> Device \cup {None}]
         /\ reader \in [Life -> Reader] /\ io \in [Life -> {"none", "running", "exited"}]
         /\ devices \in [Device -> Life \cup {None}]
         /\ task \in [Client -> Task] /\ relay \in [Client -> Relay]
         /\ gate \in SUBSET Life /\ published \in SUBSET Life
         /\ \A x \in Client : task[x].pc \in LifePc => task[x].life \in Life
         /\ \A x \in Client : relay[x].life \in Life \cup {None}
         /\ \A r \in Life : reader[r].at \in {"detached", "joining"} => reader[r].victim \in Life
  BY DEF TypeInv, LifeType, ThreadType, ManagerType, TaskType, TaskShape, Shaped, RelayType, ThreadShape,
         LifePc, Relay

\* Whoever may keep lifetime l still does: the task, relay or reader that holds
\* it, or the map; and its threads that are not there, or ended, stay so.
Undisturbed(l) ==
  /\ phase'[l] = phase[l] /\ lifeDev'[l] = lifeDev[l]
  /\ phase[l] = "free" => reader'[l].at = reader[l].at /\ io'[l] = io[l]
  /\ phase[l] = "installed" => devices'[lifeDev[l]] = devices[lifeDev[l]]
  /\ io[l] = "exited" => io'[l] = "exited"
  /\ \A x \in Client : task[x].pc \in LifePc /\ task[x].life = l => SameGrip(x)
  /\ \A x \in Client : relay[x].at # "idle" /\ relay[x].life = l =>
       relay'[x].at = relay[x].at /\ relay'[x].life = l
  /\ \A r \in Life : reader[r].at \in {"detached", "joining"} /\ reader[r].victim = l =>
       reader'[r].at = reader[r].at /\ reader'[r].victim = l

LEMMA StageStays ==
  ASSUME NEW l \in Life, Stage(l), Undisturbed(l)
  PROVE  Stage(l)'
  BY DEF Stage, Undisturbed, SameGrip, LifePc

\* The same, for steps after which whoever waited for the I/O worker of l may
\* be gone: then the worker has exited.
Held(l) ==
  /\ phase'[l] = phase[l] /\ lifeDev'[l] = lifeDev[l] /\ devices' = devices
  /\ phase[l] = "free" => reader'[l].at = reader[l].at /\ io'[l] = io[l]
  /\ io[l] = "exited" => io'[l] = "exited"
  /\ \A x \in Client : task[x].pc \in {"built", "stop", "join"} /\ task[x].life = l =>
       \/ task'[x].pc = task[x].pc /\ task'[x].life = l
       \/ task[x].pc = "join" /\ io'[l] = "exited"
  /\ \A x \in Client : relay[x].at # "idle" /\ relay[x].life = l =>
       \/ relay'[x].at = relay[x].at /\ relay'[x].life = l
       \/ relay[x].at = "join" /\ io'[l] = "exited"
  /\ \A r \in Life : reader[r].at \in {"detached", "joining"} /\ reader[r].victim = l =>
       \/ reader'[r].at = reader[r].at /\ reader'[r].victim = l
       \/ reader[r].at = "joining" /\ io'[l] = "exited"

LEMMA HeldStages ==
  ASSUME Stages, \A l \in Life : Held(l)
  PROVE  Stages'
  <1> SUFFICES ASSUME NEW l \in Life PROVE Stage(l)'
    BY DEF Stages
  <1>1. Stage(l) /\ Held(l)
    BY DEF Stages
  <1>2. phase'[l] \in {"free", "local", "installed"} =>
          /\ phase'[l] = "free" => reader'[l].at = "none" /\ io'[l] = "none"
          /\ phase'[l] = "local" => \E c \in Client : task'[c].pc = "built" /\ task'[c].life = l
          /\ phase'[l] = "installed" => lifeDev'[l] \in Device /\ devices'[lifeDev'[l]] = l
    <2>1. CASE phase[l] = "free"
      BY <1>1, <2>1 DEF Stage, Held
    <2>2. CASE phase[l] = "local"
      BY <1>1, <2>2 DEF Stage, Held
    <2>3. CASE phase[l] = "installed"
      BY <1>1, <2>3 DEF Stage, Held
    <2> QED BY <1>1, <2>1, <2>2, <2>3 DEF Held
  <1>3. phase'[l] = "detached" =>
          \/ \E c \in Client : task'[c].pc = "stop" /\ task'[c].life = l
          \/ \E c \in Client : relay'[c].at = "unlocked" /\ relay'[c].life = l
          \/ \E r \in Life : reader'[r].at = "detached" /\ reader'[r].victim = l
    BY <1>1 DEF Stage, Held
  <1>4. phase'[l] = "stopping" =>
          \/ io'[l] = "exited"
          \/ \E c \in Client : task'[c].pc = "join" /\ task'[c].life = l
          \/ \E c \in Client : relay'[c].at = "join" /\ relay'[c].life = l
          \/ \E r \in Life : reader'[r].at = "joining" /\ reader'[r].victim = l
    BY <1>1 DEF Stage, Held
  <1> QED BY <1>2, <1>3, <1>4 DEF Stage

LEMMA QuietLife ==
  ASSUME TypeInv, LifeInv, Quiet
  PROVE  LifeInv'
  <1>1. UNCHANGED <<devices, lifeVars, threadVars, relay>>
    BY DEF Quiet
  <1>2. \A x \in Client : SameGrip(x)
    BY DEF Quiet
  <1>3. Stages'
    <2>1. \A l \in Life : Held(l)
      BY <1>1, <1>2 DEF Held, SameGrip, LifePc, lifeVars, threadVars
    <2> QED BY <2>1, HeldStages DEF LifeInv
  <1>4. Published' /\ GatedReader'
    BY <1>1 DEF LifeInv, Published, GatedReader, lifeVars, threadVars
  <1>5. Built'
    BY <1>1, <1>2 DEF LifeInv, Built, SameGrip, LifePc, lifeVars
  <1>6. Taken'
    BY <1>1, <1>2 DEF LifeInv, Taken, SameGrip, LifePc, lifeVars, threadVars
  <1>7. Gates'
    BY <1>1, <1>2 DEF LifeInv, Gates, SameGrip, LifePc, lifeVars
  <1> QED BY <1>3, <1>4, <1>5, <1>6, <1>7 DEF LifeInv

LEMMA BuildsLife ==
  ASSUME TypeInv, LifeInv, NEW c \in Client, NEW l \in Life, Builds(c, l)
  PROVE  LifeInv'
  <1> USE DEF LifeInv
  <1> USE LifeTypes
  <1>2. /\ task[c].pc = "opened" /\ task'[c].pc = "built" /\ task'[c].life = l
        /\ \A x \in Client \ {c} : SameGrip(x)
    BY DEF Builds, Moves
  <1>3. /\ phase[l] = "free" /\ phase'[l] = "local" /\ lifeDev'[l] = task'[c].device
        /\ reader'[l].at = "gated" /\ reader'[l].victim = reader[l].victim
        /\ \A x \in Life \ {l} : /\ phase'[x] = phase[x] /\ lifeDev'[x] = lifeDev[x]
                                 /\ reader'[x] = reader[x] /\ io'[x] = io[x]
        /\ UNCHANGED <<devices, gate, published, relay>>
    BY DEF Builds, Reader
  <1>4. reader[l].at = "none"
    BY <1>3 DEF Stages, Stage
  <1>5. Stages'
    <2>1. Stage(l)'
      BY <1>2, <1>3 DEF Stage
    <2>2. ASSUME NEW x \in Life \ {l}
          PROVE  Stage(x)'
      <3>1. Stage(x) /\ Undisturbed(x)
        BY <1>2, <1>3, <1>4 DEF Stages, Undisturbed, LifePc
      <3> QED BY <3>1, StageStays
    <2> QED BY <2>1, <2>2 DEF Stages
  <1>6. Published' /\ GatedReader'
    BY <1>3 DEF Published, GatedReader
  <1>7. Built'
    BY <1>2, <1>3 DEF Built, SameGrip, LifePc
  <1>8. Taken'
    BY <1>2, <1>3, <1>4 DEF Taken, SameGrip, LifePc, Ending
  <1>9. Gates'
    BY <1>2, <1>3 DEF Gates, SameGrip, LifePc
  <1> QED BY <1>5, <1>6, <1>7, <1>8, <1>9

LEMMA InstallsLife ==
  ASSUME TypeInv, LifeInv, NEW c \in Client, NEW d \in Device, NEW l \in Life, Installs(c, d, l)
  PROVE  LifeInv'
  <1> USE LifeTypes DEF LifeInv
  <1>1. /\ task[c].pc = "built" /\ task[c].life = l
        /\ task'[c].pc = "release" /\ task'[c].life = l
        /\ \A x \in Client \ {c} : SameGrip(x)
    BY DEF Installs, Moves
  <1>2. phase[l] = "local" /\ lifeDev[l] = d
    BY <1>1 DEF Built, Installs
  <1>3. /\ devices[d] = None /\ devices'[d] = l
        /\ \A x \in Device \ {d} : devices'[x] = devices[x]
        /\ phase'[l] = "installed"
        /\ \A x \in Life \ {l} : phase'[x] = phase[x]
        /\ published' = published \cup {l}
        /\ UNCHANGED <<lifeDev, gate, reader, io, relay>>
    BY DEF Installs, threadVars
  <1>4. Stages'
    <2>1. Stage(l)'
      BY <1>2, <1>3 DEF Stages, Stage
    <2>2. ASSUME NEW x \in Life \ {l}
          PROVE  Stage(x)'
      <3>1. Stage(x)
        BY DEF Stages
      <3>2. phase[x] = "installed" => devices'[lifeDev[x]] = devices[lifeDev[x]]
        BY <1>3, <3>1 DEF Stage
      <3>3. Undisturbed(x)
        BY <1>1, <1>3, <3>2 DEF Undisturbed, LifePc
      <3> QED BY <3>1, <3>3, StageStays
    <2> QED BY <2>1, <2>2 DEF Stages
  <1>5. Published' /\ GatedReader'
    BY <1>2, <1>3 DEF Published, GatedReader
  <1>6. Built'
    BY <1>1, <1>2, <1>3 DEF Built, SameGrip, LifePc
  <1>7. Taken'
    BY <1>1, <1>2, <1>3 DEF Taken, SameGrip, LifePc, Ending
  <1>8. Gates'
    BY <1>1, <1>2, <1>3 DEF Gates, SameGrip, LifePc
  <1> QED BY <1>4, <1>5, <1>6, <1>7, <1>8

LEMMA GivesUpLife ==
  ASSUME TypeInv, LifeInv, NEW c \in Client, NEW l \in Life, GivesUp(c, l)
  PROVE  LifeInv'
  <1> USE LifeTypes DEF LifeInv
  <1>1. /\ task[c].pc = "built" /\ task[c].life = l
        /\ task'[c].pc = "stop" /\ task'[c].life = l
        /\ \A x \in Client \ {c} : SameGrip(x)
    BY DEF GivesUp, Moves
  <1>2. phase[l] = "local"
    BY <1>1 DEF Built
  <1>3. /\ phase'[l] = "detached"
        /\ \A x \in Life \ {l} : phase'[x] = phase[x]
        /\ UNCHANGED <<devices, lifeDev, gate, published, reader, io, relay>>
    BY DEF GivesUp, threadVars
  <1>4. Stages'
    <2>1. Stage(l)'
      BY <1>1, <1>3 DEF Stages, Stage
    <2>2. ASSUME NEW x \in Life \ {l}
          PROVE  Stage(x)'
      <3>1. Stage(x) /\ Undisturbed(x)
        BY <1>1, <1>3 DEF Stages, Undisturbed, LifePc
      <3> QED BY <3>1, StageStays
    <2> QED BY <2>1, <2>2 DEF Stages
  <1>5. Published' /\ GatedReader'
    BY <1>2, <1>3 DEF Published, GatedReader
  <1>6. Built'
    BY <1>1, <1>2, <1>3 DEF Built, SameGrip, LifePc
  <1>7. Taken'
    BY <1>1, <1>2, <1>3 DEF Taken, SameGrip, LifePc, Ending
  <1>8. Gates'
    BY <1>1, <1>2, <1>3 DEF Gates, SameGrip, LifePc
  <1> QED BY <1>4, <1>5, <1>6, <1>7, <1>8

LEMMA TakesOutLife ==
  ASSUME TypeInv, LifeInv, NEW c \in Client, NEW d \in Device, TakesOut(c, d)
  PROVE  LifeInv'
  <1> USE LifeTypes DEF LifeInv
  <1>1. PICK l \in Life : l = devices[d]
    BY DEF TakesOut
  <1>2. /\ task[c].pc \in {"idle", "draining"} /\ task'[c].pc = "stop" /\ task'[c].life = l
        /\ \A x \in Client \ {c} : SameGrip(x)
    BY <1>1 DEF TakesOut, Moves
  <1>3. phase[l] = "installed" /\ lifeDev[l] = d
    BY <1>1 DEF Published
  <1>4. /\ devices'[d] = None
        /\ \A x \in Device \ {d} : devices'[x] = devices[x]
        /\ phase'[l] = "detached"
        /\ \A x \in Life \ {l} : phase'[x] = phase[x]
        /\ UNCHANGED <<lifeDev, gate, published, reader, io, relay>>
    BY <1>1 DEF TakesOut, RemoveEntry, threadVars
  <1>5. Stages'
    <2>1. Stage(l)'
      BY <1>2, <1>4 DEF Stages, Stage
    <2>2. ASSUME NEW x \in Life \ {l}
          PROVE  Stage(x)'
      <3>1. Stage(x)
        BY DEF Stages
      <3>2. phase[x] = "installed" => devices'[lifeDev[x]] = devices[lifeDev[x]]
        BY <1>1, <1>4, <3>1 DEF Stage
      <3>3. Undisturbed(x)
        BY <1>2, <1>4, <3>2 DEF Undisturbed, LifePc
      <3> QED BY <3>1, <3>3, StageStays
    <2> QED BY <2>1, <2>2 DEF Stages
  <1>6. Published' /\ GatedReader'
    BY <1>1, <1>3, <1>4 DEF Published, GatedReader
  <1>7. Built'
    BY <1>2, <1>3, <1>4 DEF Built, SameGrip, LifePc
  <1>8. Taken'
    BY <1>2, <1>3, <1>4 DEF Taken, SameGrip, LifePc, Ending
  <1>9. Gates'
    BY <1>2, <1>3, <1>4 DEF Gates, SameGrip, LifePc
  <1> QED BY <1>5, <1>6, <1>7, <1>8, <1>9

LEMMA StopsLife ==
  ASSUME TypeInv, LifeInv, NEW c \in Client, NEW l \in Life, Stops(c, l)
  PROVE  LifeInv'
  <1> USE LifeTypes DEF LifeInv
  <1>1. /\ task[c].pc = "stop" /\ task[c].life = l
        /\ task'[c].pc = "join" /\ task'[c].life = l
        /\ \A x \in Client \ {c} : SameGrip(x)
    BY DEF Stops, Moves
  <1>2. phase[l] \in Ending
    BY <1>1 DEF Taken
  <1>3. /\ phase'[l] = "stopping"
        /\ \A x \in Life \ {l} : phase'[x] = phase[x]
        /\ gate' = gate \cup {l}
        /\ UNCHANGED <<devices, lifeDev, published, reader, io, relay>>
    BY DEF Stops, SignalStop, threadVars
  <1>4. Stages'
    <2>1. Stage(l)'
      BY <1>1, <1>3 DEF Stages, Stage
    <2>2. ASSUME NEW x \in Life \ {l}
          PROVE  Stage(x)'
      <3>1. Stage(x) /\ Undisturbed(x)
        BY <1>1, <1>3 DEF Stages, Undisturbed, LifePc
      <3> QED BY <3>1, StageStays
    <2> QED BY <2>1, <2>2 DEF Stages
  <1>5. Published' /\ GatedReader'
    BY <1>2, <1>3 DEF Published, GatedReader, Ending
  <1>6. Built'
    BY <1>1, <1>2, <1>3 DEF Built, SameGrip, LifePc, Ending
  <1>7. Taken'
    BY <1>1, <1>2, <1>3 DEF Taken, SameGrip, LifePc, Ending
  <1>8. Gates'
    BY <1>1, <1>2, <1>3 DEF Gates, SameGrip, LifePc
  <1> QED BY <1>4, <1>5, <1>6, <1>7, <1>8

LEMMA ReleaseReaderLife ==
  ASSUME TypeInv, LifeInv, NEW c \in Client, ReleaseReader(c)
  PROVE  LifeInv'
  <1> USE LifeTypes DEF LifeInv
  <1>1. PICK k \in Task : k = task[c]
    OBVIOUS
  <1>2. /\ task[c].pc = "release" /\ task'[c].pc = "abandon"
        /\ \A x \in Client \ {c} : task'[x] = task[x]
        /\ gate' = gate \cup {task[c].life}
        /\ UNCHANGED <<devices, phase, lifeDev, published, reader, io, relay>>
    BY <1>1 DEF ReleaseReader, threadVars, relayVars, managerVars, Task
  <1>3. Stages'
    <2>1. \A l \in Life : Held(l)
      BY <1>2 DEF Held
    <2> QED BY <2>1, HeldStages
  <1>4. Published' /\ GatedReader' /\ Built'
    BY <1>2 DEF Published, GatedReader, Built
  <1>5. Taken' /\ Gates'
    BY <1>2 DEF Taken, Gates
  <1> QED BY <1>3, <1>4, <1>5

LEMMA JoinEntryLife ==
  ASSUME TypeInv, LifeInv, NEW c \in Client, JoinEntry(c)
  PROVE  LifeInv'
  <1> USE LifeTypes DEF LifeInv
  <1>1. PICK k \in Task : k = task[c]
    OBVIOUS
  <1>2. /\ task[c].pc = "join" /\ task'[c].pc \in {"idle", "abandon", "draining"}
        /\ \A x \in Client \ {c} : task'[x] = task[x]
        /\ io[task[c].life] = "exited"
        /\ UNCHANGED <<devices, lifeVars, reader, io, relay>>
    <2>1. k.resume \in {"idle", "abandon", "draining"}
      BY <1>1 DEF JoinEntry, TypeInv, TaskType, TaskShape, Shaped
    <2>2. task'[c] = [k EXCEPT !.pc = k.resume, !.life = None, !.resume = "idle"]
      BY <1>1 DEF JoinEntry
    <2>3. task'[c].pc = k.resume
      BY <2>2 DEF Task
    <2> QED BY <2>1, <2>3 DEF JoinEntry, Exited, threadVars, relayVars, managerVars
  <1>3. Stages'
    <2>1. \A l \in Life : Held(l)
      BY <1>2 DEF Held, lifeVars
    <2> QED BY <2>1, HeldStages
  <1>4. Published' /\ GatedReader' /\ Built'
    BY <1>2 DEF Published, GatedReader, Built, lifeVars
  <1>5. Taken' /\ Gates'
    BY <1>2 DEF Taken, Gates, lifeVars
  <1> QED BY <1>3, <1>4, <1>5

\* A lifetime leaves the map, and a relay or a dead reader owns it.
LEMMA RemovedLife ==
  ASSUME TypeInv, LifeInv, NEW d \in Device, RemoveEntry(d),
         \A x \in Client : SameGrip(x), io' = io,
         \A x \in Client : relay[x].at # "idle" => relay'[x] = relay[x],
         \A r \in Life : reader'[r].at = reader[r].at \/ reader[r].at = "failing",
         \A r \in Life : reader[r].at \in {"detached", "joining"} => reader'[r] = reader[r],
         \A r \in Life : reader'[r].at \in {"reading", "failing", "detached", "joining"} =>
                           reader[r].at \in {"reading", "failing", "detached", "joining"},
         \A x \in Client : relay'[x] = relay[x] \/ relay'[x].life = devices[d],
         \A r \in Life : \/ reader'[r] = reader[r]
                         \/ devices[d] # None /\ reader'[r].victim = devices[d],
         devices[d] # None => \/ \E x \in Client : relay'[x].at = "unlocked" /\ relay'[x].life = devices[d]
                              \/ \E r \in Life : reader'[r].at = "detached" /\ reader'[r].victim = devices[d]
  PROVE  LifeInv'
  <1> USE LifeTypes DEF LifeInv
  <1>1. /\ devices'[d] = None
        /\ \A x \in Device \ {d} : devices'[x] = devices[x]
        /\ \A x \in Life : phase'[x] = IF x = devices[d] THEN "detached" ELSE phase[x]
        /\ UNCHANGED <<lifeDev, gate, published>>
    BY DEF RemoveEntry
  <1>2. devices[d] # None => phase[devices[d]] = "installed" /\ lifeDev[devices[d]] = d
    BY DEF Published
  <1>3. Stages'
    <2> SUFFICES ASSUME NEW l \in Life
                 PROVE  Stage(l)'
      BY DEF Stages
    <2>1. CASE l = devices[d]
      BY <1>1, <2>1 DEF Stage
    <2>2. CASE l # devices[d]
      <3>1. Stage(l)
        BY DEF Stages
      <3>2. phase[l] = "installed" => devices'[lifeDev[l]] = devices[lifeDev[l]]
        BY <1>1, <2>2, <3>1 DEF Stage
      <3>3. Undisturbed(l)
        BY <1>1, <2>2, <3>1, <3>2 DEF Undisturbed, Stage
      <3> QED BY <3>1, <3>3, StageStays
    <2> QED BY <2>1, <2>2
  <1>4. Published' /\ GatedReader'
    BY <1>1, <1>2 DEF Published, GatedReader
  <1>5. Built'
    BY <1>1, <1>2 DEF Built, SameGrip, LifePc
  <1>6. Taken'
    <2>1. \A x \in Client : task'[x].pc \in {"stop", "join"} => phase'[task'[x].life] \in Ending
      BY <1>1 DEF Taken, SameGrip, LifePc, Ending
    <2>2. \A x \in Client : relay'[x].at # "idle" /\ relay'[x].life # None => phase'[relay'[x].life] \in Ending
      BY <1>1 DEF Taken, Ending
    <2>3. \A r \in Life : reader'[r].at \in {"detached", "joining"} => phase'[reader'[r].victim] \in Ending
      BY <1>1 DEF Taken, Ending
    <2> QED BY <2>1, <2>2, <2>3 DEF Taken
  <1>7. Gates'
    BY <1>1, <1>2 DEF Gates, SameGrip, LifePc
  <1> QED BY <1>3, <1>4, <1>5, <1>6, <1>7

LEMMA ForceCloseLife ==
  ASSUME TypeInv, LifeInv, NEW c \in Client, ForceClose(c)
  PROVE  LifeInv'
  <1>1. PICK d \in Device : d = Head(inbox[c]).device
    BY HeadType DEF ForceClose, TypeInv, Event
  <1>2. RemoveEntry(d) /\ io' = io /\ reader' = reader
    BY <1>1 DEF ForceClose, DetachLifetime, RemoveEntry, InvalidateNmHot, threadVars
  <1>3. /\ relay[c].at = "idle"
        /\ relay'[c].at = "unlocked" /\ relay'[c].life = devices[d]
        /\ \A x \in Client \ {c} : relay'[x] = relay[x]
    BY <1>1, LifeTypes DEF ForceClose
  <1>4. ASSUME NEW x \in Client
        PROVE  SameGrip(x)
    <2>1. CASE task' = task
      BY <2>1, SameTaskGrip
    <2>2. CASE \E token : task' = Woken(task, token)
      BY <2>2, LifeTypes, WokenGrip
    <2> QED BY <2>1, <2>2 DEF ForceClose
  <1> QED BY <1>2, <1>3, <1>4, RemovedLife

LEMMA ReaderDetachesLife ==
  ASSUME TypeInv, LifeInv, NEW l \in Life, ReaderDetaches(l)
  PROVE  LifeInv'
  <1> USE LifeTypes
  <1>1. PICK d \in Device : d = lifeDev[l]
    BY DEF ReaderDetaches, TypeInv, ThreadShape
  <1>2. reader[l].at = "failing" /\ UNCHANGED <<io, task, relay>>
        /\ \A r \in Life \ {l} : reader'[r] = reader[r]
    BY DEF ReaderDetaches, relayVars
  <1>3. CASE devices[d] = None
    <2>1. reader'[l].at = "exited" /\ UNCHANGED <<devices, phase, lifeDev, gate, published>>
      BY <1>1, <1>3 DEF ReaderDetaches, Reader, managerVars, lifeVars
    <2>2. Stages'
      <3>0. Stage(l)
        BY DEF LifeInv, Stages
      <3>1. \A x \in Life : Held(x)
        BY <1>2, <2>1, <3>0 DEF Held, Stage
      <3> QED BY <3>1, HeldStages DEF LifeInv
    <2>3. Published' /\ GatedReader' /\ Built' /\ Gates'
      BY <1>2, <2>1 DEF LifeInv, Published, GatedReader, Built, Gates
    <2>4. Taken'
      BY <1>2, <2>1 DEF LifeInv, Taken
    <2> QED BY <2>2, <2>3, <2>4 DEF LifeInv
  <1>4. CASE devices[d] # None
    <2>1. RemoveEntry(d)
      BY <1>1, <1>4 DEF ReaderDetaches, DetachLifetime, RemoveEntry, InvalidateNmHot
    <2>2. reader'[l].at = "detached" /\ reader'[l].victim = devices[d]
      BY <1>1, <1>4 DEF ReaderDetaches
    <2>3. \A x \in Client : SameGrip(x)
      BY <1>2, SameTaskGrip
    <2> QED BY <1>2, <1>4, <2>1, <2>2, <2>3, RemovedLife
  <1> QED BY <1>3, <1>4

\* A relay or a dead reader signals the lifetime it owns.
LEMMA SignalledLife ==
  ASSUME TypeInv, LifeInv, NEW l \in Life, phase[l] \in Ending, SignalStop(l),
         UNCHANGED <<devices, io, task>>,
         \A x \in Client : \/ relay'[x] = relay[x]
                           \/ relay[x].life = l /\ relay'[x].at = "join" /\ relay'[x].life = l,
         \A r \in Life : \/ reader'[r] = reader[r]
                         \/ /\ reader[r].at = "detached" /\ reader[r].victim = l
                            /\ reader'[r].at = "joining" /\ reader'[r].victim = l,
         \/ \E x \in Client : relay'[x].at = "join" /\ relay'[x].life = l
         \/ \E r \in Life : reader'[r].at = "joining" /\ reader'[r].victim = l
  PROVE  LifeInv'
  <1> USE LifeTypes DEF LifeInv
  <1>1. /\ phase'[l] = "stopping" /\ \A x \in Life \ {l} : phase'[x] = phase[x]
        /\ gate' = gate \cup {l} /\ UNCHANGED <<lifeDev, published>>
    BY DEF SignalStop
  <1>2. Stages'
    <2>1. Stage(l)'
      BY <1>1 DEF Stage
    <2>2. ASSUME NEW x \in Life \ {l}
          PROVE  Stage(x)'
      <3>1. Stage(x)
        BY DEF Stages
      <3>2. Undisturbed(x)
        BY <1>1, <3>1, SameTaskGrip DEF Undisturbed, Stage
      <3> QED BY <3>1, <3>2, StageStays
    <2> QED BY <2>1, <2>2 DEF Stages
  <1>3. Published' /\ GatedReader'
    BY <1>1 DEF Published, GatedReader, Ending
  <1>4. Built' /\ Gates'
    BY <1>1 DEF Built, Gates, LifePc, Ending
  <1>5. Taken'
    <2>1. \A x \in Client : task'[x].pc \in {"stop", "join"} => phase'[task'[x].life] \in Ending
      BY <1>1 DEF Taken, LifePc, Ending
    <2>2. \A x \in Client : relay'[x].at # "idle" /\ relay'[x].life # None => phase'[relay'[x].life] \in Ending
      BY <1>1 DEF Taken, Ending
    <2>3. \A r \in Life : reader'[r].at \in {"detached", "joining"} => phase'[reader'[r].victim] \in Ending
      BY <1>1 DEF Taken, Ending
    <2> QED BY <2>1, <2>2, <2>3 DEF Taken
  <1> QED BY <1>2, <1>3, <1>4, <1>5

LEMMA ForceCloseStopLife ==
  ASSUME TypeInv, LifeInv, NEW c \in Client, ForceCloseStop(c)
  PROVE  LifeInv'
  <1> USE LifeTypes
  <1>1. relay[c].at = "unlocked" /\ UNCHANGED <<devices, reader, io, task>>
        /\ \A x \in Client \ {c} : relay'[x] = relay[x]
    BY DEF ForceCloseStop, managerVars, threadVars
  <1>2. CASE relay[c].life = None
    <2>1. relay'[c] = Resting /\ UNCHANGED <<phase, lifeDev, gate, published>>
      BY <1>2 DEF ForceCloseStop, lifeVars
    <2>2. Stages'
      <3>1. \A x \in Life : Held(x)
        BY <1>1, <1>2, <2>1 DEF Held, Resting
      <3> QED BY <3>1, HeldStages DEF LifeInv
    <2>3. Published' /\ GatedReader' /\ Built' /\ Gates'
      BY <1>1, <2>1 DEF LifeInv, Published, GatedReader, Built, Gates
    <2>4. Taken'
      BY <1>1, <2>1 DEF LifeInv, Taken, Resting
    <2> QED BY <2>2, <2>3, <2>4 DEF LifeInv
  <1>3. CASE relay[c].life # None
    <2>1. PICK l \in Life : l = relay[c].life
      BY <1>3
    <2>2. SignalStop(l)
      BY <1>3, <2>1 DEF ForceCloseStop, SignalStop
    <2>3. relay'[c].at = "join" /\ relay'[c].life = l
      <3>1. relay[c] \in Relay
        OBVIOUS
      <3> QED BY <1>3, <2>1, <3>1 DEF ForceCloseStop, Relay
    <2>4. phase[l] \in Ending
      BY <1>1, <1>3, <2>1 DEF LifeInv, Taken
    <2> QED BY <1>1, <2>1, <2>2, <2>3, <2>4, SignalledLife
  <1> QED BY <1>2, <1>3

LEMMA ReaderStopsIoLife ==
  ASSUME TypeInv, LifeInv, NEW l \in Life, ReaderStopsIo(l)
  PROVE  LifeInv'
  <1> USE LifeTypes
  <1>1. PICK v \in Life : v = reader[l].victim
    BY DEF ReaderStopsIo
  <1>2. SignalStop(v) /\ reader[l].at = "detached"
    BY <1>1 DEF ReaderStopsIo, SignalStop
  <1>3. reader'[l].at = "joining" /\ reader'[l].victim = v /\ \A r \in Life \ {l} : reader'[r] = reader[r]
    BY <1>1 DEF ReaderStopsIo, Reader
  <1>4. phase[v] \in Ending
    BY <1>1, <1>2 DEF LifeInv, Taken
  <1> QED BY <1>1, <1>2, <1>3, <1>4, SignalledLife DEF ReaderStopsIo, managerVars, relayVars

\* Threads and relays that go on, past the gate, into a failed read or to
\* their end, with the I/O workers they joined exited.
LEMMA ThreadsLife ==
  ASSUME TypeInv, LifeInv,
         \/ \E c \in Client : ForceCloseJoin(c)
         \/ \E l \in Life : ReaderFails(l) \/ ReaderPasses(l) \/ ReaderStops(l) \/ ReaderAnnounces(l)
                            \/ IoWorkerExits(l)
  PROVE  LifeInv'
  <1> USE LifeTypes
  <1>1. UNCHANGED <<devices, phase, lifeDev, gate, published, task>>
    BY DEF ForceCloseJoin, ReaderFails, ReaderPasses, ReaderStops, ReaderAnnounces, IoWorkerExits,
           managerVars, lifeVars
  <1>2. Published' /\ Built' /\ Gates'
    BY <1>1 DEF LifeInv, Published, Built, Gates
  <1>3. ASSUME NEW c \in Client, ForceCloseJoin(c)
        PROVE  LifeInv'
    <2>1. relay'[c].at = "idle" /\ relay[c].at = "join" /\ io[relay[c].life] = "exited"
          /\ UNCHANGED <<reader, io>> /\ \A x \in Client \ {c} : relay'[x] = relay[x]
      BY <1>3 DEF ForceCloseJoin, Exited, Resting, threadVars
    <2>2. Stages'
      <3>1. \A x \in Life : Held(x)
        BY <1>1, <2>1 DEF Held
      <3> QED BY <3>1, HeldStages DEF LifeInv
    <2>3. Taken' /\ GatedReader'
      BY <1>1, <2>1 DEF LifeInv, Taken, GatedReader
    <2> QED BY <1>2, <2>2, <2>3 DEF LifeInv
  <1>4. ASSUME NEW l \in Life, IoWorkerExits(l)
        PROVE  LifeInv'
    <2>1. io[l] = "running" /\ io'[l] = "exited" /\ UNCHANGED <<reader, relay>>
          /\ \A x \in Life \ {l} : io'[x] = io[x]
      BY <1>4 DEF IoWorkerExits, relayVars
    <2>2. Stages'
      <3>0. Stage(l)
        BY DEF LifeInv, Stages
      <3>1. \A x \in Life : Held(x)
        BY <1>1, <2>1, <3>0 DEF Held, Stage
      <3> QED BY <3>1, HeldStages DEF LifeInv
    <2>3. Taken' /\ GatedReader'
      BY <1>1, <2>1 DEF LifeInv, Taken, GatedReader
    <2> QED BY <1>2, <2>2, <2>3 DEF LifeInv
  <1>5. ASSUME NEW l \in Life, ReaderFails(l) \/ ReaderPasses(l) \/ ReaderStops(l) \/ ReaderAnnounces(l)
        PROVE  LifeInv'
    <2>1. /\ UNCHANGED <<io, relay>> /\ \A x \in Life \ {l} : reader'[x] = reader[x]
          /\ reader[l].at # "none" /\ reader'[l].at \in {"reading", "failing", "exited"}
      BY <1>5 DEF ReaderFails, ReaderPasses, ReaderStops, ReaderAnnounces, relayVars, Reader
    <2>2. reader[l].at \in {"detached", "joining"} => reader[l].at = "joining" /\ io[reader[l].victim] = "exited"
      BY <1>5 DEF ReaderFails, ReaderPasses, ReaderStops, ReaderAnnounces
    <2>3. reader'[l].at \in {"reading", "failing"} => l \in published
      <3>1. CASE ReaderPasses(l)
        BY <3>1 DEF LifeInv, Gates, ReaderPasses, Reader
      <3>2. CASE reader[l].at = "reading"
        BY <3>2 DEF LifeInv, GatedReader
      <3>3. CASE ReaderAnnounces(l)
        BY <3>3 DEF ReaderAnnounces
      <3> QED BY <1>5, <3>1, <3>2, <3>3 DEF ReaderFails, ReaderStops
    <2>4. Stages'
      <3>0. Stage(l)
        BY DEF LifeInv, Stages
      <3>1. \A x \in Life : Held(x)
        BY <1>1, <2>1, <2>2, <3>0 DEF Held, Stage
      <3> QED BY <3>1, HeldStages DEF LifeInv
    <2>5. Taken'
      BY <1>1, <2>1 DEF LifeInv, Taken
    <2>6. GatedReader'
      BY <1>1, <2>1, <2>3 DEF LifeInv, GatedReader
    <2> QED BY <1>2, <2>4, <2>5, <2>6 DEF LifeInv
  <1> QED BY <1>3, <1>4, <1>5

LEMMA LifeInit == Init => LifeInv
  BY DEF Init, LifeInv, Stages, Stage, Published, Built, Taken, Gates, GatedReader, At, Resting

LEMMA LifeStep == TypeInv /\ SessionInv /\ LifeInv /\ [Next]_vars => LifeInv'
  <1> SUFFICES ASSUME TypeInv, SessionInv, LifeInv, [Next]_vars
               PROVE  LifeInv'
    OBVIOUS
  <1>1. SessionsStandOnEntry
    BY DEF SessionInv
  <1>2. ASSUME NEW l \in Life, ReaderStep(l)
        PROVE  LifeInv'
    BY <1>2, ThreadsLife, ReaderDetachesLife, ReaderStopsIoLife DEF ReaderStep
  <1>3. ASSUME NEW c \in Client, RelayStep(c)
        PROVE  LifeInv'
    BY <1>3, ThreadsLife, ForceCloseLife, ForceCloseStopLife DEF RelayStep
  <1> QED BY <1>1, <1>2, <1>3, LifeCases, QuietLife, BuildsLife, GivesUpLife, StopsLife, InstallsLife,
             TakesOutLife, ReleaseReaderLife, JoinEntryLife, ThreadsLife

\* Every lifetime has its keeper at every stage.
THEOREM LifeInvHolds == Spec => []LifeInv
  <1>1. Init => LifeInv
    BY LifeInit
  <1> QED BY <1>1, LifeStep, SessionInvHolds, PTL DEF Spec

\* No reader or I/O worker of a lifetime is forgotten, whoever took its Entry
\* out of the map, and no reader touches the HID handle before its Entry is
\* published.
THEOREM ThreadsAreWatched == Spec => []ThreadsFollowLifetimes
  <1>1. TypeInv /\ LifeInv => ThreadsFollowLifetimes
    <2> SUFFICES ASSUME TypeInv, LifeInv
                 PROVE  ThreadsFollowLifetimes
      OBVIOUS
    <2>1. ASSUME NEW l \in Life
          PROVE  \/ phase[l] = "installed" /\ devices[lifeDev[l]] = l
                 \/ Responsible(l)
                 \/ io[l] \in {"none", "exited"} /\ (reader[l].at \in {"none", "exited"} \/ phase[l] = "stopping")
      <3>1. phase[l] \in {"free", "local", "installed", "detached", "stopping"}
        BY LifeTypes
      <3>2. Stage(l)
        BY DEF LifeInv, Stages
      <3> QED BY <3>1, <3>2 DEF Stage, Responsible
    <2> QED BY <2>1 DEF ThreadsFollowLifetimes, NoOrphanThread, LifeInv
  <1> QED BY <1>1, LifeInvHolds, SessionInvHolds, PTL
-----------------------------------------------------------------------------
(* The reservation of a device belongs to the open that is opening it *)

\* The stages of an open that made a reservation, until it withdraws it.
Opener(k) ==
  \/ k.pc \in {"opening", "opened", "built", "release", "abandon"}
  \/ k.pc \in {"stop", "join"} /\ k.resume = "abandon"

OpenersStay ==
  \A d \in Device : opening[d] # None =>
    \E c \in Client :
      /\ Opener(task[c]) /\ task[c].token = opening[d].token /\ task[c].device = d
      /\ devices[d] # None => task[c].pc \in {"release", "abandon"} /\ task[c].life \in published

\* An open that made a reservation goes on with it.
GoesOn(x) ==
  Opener(task[x]) =>
    /\ Opener(task'[x]) /\ task'[x].token = task[x].token /\ task'[x].device = task[x].device
    /\ task[x].pc \in {"release", "abandon"} =>
         task'[x].pc \in {"release", "abandon"} /\ task'[x].life = task[x].life

LEMMA SameTaskGoesOn ==
  ASSUME NEW x \in Client, task'[x] = task[x] \/ ~Opener(task[x])
  PROVE  GoesOn(x)
  BY DEF GoesOn

LEMMA OpenGoesOn ==
  ASSUME TypeInv, NEW c \in Client,
         PhysicalOpen(c) \/ ReleaseReader(c) \/ Publish(c) \/ \E l \in Life : CheckReservation(c, l)
  PROVE  GoesOn(c)
  <1>1. PICK k \in Task : k = task[c]
    BY LifeTypes
  <1>2. CASE PhysicalOpen(c) \/ ReleaseReader(c)
    BY <1>1, <1>2, LifeTypes DEF PhysicalOpen, ReleaseReader, GoesOn, Opener, Task
  <1>3. CASE \E l \in Life : CheckReservation(c, l)
    <2>1. PICK l \in Life : CheckReservation(c, l)
      BY <1>3
    <2>2. \/ task' = [task EXCEPT ![c].pc = "built", ![c].life = l]
          \/ task' = [task EXCEPT ![c].pc = "abandon"]
      BY <2>1 DEF CheckReservation
    <2>3. task'[c].pc \in {"built", "abandon"} /\ task'[c].token = k.token /\ task'[c].device = k.device
      BY <1>1, <2>2, LifeTypes DEF Task
    <2> QED BY <1>1, <2>1, <2>3 DEF CheckReservation, GoesOn, Opener
  <1>4. CASE Publish(c)
    <2>1. CASE task' = [task EXCEPT ![c].pc = "release"]
      <3>1. task'[c].pc = "release" /\ task'[c].token = k.token /\ task'[c].device = k.device
        BY <1>1, <2>1, LifeTypes DEF Task
      <3> QED BY <1>1, <1>4, <3>1 DEF Publish, GoesOn, Opener
    <2>2. CASE task' = Continue(task, c, task[c].life, "abandon")
      <3>1. \/ task'[c] = [k EXCEPT !.pc = "abandon"]
            \/ task'[c] = [k EXCEPT !.pc = "stop", !.life = k.life, !.resume = "abandon"]
        BY <1>1, <2>2, LifeTypes DEF Continue
      <3>2. /\ task'[c].pc = "abandon" \/ (task'[c].pc = "stop" /\ task'[c].resume = "abandon")
            /\ task'[c].token = k.token /\ task'[c].device = k.device
        BY <1>1, <3>1 DEF Task
      <3> QED BY <1>1, <1>4, <3>2 DEF Publish, GoesOn, Opener
    <2> QED BY <1>4, <2>1, <2>2 DEF Publish
  <1> QED BY <1>2, <1>3, <1>4

LEMMA StopGoesOn ==
  ASSUME TypeInv, NEW c \in Client, StopEntry(c) \/ JoinEntry(c)
  PROVE  GoesOn(c)
  <1>1. PICK k \in Task : k = task[c]
    BY LifeTypes
  <1>2. CASE StopEntry(c)
    BY <1>1, <1>2, LifeTypes DEF StopEntry, GoesOn, Opener, Task
  <1>3. CASE JoinEntry(c)
    <2>1. task'[c] = [k EXCEPT !.pc = k.resume, !.life = None, !.resume = "idle"]
      BY <1>1, <1>3, LifeTypes DEF JoinEntry
    <2>2. task'[c].pc = k.resume /\ task'[c].token = k.token /\ task'[c].device = k.device
      BY <2>1 DEF Task
    <2> QED BY <1>1, <1>3, <2>2 DEF JoinEntry, GoesOn, Opener
  <1> QED BY <1>2, <1>3

\* Only the end of its reservation ends an opener.
LEMMA OpenerCases ==
  ASSUME TypeInv, [Next]_vars, NEW x \in Client
  PROVE  GoesOn(x) \/ EndReservation(x)
  <1> USE LifeTypes
  <1>1. ASSUME NEW token, task'[x] = Woken(task, token)[x]
        PROVE  GoesOn(x)
    BY <1>1, SameTaskGoesOn DEF Woken, Opener
  <1>2. ASSUME NEW c \in Client, RequestStep(c)
        PROVE  GoesOn(x) \/ EndReservation(x)
    <2>1. CASE x = c
      <3>1. ASSUME ~(PhysicalOpen(c) \/ ReleaseReader(c) \/ Publish(c) \/ StopEntry(c) \/ JoinEntry(c)
                     \/ EndReservation(c)),
                   \A l \in Life : ~CheckReservation(c, l)
            PROVE  ~Opener(task[c])
        BY <1>2, <3>1 DEF RequestStep, Reserve, Wake, NotifyWaiters, SnapshotOwned, Leave, DrainOne, Opener
      <3> QED BY <1>2, <2>1, <3>1, OpenGoesOn, StopGoesOn, SameTaskGoesOn
    <2>2. CASE x # c
      <3>1. ASSUME NotifyWaiters(c)
            PROVE  GoesOn(x)
        <4>1. Woken(task, task[c].token) \in [Client -> Task]
          BY WokenType DEF TypeInv
        <4> QED BY <1>1, <2>2, <3>1, <4>1 DEF NotifyWaiters
      <3>2. ASSUME NEW t \in Token, DrainOne(c, t)
            PROVE  task'[x] = task[x]
        BY <2>2, <3>2 DEF DrainOne, CloseSession, Continue
      <3>3. ASSUME Publish(c)
            PROVE  task'[x] = task[x]
        BY <2>2, <3>3 DEF Publish, Continue
      <3>4. ASSUME \/ Reserve(c) \/ Wake(c) \/ PhysicalOpen(c) \/ ReleaseReader(c) \/ EndReservation(c)
                   \/ StopEntry(c) \/ JoinEntry(c) \/ SnapshotOwned(c) \/ Leave(c)
                   \/ \E l \in Life : CheckReservation(c, l)
            PROVE  task'[x] = task[x]
        BY <2>2, <3>4 DEF Reserve, Wake, PhysicalOpen, ReleaseReader, EndReservation, StopEntry, JoinEntry,
                          SnapshotOwned, Leave, CheckReservation
      <3> QED BY <1>2, <3>1, <3>2, <3>3, <3>4, SameTaskGoesOn DEF RequestStep
    <2> QED BY <2>1, <2>2
  <1>3. ASSUME NEW c \in Client, RelayStep(c)
        PROVE  GoesOn(x)
    BY <1>1, <1>3, SameTaskGoesOn DEF RelayStep, ForceClose, ForceCloseStop, ForceCloseJoin
  <1>4. ASSUME NEW l \in Life, ReaderStep(l) \/ IoWorkerExits(l)
        PROVE  UNCHANGED task
    BY <1>4 DEF ReaderStep, ReaderPasses, ReaderStops, ReaderDetaches, ReaderStopsIo, ReaderAnnounces,
                IoWorkerExits
  <1>5. CASE Environment
    <2>1. ASSUME NEW c \in Client,
                 Connect(c) \/ Disconnect(c) \/ (\E d \in Device, t \in Token : Open(c, d, t))
                 \/ \E t \in Token : Close(c, t)
          PROVE  GoesOn(x)
      <3>1. CASE x = c
        BY <2>1, <3>1, SameTaskGoesOn DEF Connect, Disconnect, Open, Close, Opener
      <3>2. CASE x # c
        BY <2>1, <3>2, SameTaskGoesOn DEF Connect, Disconnect, Open, Close, CloseSession, Continue
      <3> QED BY <3>1, <3>2
    <2>2. ASSUME \/ \E c \in Client : RelayLagged(c)
                 \/ \E c \in Client, t \in Token, mode \in Mode : SetDataplaneMode(c, t, mode)
                 \/ \E d \in Device : HotplugRemove(d)
                 \/ \E l \in Life : ReaderFails(l)
                 \/ \E t \in Token, kind \in Transport : TransportConnect(t, kind)
                 \/ \E k \in conns : TransportDisconnect(k)
          PROVE  UNCHANGED task
      BY <2>2 DEF RelayLagged, SetDataplaneMode, HotplugRemove, ReaderFails, TransportConnect,
                  TransportDisconnect
    <2> QED BY <1>5, <2>1, <2>2, SameTaskGoesOn DEF Environment
  <1>6. CASE UNCHANGED vars
    BY <1>6, SameTaskGoesOn DEF vars
  <1> QED BY <1>2, <1>3, <1>4, <1>5, <1>6, SameTaskGoesOn DEF Next

\* A reservation is the one that stood before, or a new one of a device without
\* an Entry.
LEMMA ReservedCases ==
  ASSUME TypeInv, [Next]_vars, NEW d \in Device, opening'[d] # None
  PROVE  \/ opening[d] # None /\ opening'[d].token = opening[d].token
         \/ \E c \in Client : /\ Reserve(c) /\ devices'[d] = None
                              /\ task'[c].pc = "opening" /\ task'[c].device = d
                              /\ task'[c].token = opening'[d].token
  <1>1. opening \in [Device -> Reservation \cup {None}] /\ task \in [Client -> Task]
    BY DEF TypeInv, RestType, TaskType
  <1>2. ASSUME NEW c \in Client, Reserve(c), opening'[d] # opening[d]
        PROVE  /\ devices'[d] = None
               /\ task'[c].pc = "opening" /\ task'[c].device = d
               /\ task'[c].token = opening'[d].token
    <2>1. /\ opening' = [opening EXCEPT ![task[c].device] = [token |-> task[c].token, invalidated |-> FALSE]]
          /\ task' = [task EXCEPT ![c].pc = "opening"]
          /\ devices[task[c].device] = None /\ UNCHANGED devices
      BY <1>2 DEF Reserve
    <2>2. task[c].device = d /\ opening'[d].token = task[c].token
      BY <1>1, <1>2, <2>1
    <2>3. task'[c].pc = "opening" /\ task'[c].device = task[c].device /\ task'[c].token = task[c].token
      BY <1>1, <2>1 DEF Task
    <2> QED BY <2>1, <2>2, <2>3
  <1>3. ASSUME NEW c \in Client, EndReservation(c)
        PROVE  opening'[d] = opening[d]
    BY <1>1, <1>3 DEF EndReservation
  <1>4. ASSUME NEW c \in Client, ForceClose(c)
        PROVE  opening[d] # None /\ opening'[d].token = opening[d].token
    <2>1. CASE opening'[d] = opening[d]
      BY <2>1
    <2>2. CASE opening'[d] # opening[d]
      <3>1. /\ opening[Head(inbox[c]).device] # None
            /\ opening' = [opening EXCEPT ![Head(inbox[c]).device].invalidated = TRUE]
        BY <1>4, <2>2 DEF ForceClose
      <3>2. d = Head(inbox[c]).device
        BY <1>1, <2>2, <3>1
      <3> QED BY <1>1, <3>1, <3>2 DEF Reservation
    <2> QED BY <2>1, <2>2
  <1>5. ASSUME Environment
        PROVE  UNCHANGED opening
    BY <1>5 DEF Environment, Connect, Disconnect, RelayLagged, Open, Close, SetDataplaneMode,
                HotplugRemove, ReaderFails, TransportConnect, TransportDisconnect
  <1>6. ASSUME NEW c \in Client, RequestStep(c), ~Reserve(c)
        PROVE  opening'[d] = opening[d]
    BY <1>3, <1>6 DEF RequestStep, Wake, PhysicalOpen, Publish, ReleaseReader, NotifyWaiters,
       StopEntry, JoinEntry, SnapshotOwned, Leave, CheckReservation, DrainOne
  <1>7. ASSUME NEW l \in Life, ReaderStep(l) \/ IoWorkerExits(l)
        PROVE  UNCHANGED opening
    BY <1>7 DEF ReaderStep, ReaderPasses, ReaderStops, ReaderDetaches, ReaderStopsIo, ReaderAnnounces,
                IoWorkerExits
  <1> QED BY <1>2, <1>4, <1>5, <1>6, <1>7 DEF Next, vars, RelayStep, ForceCloseStop, ForceCloseJoin

\* An Entry stays, or appears by the open that holds the reservation.
LEMMA AppearCases ==
  ASSUME TypeInv, SessionsStandOnEntry, [Next]_vars, NEW d \in Device
  PROVE  /\ published \subseteq published'
         /\ \/ devices'[d] \in {devices[d], None}
            \/ \E c \in Client, l \in Life : Installs(c, d, l) /\ l \in published'
  <1> USE LifeTypes
  <1>1. ASSUME NEW x \in Device, RemoveEntry(x)
        PROVE  devices'[d] \in {devices[d], None} /\ published' = published
    BY <1>1 DEF RemoveEntry
  <1>2. ASSUME NEW c \in Client, NEW x \in Device, NEW l \in Life, Installs(c, x, l)
        PROVE  published \subseteq published' /\ l \in published' /\ (x # d => devices'[d] = devices[d])
    BY <1>2 DEF Installs
  <1>3. ASSUME NEW l \in Life, SignalStop(l)
        PROVE  published' = published
    BY <1>3 DEF SignalStop
  <1>4. ASSUME NEW c \in Client, RelayStep(c)
        PROVE  devices'[d] \in {devices[d], None} /\ published' = published
    <2>1. CASE ForceClose(c)
      <3>1. PICK x \in Device : x = Head(inbox[c]).device
        BY <2>1, HeadType DEF ForceClose, TypeInv, Event
      <3>2. RemoveEntry(x)
        BY <2>1, <3>1 DEF ForceClose, DetachLifetime, RemoveEntry, InvalidateNmHot
      <3> QED BY <1>1, <3>2
    <2>2. CASE ForceCloseStop(c) \/ ForceCloseJoin(c)
      BY <2>2 DEF ForceCloseStop, ForceCloseJoin, SignalStop, managerVars, lifeVars
    <2> QED BY <1>4, <2>1, <2>2 DEF RelayStep
  <1>5. ASSUME NEW l \in Life, ReaderFails(l) \/ ReaderStep(l) \/ IoWorkerExits(l)
        PROVE  devices'[d] \in {devices[d], None} /\ published' = published
    <2>1. CASE ReaderDetaches(l)
      <3>1. PICK x \in Device : x = lifeDev[l]
        BY <2>1 DEF ReaderDetaches, TypeInv, ThreadShape
      <3>2. RemoveEntry(x) \/ UNCHANGED <<devices, published>>
        BY <2>1, <3>1 DEF ReaderDetaches, DetachLifetime, RemoveEntry, InvalidateNmHot, managerVars, lifeVars
      <3> QED BY <1>1, <3>2
    <2>2. CASE ~ReaderDetaches(l)
      BY <1>5, <2>2 DEF ReaderStep, ReaderFails, ReaderPasses, ReaderStops, ReaderStopsIo, ReaderAnnounces,
                        IoWorkerExits, SignalStop, managerVars, lifeVars
    <2> QED BY <2>1, <2>2
  <1>6. ASSUME NEW c \in Client, ReleaseReader(c) \/ JoinEntry(c)
        PROVE  devices'[d] = devices[d] /\ published' = published
    BY <1>6 DEF ReleaseReader, JoinEntry, managerVars, lifeVars
  <1> QED BY <1>1, <1>2, <1>3, <1>4, <1>5, <1>6, LifeCases
          DEF Quiet, Builds, GivesUp, Stops, TakesOut, lifeVars

LEMMA OpenersInit == Init => OpenersStay
  BY DEF Init, OpenersStay

LEMMA OpenersStep == TypeInv /\ SessionInv /\ OpenersStay /\ [Next]_vars => OpenersStay'
  <1> SUFFICES ASSUME TypeInv, SessionInv, OpenersStay, [Next]_vars, NEW d \in Device, opening'[d] # None
               PROVE  \E c \in Client :
                        /\ Opener(task'[c]) /\ task'[c].token = opening'[d].token /\ task'[c].device = d
                        /\ devices'[d] # None =>
                             task'[c].pc \in {"release", "abandon"} /\ task'[c].life \in published'
    BY DEF OpenersStay, Opener
  <1>1. /\ published \subseteq published'
        /\ \/ devices'[d] \in {devices[d], None}
           \/ \E c \in Client, l \in Life : Installs(c, d, l) /\ l \in published'
    BY AppearCases DEF SessionInv
  <1>2. CASE opening[d] # None /\ opening'[d].token = opening[d].token
    <2>1. CASE devices'[d] \in {devices[d], None}
      <3>1. PICK w \in Client :
              /\ Opener(task[w]) /\ task[w].token = opening[d].token /\ task[w].device = d
              /\ devices[d] # None => task[w].pc \in {"release", "abandon"} /\ task[w].life \in published
        BY <1>2 DEF OpenersStay
      <3>2. ~EndReservation(w)
        BY <1>2, <3>1 DEF EndReservation, TypeInv, RestType
      <3>3. GoesOn(w)
        BY <3>2, OpenerCases
      <3> QED BY <1>1, <1>2, <2>1, <3>1, <3>3 DEF GoesOn
    <2>2. ASSUME NEW c \in Client, NEW l \in Life, Installs(c, d, l), l \in published'
          PROVE  /\ Opener(task'[c]) /\ task'[c].token = opening'[d].token /\ task'[c].device = d
                 /\ task'[c].pc \in {"release", "abandon"} /\ task'[c].life \in published'
      BY <1>2, <2>2 DEF Installs, Moves, Opener
    <2> QED BY <1>1, <2>1, <2>2
  <1>3. CASE ~(opening[d] # None /\ opening'[d].token = opening[d].token)
    BY <1>3, ReservedCases DEF Opener
  <1> QED BY <1>2, <1>3

\* Two opens never both believe they opened the device first: while an open
\* holds the reservation, only its own Entry is published.
THEOREM ReservationsAreExclusive == Spec => []ReservationExclusive
  <1>1. Init => OpenersStay
    BY OpenersInit
  <1>2. OpenersStay => ReservationExclusive
    BY DEF OpenersStay, ReservationExclusive
  <1> QED BY <1>1, <1>2, OpenersStep, SessionInvHolds, PTL DEF Spec
-----------------------------------------------------------------------------
(* The non_nm_sessions counter *)

\* Relays and dead readers owe the counter what they detached.
Holder == ({"relay"} \X Client) \cup ({"reader"} \X Life)
OwedBy(h) == IF h[1] = "relay" THEN relay[h[2]].owed ELSE reader[h[2]].owed

\* The token of a session that ended: no open will use it again.
Spent(t) == t \in usedTokens /\ \A c \in Client : Holds(c) => task[c].token # t

\* What is owed is owed once, for sessions that ended, by a relay that has yet
\* to correct the counter or a reader that has yet to announce its device.
OwedOnce ==
  /\ \A h \in Holder : \A t \in OwedBy(h) : ~Live(t) /\ Spent(t)
  /\ \A g, h \in Holder : g # h => OwedBy(g) \cap OwedBy(h) = {}
  /\ \A c \in Client : relay[c].at # "unlocked" => relay[c].owed = {}
  /\ \A l \in Life : reader[l].at \notin {"detached", "joining"} => reader[l].owed = {}

Counted == NonNmOf({t \in Token : Live(t)}) \cup Owed

LEMMA OwedUnion == Owed = UNION {OwedBy(h) : h \in Holder}
  <1>1. ASSUME NEW t, t \in Owed
        PROVE  \E h \in Holder : t \in OwedBy(h)
    <2>1. ASSUME NEW c \in Client, t \in relay[c].owed
          PROVE  \E h \in Holder : t \in OwedBy(h)
      <3>1. <<"relay", c>> \in Holder /\ t \in OwedBy(<<"relay", c>>)
        BY <2>1 DEF Holder, OwedBy
      <3> QED BY <3>1
    <2>2. ASSUME NEW l \in Life, t \in reader[l].owed
          PROVE  \E h \in Holder : t \in OwedBy(h)
      <3>1. <<"reader", l>> \in Holder /\ t \in OwedBy(<<"reader", l>>)
        BY <2>2 DEF Holder, OwedBy
      <3> QED BY <3>1
    <2> QED BY <1>1, <2>1, <2>2 DEF Owed
  <1>2. ASSUME NEW h \in Holder, NEW t \in OwedBy(h)
        PROVE  t \in Owed
    BY <1>2 DEF Owed, OwedBy, Holder
  <1> QED BY <1>1, <1>2

LEMMA OwedType ==
  ASSUME TypeInv
  PROVE  /\ \A h \in Holder : OwedBy(h) \in SUBSET Token
         /\ Counted \in SUBSET Token /\ IsFiniteSet(Counted)
  <1>1. \A h \in Holder : OwedBy(h) \in SUBSET Token
    BY LifeTypes DEF Holder, OwedBy, Relay, Reader
  <1>2. Counted \in SUBSET Token
    BY <1>1, OwedUnion DEF Counted, NonNmOf
  <1> QED BY <1>1, <1>2, TokenAssumption, FS_Subset

\* What is owed stays, is taken on, or is paid off.
SameOwed == \A h \in Holder : OwedBy(h)' = OwedBy(h)
Owes(h, T) ==
  /\ OwedBy(h) = {} /\ OwedBy(h)' = T
  /\ \A g \in Holder \ {h} : OwedBy(g)' = OwedBy(g)
PaysOff(h) ==
  /\ OwedBy(h)' = {}
  /\ \A g \in Holder \ {h} : OwedBy(g)' = OwedBy(g)

\* Session t goes on in `mode`, or ends.
Recounts(t, mode) ==
  /\ Live(t) /\ Recount(t, mode)
  /\ \A u \in Token \ {t} : sessions'[u] = sessions[u]
  /\ IF sessions'[t] = None THEN mode = "nm" ELSE sessions'[t].mode = mode

LEMMA KeepOwed ==
  ASSUME \A c \in Client : relay'[c].owed = relay[c].owed, \A l \in Life : reader'[l].owed = reader[l].owed
  PROVE  SameOwed
  BY DEF SameOwed, OwedBy, Holder

\* A session is registered, recounted, or ended by whoever then owes for it.
CountStep ==
  \/ UNCHANGED <<sessions, nonNm>> /\ SameOwed
  \/ \E c \in Client, d \in Device, t \in Token : Registers(c, d, t) /\ nonNm' = nonNm /\ SameOwed
  \/ \E t \in Token, mode \in Mode : Recounts(t, mode) /\ SameOwed
  \/ \E h \in Holder, d \in Device : DropSessions(SessionsOf(d)) /\ nonNm' = nonNm /\ Owes(h, NonNmOf(SessionsOf(d)))
  \/ \E h \in Holder : PaysOff(h) /\ nonNm' = nonNm - Cardinality(OwedBy(h)) /\ UNCHANGED sessions

LEMMA RequestCounts ==
  ASSUME TypeInv, NEW c \in Client, RequestStep(c) \/ \E t \in Token : Close(c, t)
  PROVE  CountStep
  <1>1. SameOwed
    <2>1. ASSUME NEW l \in Life, CheckReservation(c, l)
          PROVE  relay' = relay /\ \A r \in Life : reader'[r].owed = reader[r].owed
      BY <2>1, LifeTypes DEF CheckReservation, Reader, threadVars, relayVars
    <2>2. CASE ~\E l \in Life : CheckReservation(c, l)
      <3>1. UNCHANGED <<relay, reader>>
        BY <2>2 DEF RequestStep, Reserve, Wake, PhysicalOpen, Publish, ReleaseReader, EndReservation,
           NotifyWaiters, StopEntry, JoinEntry, SnapshotOwned, Leave, DrainOne, Close, threadVars, relayVars
      <3> QED BY <3>1, KeepOwed
    <2> QED BY <2>1, <2>2, KeepOwed
  <1>2. ASSUME NEW t \in Token, NEW tasks, NEW here, CloseSession(c, t, tasks, here)
        PROVE  CountStep
    <2>1. Live(t) /\ Recount(t, "nm") /\ DropSessions({t})
      BY <1>2 DEF CloseSession
    <2>2. Recounts(t, "nm")
      BY <2>1 DEF Recounts, DropSessions, TypeInv, ManagerType
    <2>3. "nm" \in Mode
      BY DEF Mode
    <2> QED BY <1>1, <2>2, <2>3 DEF CountStep
  <1>3. CASE Reserve(c) \/ Wake(c) \/ Publish(c) \/ \E l \in Life : CheckReservation(c, l)
    <2>1. nonNm' = nonNm
      BY <1>3 DEF Reserve, Wake, Publish, CheckReservation
    <2> QED BY <1>1, <1>3, <2>1, RegisterCases DEF CountStep, managerVars
  <1>4. CASE PhysicalOpen(c) \/ ReleaseReader(c) \/ EndReservation(c) \/ NotifyWaiters(c) \/ StopEntry(c)
             \/ JoinEntry(c) \/ SnapshotOwned(c) \/ Leave(c)
    BY <1>1, <1>4 DEF PhysicalOpen, ReleaseReader, EndReservation, NotifyWaiters, StopEntry, JoinEntry,
       SnapshotOwned, Leave, CountStep, managerVars
  <1>5. ASSUME NEW t \in Token, DrainOne(c, t) \/ Close(c, t)
        PROVE  CountStep
    BY <1>1, <1>2, <1>5 DEF DrainOne, Close, CountStep, managerVars
  <1> QED BY <1>3, <1>4, <1>5 DEF RequestStep

LEMMA EnvironmentCounts ==
  ASSUME TypeInv, Environment
  PROVE  CountStep
  <1>1. ASSUME NEW c \in Client, NEW t \in Token, NEW mode \in Mode, SetDataplaneMode(c, t, mode)
        PROVE  CountStep
    <2>1. SameOwed
      BY <1>1, KeepOwed DEF SetDataplaneMode, threadVars, relayVars
    <2>2. Recounts(t, mode)
      BY <1>1 DEF SetDataplaneMode, Live, Recounts, TypeInv, ManagerType, Session
    <2> QED BY <2>1, <2>2 DEF CountStep
  <1>2. ASSUME NEW t \in Token, NEW kind \in Transport, TransportConnect(t, kind)
        PROVE  CountStep
    <2>1. SameOwed
      BY <1>2, KeepOwed DEF TransportConnect, threadVars, relayVars
    <2>2. kind \in Mode
      BY DEF Mode
    <2>3. PICK s \in Session : s = sessions[t]
      BY <1>2 DEF TransportConnect, Live, TypeInv, ManagerType
    <2> DEFINE stepped == [s EXCEPT !.mode = kind, !.wsGen = @ + (IF kind = "ws" THEN 1 ELSE 0),
                                    !.wtGen = @ + (IF kind = "wt" THEN 1 ELSE 0)]
    <2>4. stepped \in Session /\ stepped.mode = kind
      <3>1. s.wsGen + (IF kind = "ws" THEN 1 ELSE 0) \in Nat /\ s.wtGen + (IF kind = "wt" THEN 1 ELSE 0) \in Nat
        BY DEF Session
      <3> QED BY <2>2, <3>1 DEF Session
    <2>5. sessions' = [sessions EXCEPT ![t] = stepped] /\ Live(t) /\ Recount(t, kind)
      BY <1>2, <2>3 DEF TransportConnect
    <2> HIDE DEF stepped
    <2>6. sessions'[t] = stepped /\ stepped # None /\ \A u \in Token \ {t} : sessions'[u] = sessions[u]
      BY <2>4, <2>5 DEF TypeInv, ManagerType
    <2>7. Recounts(t, kind)
      BY <2>4, <2>5, <2>6 DEF Recounts
    <2> QED BY <2>1, <2>2, <2>7 DEF CountStep
  <1>3. ASSUME NEW k \in conns, TransportDisconnect(k)
        PROVE  CountStep
    <2>1. SameOwed
      BY <1>3, KeepOwed DEF TransportDisconnect, threadVars, relayVars
    <2>2. PICK t \in Token : t = k.token
      BY DEF TypeInv, EnvType, Conn
    <2>3. CASE ConnectionCurrent(k)
      <3>1. Live(t) /\ sessions' = [sessions EXCEPT ![t].mode = "nm"] /\ Recount(t, "nm")
        BY <1>3, <2>2, <2>3 DEF TransportDisconnect, Recount, NonNmOf, ConnectionCurrent, GenerationCurrent
      <3>2. Recounts(t, "nm") /\ "nm" \in Mode
        BY <3>1 DEF Live, Recounts, TypeInv, ManagerType, Session, Mode
      <3> QED BY <2>1, <3>2 DEF CountStep
    <2>4. CASE ~ConnectionCurrent(k)
      BY <1>3, <2>1, <2>4 DEF TransportDisconnect, CountStep, managerVars
    <2> QED BY <2>3, <2>4
  <1>4. ASSUME NEW l \in Life, ReaderFails(l)
        PROVE  CountStep
    <2>1. UNCHANGED <<sessions, nonNm, relay>> /\ \A r \in Life : reader'[r].owed = reader[r].owed
      BY <1>4, LifeTypes DEF ReaderFails, Reader, managerVars, relayVars
    <2> QED BY <2>1, KeepOwed DEF CountStep
  <1>5. ASSUME \/ \E c \in Client : Connect(c) \/ Disconnect(c) \/ RelayLagged(c)
               \/ \E c \in Client, d \in Device, t \in Token : Open(c, d, t)
               \/ \E d \in Device : HotplugRemove(d)
        PROVE  CountStep
    <2>1. UNCHANGED <<sessions, nonNm, relay, reader>>
      BY <1>5 DEF Connect, Disconnect, RelayLagged, Open, HotplugRemove, managerVars, threadVars, relayVars
    <2> QED BY <2>1, KeepOwed DEF CountStep
  <1>6. CASE \E c \in Client, t \in Token : Close(c, t)
    BY <1>6, RequestCounts
  <1> QED BY <1>1, <1>2, <1>3, <1>4, <1>5, <1>6 DEF Environment

LEMMA RelayCounts ==
  ASSUME TypeInv, OwedOnce, NEW c \in Client, RelayStep(c)
  PROVE  CountStep
  <1> DEFINE h == <<"relay", c>>
  <1>1. h \in Holder /\ OwedBy(h) = relay[c].owed /\ OwedBy(h)' = relay'[c].owed
    BY DEF Holder, OwedBy
  <1>2. \A g \in Holder \ {h} : OwedBy(g)' = OwedBy(g)
    <2>1. reader' = reader /\ \A x \in Client \ {c} : relay'[x] = relay[x]
      BY LifeTypes DEF RelayStep, ForceClose, ForceCloseStop, ForceCloseJoin, threadVars
    <2> QED BY <2>1 DEF Holder, OwedBy
  <1>3. CASE ForceClose(c)
    <2>1. PICK d \in Device : d = Head(inbox[c]).device
      BY <1>3, HeadType DEF ForceClose, TypeInv, Event
    <2>2. DropSessions(SessionsOf(d)) /\ nonNm' = nonNm
      BY <1>3, <2>1 DEF ForceClose, DetachLifetime, DropSessions, InvalidateTransport
    <2>3. relay[c].owed = {} /\ relay'[c].owed = NonNmOf(SessionsOf(d))
      BY <1>3, <2>1, LifeTypes DEF ForceClose, OwedOnce
    <2> QED BY <1>1, <1>2, <2>2, <2>3 DEF CountStep, Owes
  <1>4. CASE ForceCloseStop(c)
    <2>1. nonNm' = nonNm - Cardinality(relay[c].owed) /\ UNCHANGED sessions
      BY <1>4 DEF ForceCloseStop, managerVars
    <2>2. relay'[c].owed = {}
      BY <1>4, LifeTypes DEF ForceCloseStop, Resting, Relay
    <2> QED BY <1>1, <1>2, <2>1, <2>2 DEF CountStep, PaysOff
  <1>5. CASE ForceCloseJoin(c)
    <2>1. relay[c].owed = {} /\ relay'[c].owed = {} /\ UNCHANGED <<sessions, nonNm>>
      BY <1>5, LifeTypes DEF ForceCloseJoin, Resting, OwedOnce, managerVars
    <2>2. SameOwed
      BY <1>1, <1>2, <2>1 DEF SameOwed
    <2> QED BY <2>1, <2>2 DEF CountStep
  <1> QED BY <1>3, <1>4, <1>5 DEF RelayStep

LEMMA ReaderCounts ==
  ASSUME TypeInv, OwedOnce, NEW l \in Life, ReaderStep(l) \/ IoWorkerExits(l)
  PROVE  CountStep
  <1> DEFINE h == <<"reader", l>>
  <1>1. h \in Holder /\ OwedBy(h) = reader[l].owed /\ OwedBy(h)' = reader'[l].owed
    BY DEF Holder, OwedBy
  <1>2. \A g \in Holder \ {h} : OwedBy(g)' = OwedBy(g)
    <2>1. relay' = relay /\ \A x \in Life \ {l} : reader'[x] = reader[x]
      BY LifeTypes DEF ReaderStep, ReaderPasses, ReaderStops, ReaderDetaches, ReaderStopsIo, ReaderAnnounces,
                       IoWorkerExits, relayVars
    <2> QED BY <2>1 DEF Holder, OwedBy
  <1>3. CASE ReaderDetaches(l)
    <2>1. PICK d \in Device : d = lifeDev[l]
      BY <1>3 DEF ReaderDetaches, TypeInv, ThreadShape
    <2>2. CASE devices[d] = None
      <3>1. reader'[l].owed = reader[l].owed /\ UNCHANGED <<sessions, nonNm>>
        BY <1>3, <2>1, <2>2, LifeTypes DEF ReaderDetaches, Reader, managerVars
      <3>2. SameOwed
        BY <1>1, <1>2, <3>1 DEF SameOwed
      <3> QED BY <3>1, <3>2 DEF CountStep
    <2>3. CASE devices[d] # None
      <3>1. DropSessions(SessionsOf(d)) /\ nonNm' = nonNm
        BY <1>3, <2>1, <2>3 DEF ReaderDetaches, DetachLifetime, DropSessions, InvalidateTransport
      <3>2. reader[l].owed = {} /\ reader'[l].owed = NonNmOf(SessionsOf(d))
        BY <1>3, <2>1, <2>3, LifeTypes DEF ReaderDetaches, OwedOnce
      <3> QED BY <1>1, <1>2, <3>1, <3>2 DEF CountStep, Owes
    <2> QED BY <2>2, <2>3
  <1>4. CASE ReaderAnnounces(l)
    <2>1. /\ nonNm' = nonNm - Cardinality(reader[l].owed) /\ UNCHANGED sessions
          /\ reader'[l].owed = {}
      BY <1>4, LifeTypes DEF ReaderAnnounces, managerVars
    <2> QED BY <1>1, <1>2, <2>1 DEF CountStep, PaysOff
  <1>5. CASE ReaderPasses(l) \/ ReaderStops(l) \/ ReaderStopsIo(l) \/ IoWorkerExits(l)
    <2>1. reader'[l].owed = reader[l].owed /\ UNCHANGED <<sessions, nonNm>>
      BY <1>5, LifeTypes DEF ReaderPasses, ReaderStops, ReaderStopsIo, IoWorkerExits, Reader, managerVars
    <2>2. SameOwed
      BY <1>1, <1>2, <2>1 DEF SameOwed
    <2> QED BY <2>1, <2>2 DEF CountStep
  <1> QED BY <1>3, <1>4, <1>5 DEF ReaderStep

LEMMA CountCases ==
  ASSUME TypeInv, OwedOnce, [Next]_vars
  PROVE  CountStep
  <1>1. CASE UNCHANGED vars
    BY <1>1, KeepOwed DEF vars, managerVars, threadVars, relayVars, CountStep
  <1> QED BY <1>1, RequestCounts, EnvironmentCounts, RelayCounts, ReaderCounts DEF Next

LEMMA HoldsCases ==
  ASSUME TypeInv, [Next]_vars, NEW c \in Client, Holds(c)'
  PROVE  \/ Holds(c) /\ task'[c].token = task[c].token
         \/ \E d \in Device : Open(c, d, task'[c].token)
  <1>1. CASE Calm(c)
    BY <1>1 DEF Calm
  <1>2. ASSUME NEW d \in Device, NEW t \in Token, Open(c, d, t)
        PROVE  task'[c].token = t
    BY <1>2 DEF Open, At, TypeInv, TaskType
  <1>3. CASE Disconnect(c)
    BY <1>3 DEF Disconnect, Holds, Unregistered, TypeInv, TaskType
  <1> QED BY <1>1, <1>2, <1>3, TaskCases

\* A token whose open ended without a session, or whose session ended, stays unused.
LEMMA SpentStays ==
  ASSUME TypeInv, TokensFresh, [Next]_vars, NEW t \in Token, Live(t) \/ Spent(t)
  PROVE  Spent(t)' /\ (~Live(t) => ~Live(t)')
  <1>1. t \in usedTokens /\ \A c \in Client : Holds(c) => task[c].token # t
    BY DEF TokensFresh, Spent
  <1>2. Spent(t)'
    <2>1. t \in usedTokens'
      BY <1>1, TokensStep
    <2>2. ASSUME NEW c \in Client, Holds(c)'
          PROVE  task'[c].token # t
      BY <1>1, <2>2, HoldsCases DEF Open
    <2> QED BY <2>1, <2>2 DEF Spent, Holds
  <1>3. ~Live(t) => ~Live(t)'
    BY <1>1, LiveCases DEF Kept, Registers
  <1> QED BY <1>2, <1>3

\* Relays and readers owe only between detaching an Entry and counting it off.
LEMMA OwedStages ==
  ASSUME TypeInv, LifeInv, OwedOnce, [Next]_vars
  PROVE  /\ \A c \in Client : relay'[c].at # "unlocked" => relay'[c].owed = {}
         /\ \A l \in Life : reader'[l].at \notin {"detached", "joining"} => reader'[l].owed = {}
  <1>1. CASE UNCHANGED <<relay, reader>>
    BY <1>1 DEF OwedOnce
  <1>2. ASSUME NEW c \in Client, NEW l \in Life, CheckReservation(c, l)
        PROVE  /\ relay' = relay /\ \A r \in Life \ {l} : reader'[r] = reader[r]
               /\ reader'[l].owed = {}
    <2>1. phase[l] = "free" /\ reader'[l].owed = reader[l].owed
      BY <1>2, LifeTypes DEF CheckReservation, Reader, threadVars
    <2>2. reader[l].owed = {}
      BY <2>1 DEF LifeInv, Stages, Stage, OwedOnce
    <2> QED BY <1>2, <2>1, <2>2, LifeTypes DEF CheckReservation, threadVars, relayVars
  <1>3. ASSUME NEW c \in Client, RelayStep(c)
        PROVE  /\ reader' = reader /\ \A x \in Client \ {c} : relay'[x] = relay[x]
               /\ relay'[c].at # "unlocked" => relay'[c].owed = {}
    BY <1>3, LifeTypes DEF RelayStep, ForceClose, ForceCloseStop, ForceCloseJoin, Resting, Relay, threadVars
  <1>4. ASSUME NEW l \in Life, ReaderStep(l) \/ ReaderFails(l) \/ IoWorkerExits(l)
        PROVE  /\ relay' = relay /\ \A r \in Life \ {l} : reader'[r] = reader[r]
               /\ reader'[l].at \notin {"detached", "joining"} => reader'[l].owed = {}
    <2>1. PICK k \in Reader : k = reader[l]
      BY LifeTypes
    <2>0. k.at \notin {"detached", "joining"} => k.owed = {}
      BY <2>1 DEF OwedOnce
    <2>2. relay' = relay /\ \A r \in Life \ {l} : reader'[r] = reader[r]
      BY <1>4, LifeTypes DEF ReaderStep, ReaderPasses, ReaderStops, ReaderDetaches, ReaderStopsIo, ReaderAnnounces,
                  ReaderFails, IoWorkerExits, relayVars
    <2>3. CASE ReaderPasses(l) \/ ReaderStops(l) \/ ReaderFails(l) \/ IoWorkerExits(l) \/ ReaderStopsIo(l)
      <3>1. reader'[l].owed = k.owed
        BY <2>1, <2>3, LifeTypes DEF ReaderPasses, ReaderStops, ReaderFails, IoWorkerExits, ReaderStopsIo, Reader
      <3>2. reader'[l].at \notin {"detached", "joining"} => k.at \notin {"detached", "joining"}
        BY <2>1, <2>3, LifeTypes DEF ReaderPasses, ReaderStops, ReaderFails, IoWorkerExits, ReaderStopsIo, Reader
      <3> QED BY <2>0, <2>2, <3>1, <3>2
    <2>4. CASE ReaderDetaches(l) \/ ReaderAnnounces(l)
      <3>1. CASE ReaderDetaches(l) /\ devices[lifeDev[l]] = None
        <4>1. k.at = "failing" /\ reader' = [reader EXCEPT ![l].at = "exited"]
          BY <2>1, <3>1 DEF ReaderDetaches
        <4>2. reader'[l].owed = k.owed
          BY <2>1, <4>1, LifeTypes DEF Reader
        <4> QED BY <2>0, <2>2, <4>1, <4>2
      <3>2. CASE ReaderDetaches(l) /\ devices[lifeDev[l]] # None
        <4>1. reader' = [reader EXCEPT ![l] = [at |-> "detached", victim |-> devices[lifeDev[l]],
                                               owed |-> NonNmOf(SessionsOf(lifeDev[l]))]]
          BY <3>2 DEF ReaderDetaches
        <4> QED BY <2>2, <4>1, LifeTypes
      <3>3. CASE ReaderAnnounces(l)
        BY <2>2, <3>3, LifeTypes DEF ReaderAnnounces
      <3> QED BY <2>4, <3>1, <3>2, <3>3
    <2> QED BY <1>4, <2>2, <2>3, <2>4 DEF ReaderStep
  <1>5. CASE \E c \in Client : RequestStep(c) /\ ~\E l \in Life : CheckReservation(c, l)
    <2>1. UNCHANGED <<relay, reader>>
      BY <1>5 DEF RequestStep, Reserve, Wake, PhysicalOpen, Publish, ReleaseReader, EndReservation,
         NotifyWaiters, StopEntry, JoinEntry, SnapshotOwned, Leave, DrainOne, threadVars, relayVars
    <2> QED BY <1>1, <2>1
  <1>6. CASE Environment /\ ~\E l \in Life : ReaderFails(l)
    <2>1. UNCHANGED <<relay, reader>>
      BY <1>6 DEF Environment, Connect, Disconnect, RelayLagged, Open, Close, SetDataplaneMode, HotplugRemove,
         TransportConnect, TransportDisconnect, threadVars, relayVars
    <2> QED BY <1>1, <2>1
  <1>7. UNCHANGED vars => UNCHANGED <<relay, reader>>
    BY DEF vars, relayVars, threadVars
  <1> QED BY <1>1, <1>2, <1>3, <1>4, <1>5, <1>6, <1>7 DEF Next, OwedOnce

LEMMA OwedInit == Init => OwedOnce /\ NonNmCount
  <1> SUFFICES ASSUME Init
               PROVE  OwedOnce /\ NonNmCount
    OBVIOUS
  <1>1. \A h \in Holder : OwedBy(h) = {}
    BY DEF Init, Holder, OwedBy, Resting
  <1>2. OwedOnce
    BY <1>1 DEF Init, OwedOnce, Resting
  <1>3. Counted = {}
    BY <1>1, OwedUnion DEF Init, Counted, NonNmOf, Live
  <1> QED BY <1>2, <1>3, FS_EmptySet DEF Init, NonNmCount, Counted

LEMMA OwedStep == TypeInv /\ SessionInv /\ LifeInv /\ OwedOnce /\ [Next]_vars => OwedOnce'
  <1> SUFFICES ASSUME TypeInv, SessionInv, LifeInv, OwedOnce, [Next]_vars
               PROVE  OwedOnce'
    OBVIOUS
  <1>1. \A h \in Holder : OwedBy(h) \in SUBSET Token
    BY OwedType
  <1>2. ASSUME NEW t \in Token, Live(t) \/ Spent(t)
        PROVE  Spent(t)' /\ (~Live(t) => ~Live(t)')
    BY <1>2, SpentStays DEF SessionInv
  <1>3. \/ \A h \in Holder : OwedBy(h)' \subseteq OwedBy(h)
        \/ \E g \in Holder : /\ \A t \in OwedBy(g)' : t \in Token /\ Live(t) /\ ~Live(t)'
                             /\ \A h \in Holder \ {g} : OwedBy(h)' = OwedBy(h)
    <2>1. ASSUME NEW h \in Holder, NEW d \in Device, DropSessions(SessionsOf(d)), Owes(h, NonNmOf(SessionsOf(d)))
          PROVE  /\ \A t \in OwedBy(h)' : t \in Token /\ Live(t) /\ ~Live(t)'
                 /\ \A g \in Holder \ {h} : OwedBy(g)' = OwedBy(g)
      BY <2>1 DEF Owes, NonNmOf, SessionsOf, DropSessions, Live
    <2>2. ASSUME NEW h \in Holder, PaysOff(h)
          PROVE  \A g \in Holder : OwedBy(g)' \subseteq OwedBy(g)
      BY <2>2 DEF PaysOff
    <2>3. ASSUME SameOwed
          PROVE  \A g \in Holder : OwedBy(g)' \subseteq OwedBy(g)
      BY <2>3 DEF SameOwed
    <2> QED BY <2>1, <2>2, <2>3, CountCases DEF CountStep
  <1>4. ASSUME NEW h \in Holder, NEW t \in OwedBy(h)'
        PROVE  ~Live(t)' /\ Spent(t)'
    <2>1. CASE t \in OwedBy(h)
      BY <1>1, <1>2, <2>1 DEF OwedOnce
    <2>2. CASE t \notin OwedBy(h)
      BY <1>2, <1>3, <1>4, <2>2
    <2> QED BY <2>1, <2>2
  <1>5. ASSUME NEW g \in Holder, NEW h \in Holder, g # h
        PROVE  OwedBy(g)' \cap OwedBy(h)' = {}
    BY <1>3, <1>5 DEF OwedOnce
  <1> QED BY <1>4, <1>5, OwedStages DEF OwedOnce, Holder, OwedBy

Active == {t \in Token : Live(t) /\ sessions[t].mode # "nm"}
Debts == UNION {OwedBy(h) : h \in Holder}

LEMMA CountedUnion == Counted = Active \cup Debts
  BY OwedUnion DEF Counted, NonNmOf, Active, Debts

LEMMA CountedUnionNext == Counted' = Active' \cup Debts'
  <1>1. (Counted = Active \cup Debts)'
    BY CountedUnion, PTL
  <1> QED BY <1>1

\* What a step does to the counter is what it does to the counted tokens.
LEMMA CountedSame ==
  ASSUME TypeInv, SessionInv, OwedOnce, NonNmCount,
         \/ UNCHANGED <<sessions, nonNm>> /\ SameOwed
         \/ \E c \in Client, d \in Device, t \in Token : Registers(c, d, t) /\ nonNm' = nonNm /\ SameOwed
         \/ \E h \in Holder, d \in Device :
              DropSessions(SessionsOf(d)) /\ nonNm' = nonNm /\ Owes(h, NonNmOf(SessionsOf(d)))
  PROVE  NonNmCount'
  <1>0. Counted = Active \cup Debts /\ Counted' = Active' \cup Debts'
    BY CountedUnion, CountedUnionNext
  <1>1. CASE UNCHANGED <<sessions, nonNm>> /\ SameOwed
    <2>1. Active' = Active /\ Debts' = Debts
      BY <1>1 DEF Live, SameOwed, Active, Debts
    <2> QED BY <1>0, <1>1, <2>1 DEF NonNmCount, Counted
  <1>2. ASSUME NEW c \in Client, NEW d \in Device, NEW t \in Token, Registers(c, d, t), nonNm' = nonNm, SameOwed
        PROVE  NonNmCount'
    <2>1. ~Live(t)
      BY <1>2 DEF Registers, SessionInv, TokensFresh
    <2>2. sessions'[t].mode = "nm" /\ \A u \in Token \ {t} : sessions'[u] = sessions[u]
      BY <1>2 DEF Registers, RegisterSession, TypeInv, ManagerType
    <2>3. Active' = Active
      BY <2>1, <2>2 DEF Live, Active
    <2>4. Debts' = Debts
      BY <1>2 DEF SameOwed, Debts
    <2> QED BY <1>0, <1>2, <2>3, <2>4 DEF NonNmCount, Counted
  <1>3. ASSUME NEW h \in Holder, NEW d \in Device, DropSessions(SessionsOf(d)), nonNm' = nonNm,
               Owes(h, NonNmOf(SessionsOf(d)))
        PROVE  NonNmCount'
    <2>1. Active' = Active \ SessionsOf(d)
      BY <1>3 DEF DropSessions, Live, Active
    <2>2. Debts' = Debts \cup (Active \cap SessionsOf(d))
      BY <1>3 DEF Owes, NonNmOf, SessionsOf, Active, Debts
    <2>3. Active' \cup Debts' = Active \cup Debts
      BY <2>1, <2>2
    <2> QED BY <1>0, <1>3, <2>3 DEF NonNmCount, Counted
  <1> QED BY <1>1, <1>2, <1>3

LEMMA CountedRecounts ==
  ASSUME TypeInv, OwedOnce, NonNmCount, NEW t \in Token, NEW mode \in Mode, Recounts(t, mode), SameOwed
  PROVE  NonNmCount'
  <1>1. Counted = Active \cup Debts /\ Counted' = Active' \cup Debts'
    BY CountedUnion, CountedUnionNext
  <1>2. t \notin Debts /\ Debts' = Debts
    BY DEF Recounts, OwedOnce, SameOwed, Debts
  <1>3. Active' = IF mode = "nm" THEN Active \ {t} ELSE Active \cup {t}
    BY DEF Recounts, Live, Active
  <1>4. Counted' = IF mode = "nm" THEN Counted \ {t} ELSE Counted \cup {t}
    BY <1>1, <1>2, <1>3
  <1>5. IsFiniteSet(Counted) /\ Cardinality(Counted) \in Nat
    BY OwedType, FS_CardinalityType
  <1>6. Cardinality(NonNmOf({t})) = IF t \in Counted THEN 1 ELSE 0
    <2>1. t \in Counted <=> sessions[t].mode # "nm"
      BY <1>1, <1>2 DEF Recounts, Active
    <2>2. NonNmOf({t}) = IF t \in Counted THEN {t} ELSE {}
      BY <2>1 DEF NonNmOf
    <2> QED BY <2>2, FS_Singleton, FS_EmptySet
  <1>7. Cardinality(Counted') = IF mode = "nm" THEN IF t \in Counted THEN Cardinality(Counted) - 1
                                                    ELSE Cardinality(Counted)
                                ELSE IF t \in Counted THEN Cardinality(Counted)
                                     ELSE Cardinality(Counted) + 1
    BY <1>4, <1>5, FS_AddElement, FS_RemoveElement
  <1>8. nonNm = Cardinality(Counted) /\ (nonNm' = Cardinality(Counted)' => NonNmCount')
    BY DEF NonNmCount, Counted
  <1>9. nonNm' = nonNm - Cardinality(NonNmOf({t})) + (IF mode = "nm" THEN 0 ELSE 1)
    BY DEF Recounts, Recount
  <1> QED BY <1>5, <1>6, <1>7, <1>8, <1>9

LEMMA CountedPaid ==
  ASSUME TypeInv, OwedOnce, NonNmCount, NEW h \in Holder, PaysOff(h),
         nonNm' = nonNm - Cardinality(OwedBy(h)), UNCHANGED sessions
  PROVE  NonNmCount'
  <1>1. Counted = Active \cup Debts /\ Counted' = Active' \cup Debts'
    BY CountedUnion, CountedUnionNext
  <1>2. Active' = Active /\ Active \cap OwedBy(h) = {}
    BY DEF Live, OwedOnce, Active
  <1>3. Debts' = Debts \ OwedBy(h)
    BY DEF PaysOff, OwedOnce, Debts
  <1>4. Counted' = Counted \ OwedBy(h) /\ Counted \cap OwedBy(h) = OwedBy(h)
    BY <1>1, <1>2, <1>3 DEF Debts
  <1>5. Cardinality(Counted') = Cardinality(Counted) - Cardinality(OwedBy(h))
    BY <1>4, OwedType, FS_Difference
  <1> QED BY <1>5 DEF NonNmCount, Counted

LEMMA CountStepCounts ==
  ASSUME TypeInv, SessionInv, LifeInv, OwedOnce, NonNmCount, [Next]_vars
  PROVE  NonNmCount'
  BY CountCases, CountedSame, CountedRecounts, CountedPaid DEF CountStep

\* The counter that switches the daemon's input bus on and off is exact: the
\* sessions on WS/WT, and those already ended whose correction is under way.
THEOREM CounterIsExact == Spec => []NonNmCount
  <1>1. Init => OwedOnce /\ NonNmCount
    BY OwedInit
  <1>2. TypeInv /\ SessionInv /\ LifeInv /\ OwedOnce /\ NonNmCount /\ [Next]_vars => (OwedOnce /\ NonNmCount)'
    BY OwedStep, CountStepCounts
  <1> QED BY <1>1, <1>2, SessionInvHolds, LifeInvHolds, PTL DEF Spec
=============================================================================
