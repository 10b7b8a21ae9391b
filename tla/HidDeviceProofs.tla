--------------------------- MODULE HidDeviceProofs ---------------------------
(***************************************************************************)
(* What HidDevice guarantees for any devices, objects, calls and faults.   *)
(***************************************************************************)
EXTENDS HidDevice, SequenceTheorems, FiniteSetTheorems, TLAPS

USE ScenarioAssumption

-----------------------------------------------------------------------------
(* Types *)

Known == 1..Len(calls)
Stage == {"asked", "waiting", "undoing", "await", "closing", "unpairing", "undo", "done"}

CallType ==
  [k : {"open", "close", "forget"}, o : Object, at : Stage, res : {"pending", "ok", "failed"},
   on : SUBSET Call, group : SUBSET Object, opened : SUBSET Object, todo : Seq(Object)]

Requests ==
  [c : Known, a : {"open", "wait", "close", "unpair", "cleanup"}, d : Device,
   at : {"sent", "checking", "spawning", "waiting", "despawning", "opened"}, tok : Known \cup {None}]

\* Requests the bridge has in hand, and at which await
Served ==
  {r \in Requests :
     \/ r.a = "open" /\ r.at \in {"checking", "spawning"}
     \/ r.a = "wait" /\ r.at = "waiting"
     \/ r.a = "close" /\ r.at = "despawning"}

\* What a message may say: a device is lost, and a forget is denied, by a fault only.
Answers ==
  {m \in [k : {"answer"}, r : Requests, ok : BOOLEAN] : m.r.a = "unpair" /\ ~m.ok => spent["denial"] > 0}
Events ==
  {e \in [k : {"revoked", "disconnect"}, d : Device] : e.k = "disconnect" => spent["loss"] > 0}
Messages == Answers \cup Events

RevocationType(K) == [page : BOOLEAN, left : SUBSET Device, close : SUBSET K]

BackTypes == granted \subseteq Device /\ revoking \subseteq RevocationType(Known) /\ alive \cup orphans \subseteq Known

NetTypes ==
  /\ outbox \in Seq(Requests) /\ control \in Seq(Requests) /\ reqs \subseteq Served
  /\ wire \in Seq(Messages) /\ inbox \in Seq(Messages) /\ events \subseteq Events
  /\ sess \in [Device -> Known \cup {None}] /\ plane \in [Device -> Known \cup {None}]
  /\ BackTypes

\* The answer on its way to the bridge is that to the request under way.
OneAnswer ==
  \A i \in DOMAIN wire : wire[i].k = "answer" =>
    /\ control # <<>> /\ wire[i].r = Head(control)
    /\ \A j \in DOMAIN wire : wire[j].k = "answer" => i = j

\* The one revocation a forget asked for runs while that request is not answered.
Unpairing ==
  /\ \A v \in revoking : v.page => Pending("unpair")
  /\ \A v, w \in revoking : v.page /\ w.page => v = w

PageTypes ==
  /\ dev \in Seq(Device) /\ Len(dev) <= MaxObjects
  /\ calls \in Seq(CallType) /\ Len(calls) <= MaxCalls
  /\ registry \in [Device -> Object \cup {None}]
  /\ st \in [Object -> State] /\ was \in [Object -> BOOLEAN] /\ reports \in [Object -> BOOLEAN]
  /\ port \in [Object -> Known \cup {None}]
  /\ openBy \in [Object -> Known \cup {None}]
  /\ closeBy \in [Object -> Known \cup {None}]
  /\ forgetBy \in [Object -> Known \cup {None}]
  /\ bound \in Scenario /\ spent \in [Faults -> Nat]

\* The objects a forget still has in hand
Held(x) == IF x.at \in {"await", "unpairing"} THEN x.group ELSE Range(x.todo)

Distinct(s) == \A i, j \in DOMAIN s : s[i] = s[j] => i = j

\* The stages of a call, and what it keeps
Shape(x) ==
  /\ x.o \in Made
  /\ x.at = "done" <=> x.res # "pending"
  /\ x.k = "open" => x.at \in {"asked", "waiting", "undoing", "done"}
  /\ x.k = "close" => x.at \in {"await", "closing", "done"}
  /\ x.k = "forget" =>
       /\ x.at \in {"await", "unpairing", "undo", "undoing", "done"}
       /\ x.group \subseteq Made /\ Range(x.todo) \subseteq x.group /\ Distinct(x.todo)
       /\ x.at = "undoing" => x.todo # <<>>

Shapes == \A b \in Known : Shape(calls[b])

\* A promise an object holds is that of a call under way for it; a forget is
\* held by the whole group.
Holds(f, k, o) ==
  f[o] # None => f[o] \in Known /\ calls[f[o]].k = k /\ calls[f[o]].o = o /\ ~Done(f[o])

Promises ==
  /\ \A o \in Object : Holds(openBy, "open", o) /\ Holds(closeBy, "close", o)
  /\ \A o \in Object : forgetBy[o] # None =>
       /\ forgetBy[o] \in Known /\ calls[forgetBy[o]].k = "forget" /\ ~Done(forgetBy[o])
       /\ o \in calls[forgetBy[o]].group
  /\ \A f \in Known : calls[f].k = "forget" /\ ~Done(f) => \A m \in calls[f].group : forgetBy[m] = f

\* What a call under way waits for before it asks the bridge
On(b) == {None} \cup (IF calls[b].at = "await" THEN calls[b].on ELSE {})

\* While no device is lost, a call under way has the object for itself.
OpenKeeps(b) == openBy[calls[b].o] = b /\ st[calls[b].o] \notin {"closed", "opened"}
CloseKeeps(b) ==
  LET o == calls[b].o IN closeBy[o] = b /\ st[o] \in {"closing", "forgetting", "forgotten"} /\ openBy[o] \in On(b)
ForgetKeeps(b) ==
  \A m \in Held(calls[b]) : st[m] \in {"forgetting", "forgotten"} /\ openBy[m] \in On(b) /\ closeBy[m] \in On(b)
Keeps(b) ==
  /\ calls[b].k = "open" => OpenKeeps(b)
  /\ calls[b].k = "close" => CloseKeeps(b)
  /\ calls[b].k = "forget" => ForgetKeeps(b)

Kept == spent["loss"] = 0 => \A b \in Known : ~Done(b) => Keeps(b)

Entries ==
  \A d \in Device : registry[d] # None =>
    registry[d] \in Made /\ dev[registry[d]] = d /\ st[registry[d]] # "forgotten"

\* An object that is half way has a call that takes it on.
Under(o) ==
  /\ o \notin Made => st[o] = "closed"
  /\ st[o] = "opening" => openBy[o] # None
  /\ st[o] = "forgetting" => forgetBy[o] # None /\ o \in Held(calls[forgetBy[o]])

Objects == \A o \in Object : Under(o)

Denied ==
  \A f \in Known : calls[f].k = "forget" /\ calls[f].at \in {"undo", "undoing"} =>
    spent["denial"] + spent["timeout"] > 0

\* Only an opened object has reports, while no device is lost.
Reported ==
  spent["loss"] = 0 => \A o \in Object : reports[o] => st[o] = "opened" /\ port[o] # None

PageInv ==
  /\ PageTypes /\ Shapes /\ Promises /\ Kept /\ Entries /\ Objects /\ Denied /\ Reported

HidInv == PageInv /\ NetTypes /\ OneAnswer /\ Unpairing

-----------------------------------------------------------------------------
(* Lists *)

LEMMA SeqGrows ==
  ASSUME NEW S, NEW T, S \subseteq T, NEW s \in Seq(S)
  PROVE  s \in Seq(T)
<1>1. s \in [1..Len(s) -> S] /\ Len(s) \in Nat
  BY LenProperties
<1>2. s \in [1..Len(s) -> T]
  BY <1>1
<1> QED
  BY <1>1, <1>2, SeqDef

LEMMA Appended ==
  ASSUME NEW S, NEW s \in Seq(S), NEW e \in S
  PROVE  /\ Append(s, e) \in Seq(S) /\ Len(Append(s, e)) = Len(s) + 1
         /\ DOMAIN s = 1..Len(s) /\ DOMAIN Append(s, e) = 1..(Len(s) + 1) /\ Len(s) \in Nat
         /\ \A i \in 1..Len(s) : Append(s, e)[i] = s[i]
         /\ Append(s, e)[Len(s) + 1] = e
BY AppendProperties, LenProperties

LEMMA Popped ==
  ASSUME NEW S, NEW s \in Seq(S), s # <<>>
  PROVE  /\ Head(s) \in S /\ Head(s) = s[1] /\ Tail(s) \in Seq(S) /\ Len(s) \in Nat \ {0}
         /\ Len(Tail(s)) = Len(s) - 1 /\ DOMAIN s = 1..Len(s) /\ DOMAIN Tail(s) = 1..(Len(s) - 1)
         /\ \A i \in 1..(Len(s) - 1) : Tail(s)[i] = s[i + 1]
BY HeadTailProperties, LenProperties, EmptySeq, ElementOfSeq

LEMMA Replaced ==
  ASSUME NEW S, NEW s \in Seq(S), NEW i \in 1..Len(s), NEW e \in S
  PROVE  /\ [s EXCEPT ![i] = e] \in Seq(S) /\ Len([s EXCEPT ![i] = e]) = Len(s) /\ Len(s) \in Nat
         /\ [s EXCEPT ![i] = e][i] = e
         /\ \A j \in 1..Len(s) : j # i => [s EXCEPT ![i] = e][j] = s[j]
BY ExceptSeq, LenProperties

\* SetToSeq lists the elements of a finite set.
LEMMA Listed ==
  ASSUME NEW S, IsFiniteSet(S)
  PROVE  SetToSeq(S) \in Seq(S) /\ Range(SetToSeq(S)) = S
<1> DEFINE n == Cardinality(S)
<1>1. n \in Nat /\ ExistsBijection(1..n, S)
  BY FS_CardinalityType
<1>2. PICK f \in [1..n -> S] : IsInjective(f)
  BY <1>1 DEF ExistsBijection, Bijection, Injection
<1>3. SetToSeq(S) \in [1..n -> S] /\ IsInjective(SetToSeq(S))
  BY <1>2 DEF SetToSeq
<1>4. SetToSeq(S) \in Injection(1..n, S) /\ IsFiniteSet(1..n) /\ Cardinality(1..n) = n
  BY <1>1, <1>3, FS_Interval DEF Injection
<1>5. SetToSeq(S) \in Surjection(1..n, S)
  BY <1>4, FS_Injection
<1>6. \A x \in S : \E i \in 1..n : SetToSeq(S)[i] = x
  BY <1>5 DEF Surjection
<1>7. SetToSeq(S) \in Seq(S) /\ DOMAIN SetToSeq(S) = 1..n
  BY <1>1, <1>3, SeqDef
<1>8. Range(SetToSeq(S)) = S
  BY <1>3, <1>6, <1>7 DEF Range
<1> QED
  BY <1>7, <1>8
-----------------------------------------------------------------------------
(* Sets of objects in order *)

Rank(S, x) == Cardinality({y \in S : y < x})

LEMMA ObjectSets ==
  ASSUME NEW S \in SUBSET Object
  PROVE  IsFiniteSet(S) /\ Cardinality(S) \in Nat
<1>1. IsFiniteSet(Object)
  BY FS_Interval DEF Object
<1> QED
  BY <1>1, FS_Subset, FS_CardinalityType

LEMMA RankGrows ==
  ASSUME NEW S \in SUBSET Object, NEW x \in S, NEW y \in S, x < y
  PROVE  Rank(S, x) < Rank(S, y)
<1> DEFINE below == {z \in S : z < x}
<1>1. IsFiniteSet(below) /\ Cardinality(below) \in Nat /\ x \notin below
  BY ObjectSets DEF Object
<1>2. Cardinality(below \cup {x}) = Cardinality(below) + 1
  BY <1>1, FS_AddElement
<1>3. \A z \in below \cup {x} : z \in S /\ z < y
  BY DEF Object
<1>4. IsFiniteSet({z \in S : z < y}) /\ Cardinality({z \in S : z < y}) \in Nat
  BY ObjectSets DEF Object
<1>5. Cardinality(below \cup {x}) <= Cardinality({z \in S : z < y})
  <2>1. below \cup {x} \in SUBSET {z \in S : z < y}
    BY <1>3
  <2> QED
    BY <1>4, <2>1, FS_Subset
<1> QED
  BY <1>1, <1>2, <1>4, <1>5 DEF Rank

LEMMA Ranks ==
  ASSUME NEW S \in SUBSET Object
  PROVE  /\ \A x, y \in S : Rank(S, x) = Rank(S, y) => x = y
         /\ \A x \in S : Rank(S, x) + 1 \in 1..Cardinality(S)
         /\ \A i \in 1..Cardinality(S) : \E x \in S : Rank(S, x) = i - 1
<1> DEFINE n == Cardinality(S)
           f == [x \in S |-> Rank(S, x) + 1]
<1>1. IsFiniteSet(S) /\ n \in Nat
  BY ObjectSets
<1>2. ASSUME NEW x \in S
      PROVE  Rank(S, x) \in Nat /\ Rank(S, x) + 1 \in 1..n
  <2>1. {y \in S : y < x} \in SUBSET S /\ {y \in S : y < x} # S
    BY DEF Object
  <2>2. Cardinality({y \in S : y < x}) < n /\ Cardinality({y \in S : y < x}) \in Nat
    BY <1>1, <2>1, FS_Subset, FS_CardinalityType
  <2> QED
    BY <1>1, <2>2 DEF Rank
<1>3. ASSUME NEW x \in S, NEW y \in S, Rank(S, x) = Rank(S, y)
      PROVE  x = y
  <2>1. x \in Int /\ y \in Int /\ Rank(S, x) \in Int
    BY <1>2 DEF Object
  <2> QED
    BY <1>3, <2>1, RankGrows
<1>4. f \in Injection(S, 1..n)
  <2>1. f \in [S -> 1..n]
    BY <1>2
  <2>2. \A x, y \in S : f[x] = f[y] => x = y
    BY <1>2, <1>3
  <2> HIDE DEF f
  <2> QED
    BY <2>1, <2>2 DEF Injection, IsInjective
<1>5. IsFiniteSet(1..n) /\ Cardinality(1..n) = n
  BY <1>1, FS_Interval
<1>6. f \in Surjection(S, 1..n)
  BY <1>4, <1>5, FS_Injection
<1>7. \A i \in 1..n : \E x \in S : Rank(S, x) = i - 1
  <2>1. \A i \in 1..n : \E x \in S : f[x] = i
    BY <1>6 DEF Surjection
  <2> QED
    BY <1>1, <1>2, <2>1
<1> QED
  BY <1>2, <1>3, <1>7

\* Sorted lists each element of a set of objects once.
LEMMA InOrder ==
  ASSUME NEW S \in SUBSET Object
  PROVE  Sorted(S) \in Seq(Object) /\ Range(Sorted(S)) = S /\ Distinct(Sorted(S))
<1> DEFINE n == Cardinality(S)
           s == Sorted(S)
<1>1. n \in Nat
  BY ObjectSets
<1>2. ASSUME NEW i \in 1..n
      PROVE  s[i] \in S /\ Rank(S, s[i]) = i - 1
  <2>1. s[i] = CHOOSE x \in S : Rank(S, x) = i - 1
    BY DEF Sorted, Rank
  <2>2. \E x \in S : Rank(S, x) = i - 1
    BY Ranks
  <2> QED
    BY <2>1, <2>2
<1>3. DOMAIN s = 1..n /\ s \in [1..n -> S]
  BY <1>2 DEF Sorted
<1>4. ASSUME NEW x \in S
      PROVE  \E i \in 1..n : s[i] = x
  <2>1. PICK i \in 1..n : i = Rank(S, x) + 1
    BY Ranks
  <2>2. s[i] \in S /\ Rank(S, s[i]) = i - 1
    BY <1>2
  <2>3. Rank(S, x) \in Int
    BY ObjectSets DEF Rank
  <2>4. Rank(S, s[i]) = Rank(S, x)
    BY <1>1, <2>1, <2>2, <2>3
  <2> QED
    BY <2>2, <2>4, Ranks
<1> HIDE DEF s
<1>5. s \in Seq(S)
  BY <1>1, <1>3, SeqDef
<1>6. s \in Seq(Object)
  BY <1>5, SeqGrows
<1>7. Range(s) = S
  BY <1>2, <1>3, <1>4 DEF Range
<1>8. Distinct(s)
  <2>1. ASSUME NEW i \in 1..n, NEW j \in 1..n, s[i] = s[j]
        PROVE  i = j
    BY <1>1, <1>2, <2>1
  <2> QED
    BY <1>3, <2>1 DEF Distinct
<1> QED
  BY <1>6, <1>7, <1>8 DEF s

\* What is left of a list of distinct objects without its head
LEMMA OneLess ==
  ASSUME NEW s \in Seq(Object), s # <<>>, Distinct(s)
  PROVE  /\ Distinct(Tail(s)) /\ Tail(s) \in Seq(Object) /\ Head(s) \in Object
         /\ Head(s) \in Range(s) /\ Range(Tail(s)) = Range(s) \ {Head(s)}
<1> DEFINE t == Tail(s)
           n == Len(s)
<1>1. /\ Head(s) \in Object /\ Head(s) = s[1] /\ t \in Seq(Object) /\ n \in Nat \ {0}
      /\ DOMAIN s = 1..n /\ DOMAIN t = 1..(n - 1) /\ \A i \in 1..(n - 1) : t[i] = s[i + 1]
  BY Popped
<1> HIDE DEF t, n
<1>2. Distinct(t)
  <2>1. ASSUME NEW i \in 1..(n - 1), NEW j \in 1..(n - 1), t[i] = t[j]
        PROVE  i = j
    <3>1. s[i + 1] = s[j + 1] /\ i + 1 \in DOMAIN s /\ j + 1 \in DOMAIN s
      BY <1>1, <2>1
    <3>2. i + 1 = j + 1
      BY <3>1 DEF Distinct
    <3> QED
      BY <3>2
  <2> QED
    BY <1>1, <2>1 DEF Distinct
<1>3. 1 \in DOMAIN s
  BY <1>1
<1>4. ASSUME NEW o \in Range(t)
      PROVE  o \in Range(s) /\ o # Head(s)
  <2>1. PICK i \in 1..(n - 1) : o = t[i]
    BY <1>1 DEF Range
  <2>2. o = s[i + 1] /\ i + 1 \in DOMAIN s /\ i + 1 # 1
    BY <1>1, <2>1
  <2> QED
    BY <1>1, <1>3, <2>2 DEF Range, Distinct
<1>5. ASSUME NEW o \in Range(s), o # Head(s)
      PROVE  o \in Range(t)
  <2>1. PICK i \in 1..n : o = s[i]
    BY <1>1 DEF Range
  <2>2. i # 1
    BY <1>1, <1>5, <2>1
  <2>3. i - 1 \in 1..(n - 1) /\ (i - 1) + 1 = i
    BY <1>1, <2>2
  <2>4. o = t[i - 1] /\ i - 1 \in DOMAIN t
    BY <1>1, <2>1, <2>3
  <2> QED
    BY <2>4 DEF Range
<1>6. Head(s) \in Range(s)
  BY <1>1, <1>3 DEF Range
<1> QED
  BY <1>1, <1>2, <1>4, <1>5, <1>6 DEF t
-----------------------------------------------------------------------------
(* What travels keeps its type *)

\* Calls are added and faults counted, never taken back.
Later == Len(calls) \in Nat /\ Len(calls)' \in Nat /\ Len(calls) <= Len(calls)'
         /\ spent \in [Faults -> Nat] /\ spent' \in [Faults -> Nat] /\ \A f \in Faults : spent[f] <= spent'[f]

LEMMA MoreToSay ==
  ASSUME Later
  PROVE  /\ Known \subseteq Known' /\ Requests \subseteq Requests' /\ Answers \subseteq Answers'
         /\ Events \subseteq Events' /\ Messages \subseteq Messages' /\ Served \subseteq Served'
<1>1. Known \subseteq Known'
  BY DEF Later, Known
<1>2. Requests \subseteq Requests'
  BY <1>1 DEF Requests
<1>3. \A f \in {"loss", "denial"} : spent[f] > 0 => spent'[f] > 0
  BY DEF Later, Faults
<1>4. Answers \subseteq Answers'
  <2>1. ASSUME NEW m \in Answers
        PROVE  m \in Answers'
    <3>1. m \in [k : {"answer"}, r : Requests, ok : BOOLEAN]
      BY DEF Answers
    <3>2. m \in [k : {"answer"}, r : Requests', ok : BOOLEAN]
      BY <1>2, <3>1
    <3>3. m.r.a = "unpair" /\ ~m.ok => spent'["denial"] > 0
      BY <1>3 DEF Answers
    <3> QED
      BY <3>2, <3>3 DEF Answers
  <2> QED
    BY <2>1
<1>5. Events \subseteq Events'
  BY <1>3 DEF Events
<1>6. Served \subseteq Served'
  BY <1>2 DEF Served
<1> QED
  BY <1>1, <1>2, <1>4, <1>5, <1>6 DEF Messages

\* A step of the page: it may send one request and read one message.
PageSends == outbox' = outbox \/ \E r \in Requests' : outbox' = Append(outbox, r)
PageReads == inbox' = inbox \/ (inbox # <<>> /\ inbox' = Tail(inbox))

LEMMA BackGrows ==
  ASSUME BackTypes, Known \subseteq Known', UNCHANGED backVars
  PROVE  BackTypes'
<1>1. RevocationType(Known) \subseteq RevocationType(Known')
  BY DEF RevocationType
<1> QED
  BY <1>1 DEF BackTypes, backVars

LEMMA PageSteps ==
  ASSUME NetTypes, Later, PageSends, PageReads, UNCHANGED <<control, wire, reqs, events, bridgeVars, backVars>>
  PROVE  NetTypes'
<1>1. /\ Known \subseteq Known' /\ Requests \subseteq Requests' /\ Answers \subseteq Answers'
      /\ Events \subseteq Events' /\ Messages \subseteq Messages' /\ Served \subseteq Served'
  BY MoreToSay
<1>2. /\ outbox \in Seq(Requests') /\ control \in Seq(Requests')
      /\ wire \in Seq(Messages') /\ inbox \in Seq(Messages')
  BY <1>1, SeqGrows DEF NetTypes
<1>3. outbox' \in Seq(Requests')
  <2>1. CASE outbox' = outbox
    BY <1>2, <2>1
  <2>2. ASSUME NEW r \in Requests', outbox' = Append(outbox, r)
        PROVE  outbox' \in Seq(Requests')
    BY <1>2, <2>2, AppendProperties
  <2> QED
    BY <2>1, <2>2 DEF PageSends
<1>4. inbox' \in Seq(Messages')
  BY <1>2, Popped DEF PageReads
<1>5. /\ reqs' \subseteq Served' /\ events' \subseteq Events'
      /\ BackTypes'
      /\ sess' \in [Device -> Known' \cup {None}] /\ plane' \in [Device -> Known' \cup {None}]
  BY <1>1, BackGrows DEF NetTypes, bridgeVars
<1>6. control' \in Seq(Requests') /\ wire' \in Seq(Messages')
  BY <1>2
<1> QED
  BY <1>3, <1>4, <1>5, <1>6 DEF NetTypes

\* The answers and the requests that are made on the way
LEMMA Answerable ==
  ASSUME NEW r \in Requests, NEW ok \in BOOLEAN, r.a = "unpair" /\ ~ok => spent["denial"] > 0
  PROVE  [k |-> "answer", r |-> r, ok |-> ok] \in Messages
BY DEF Messages, Answers

LEMMA Requestable ==
  ASSUME NEW r \in Requests
  PROVE  /\ \A t \in Known \cup {None} : [r EXCEPT !.tok = t] \in Requests
         /\ \A x \in {"sent", "checking", "spawning", "waiting", "despawning", "opened"} : [r EXCEPT !.at = x] \in Requests
         /\ \A x \in {"open", "wait", "close", "unpair", "cleanup"} :
              [r EXCEPT !.a = x] \in Requests /\ [r EXCEPT !.a = x].a = x
         /\ r.c \in Known /\ r.d \in Device /\ r.tok \in Known \cup {None}
         /\ r.a \in {"open", "wait", "close", "unpair", "cleanup"}
BY DEF Requests

LEMMA BridgeSends ==
  ASSUME NetTypes, NEW r \in Requests, SendBackgroundRequest(r)
  PROVE  control' \in Seq(Requests)
<1>1. sess[r.d] \in Known \cup {None}
  <2>1. r.d \in Device
    BY Requestable
  <2> QED
    BY <2>1 DEF NetTypes
<1> DEFINE t == IF r.a = "close" THEN sess[r.d] ELSE None
<1>2. t \in Known \cup {None} /\ control' = Append(control, [r EXCEPT !.tok = t])
  BY <1>1 DEF SendBackgroundRequest
<1> HIDE DEF t
<1>3. [r EXCEPT !.tok = t] \in Requests
  BY <1>2, Requestable
<1> QED
  BY <1>2, <1>3, Appended DEF NetTypes

LEMMA BridgeReplies ==
  ASSUME NetTypes, NEW r \in Requests, NEW ok \in BOOLEAN, r.a = "unpair" /\ ~ok => spent["denial"] > 0, Reply(r, ok)
  PROVE  inbox' \in Seq(Messages)
BY Answerable, Appended DEF NetTypes, Reply


\* Steps that leave the faults alone
LEMMA SameTypes ==
  ASSUME UNCHANGED <<calls, spent>>
  PROVE  /\ Known' = Known /\ Requests' = Requests /\ Served' = Served
         /\ Messages' = Messages /\ Events' = Events /\ Answers' = Answers
BY DEF Known, Requests, Served, Messages, Answers, Events

LEMMA ServedFacts ==
  ASSUME NEW r \in Served
  PROVE  /\ r \in Requests /\ r.a \in {"open", "wait", "close"}
         /\ r.at \in {"checking", "spawning"} => r.a = "open"
         /\ r.at = "waiting" => r.a = "wait"
         /\ r.at = "despawning" => r.a = "close"
BY DEF Served

LEMMA Serving ==
  ASSUME NEW r \in Requests
  PROVE  /\ r.a = "open" => [r EXCEPT !.at = "checking"] \in Served /\ [r EXCEPT !.at = "spawning"] \in Served
         /\ r.a = "wait" => [r EXCEPT !.at = "waiting"] \in Served
         /\ r.a = "close" => [r EXCEPT !.at = "despawning"] \in Served
BY DEF Served, Requests

-----------------------------------------------------------------------------
(* The bridge, the background and the daemon *)

LEMMA TakesTyped ==
  ASSUME NetTypes, BridgeTakes
  PROVE  NetTypes'
<1> DEFINE r == Head(outbox)
<1>1. r \in Requests /\ Tail(outbox) \in Seq(Requests) /\ outbox # <<>>
  BY Popped DEF NetTypes, BridgeTakes
<1>2. /\ outbox' = Tail(outbox)
      /\ UNCHANGED <<calls, spent, wire, events, bridgeVars, backVars>>
  BY DEF BridgeTakes, faultVars
<1> DEFINE checks == r.a = "open" /\ reqs' = reqs \cup {[r EXCEPT !.at = "checking"]} /\ UNCHANGED <<control, inbox>>
           waits == r.a = "wait" /\ reqs' = reqs \cup {[r EXCEPT !.at = "waiting"]} /\ UNCHANGED <<control, inbox>>
           refuses == r.a = "wait" /\ Reply(r, FALSE) /\ UNCHANGED <<reqs, control>>
           sends == SendBackgroundRequest(r) /\ UNCHANGED <<reqs, inbox>>
<1>3. checks \/ waits \/ refuses \/ sends
  BY Zenon DEF BridgeTakes
<1>4. control' \in Seq(Requests) /\ reqs' \subseteq Served /\ inbox' \in Seq(Messages)
  <2> HIDE DEF r
  <2>1. CASE checks \/ waits
    BY <1>1, <2>1, Serving DEF NetTypes
  <2>2. CASE refuses
    BY <1>1, <2>2, BridgeReplies DEF NetTypes
  <2>3. CASE sends
    BY <1>1, <2>3, BridgeSends DEF NetTypes
  <2> QED
    BY <1>3, <2>1, <2>2, <2>3
<1> HIDE DEF r
<1> QED
  BY <1>1, <1>2, <1>4, SameTypes DEF NetTypes, bridgeVars, backVars, BackTypes

LEMMA ServedTyped ==
  ASSUME NetTypes, NEW r \in reqs, OpenAllowed(r) \/ CloseReplies(r)
  PROVE  NetTypes'
<1>1. r \in Served /\ r \in Requests /\ r.a # "unpair" /\ reqs' = reqs \ {r}
  BY ServedFacts DEF NetTypes, OpenAllowed, CloseReplies
<1>2. UNCHANGED <<calls, spent, outbox, wire, events, bridgeVars, backVars>>
  BY DEF OpenAllowed, CloseReplies, faultVars
<1>3. control' \in Seq(Requests) /\ inbox' \in Seq(Messages)
  <2>1. CASE SendBackgroundRequest(r) /\ UNCHANGED inbox
    BY <1>1, <2>1, BridgeSends DEF NetTypes
  <2>2. CASE Reply(r, FALSE) /\ UNCHANGED control
    BY <1>1, <2>2, BridgeReplies DEF NetTypes
  <2>3. CASE CloseReplies(r)
    BY <1>1, <2>3, BridgeReplies DEF NetTypes, CloseReplies
  <2> QED
    BY <2>1, <2>2, <2>3 DEF OpenAllowed
<1> QED
  BY <1>1, <1>2, <1>3, SameTypes DEF NetTypes, bridgeVars, backVars, BackTypes

LEMMA SpawnedTyped ==
  ASSUME NetTypes, Later, NEW r \in reqs, PlaneSpawned(r) \/ PlaneReady(r)
  PROVE  NetTypes'
<1>1. r \in Served /\ r \in Requests /\ r.a # "unpair" /\ r.d \in Device /\ reqs' = reqs \ {r}
  BY ServedFacts, Requestable DEF NetTypes, PlaneSpawned, PlaneReady
<1>2. UNCHANGED <<calls, outbox, wire, events, backVars>>
  BY DEF PlaneSpawned, PlaneReady
<1>3. /\ control' \in Seq(Requests) /\ inbox' \in Seq(Messages)
      /\ sess' \in [Device -> Known \cup {None}] /\ plane' \in [Device -> Known \cup {None}]
  <2>1. CASE PlaneReady(r)
    <3>1. /\ \E ok \in BOOLEAN : Reply(r, ok)
          /\ plane' = plane \/ plane' = [plane EXCEPT ![r.d] = None]
          /\ UNCHANGED <<control, sess>>
      BY <2>1 DEF PlaneReady
    <3>2. inbox' \in Seq(Messages)
      BY <1>1, <3>1, BridgeReplies
    <3> QED
      BY <3>1, <3>2 DEF NetTypes
  <2>2. CASE PlaneSpawned(r)
    <3>1. CASE Reply(r, TRUE) /\ UNCHANGED <<control, bridgeVars>>
      <4>1. inbox' \in Seq(Messages)
        BY <1>1, <3>1, BridgeReplies
      <4> QED
        BY <3>1, <4>1 DEF NetTypes, bridgeVars
    <3>2. CASE /\ sess' = [sess EXCEPT ![r.d] = None] /\ plane' = [plane EXCEPT ![r.d] = None]
               /\ control' = Append(control, [r EXCEPT !.a = "cleanup"]) /\ UNCHANGED inbox
      <4>1. [r EXCEPT !.a = "cleanup"] \in Requests
        BY <1>1, Requestable
      <4> QED
        BY <3>2, <4>1, Appended DEF NetTypes
    <3> QED
      BY <2>2, <3>1, <3>2 DEF PlaneSpawned
  <2> QED
    BY <2>1, <2>2
<1>4. Known' = Known /\ Requests' = Requests /\ Served' = Served
  BY <1>2 DEF Known, Requests, Served
<1>5. Seq(Messages) \subseteq Seq(Messages') /\ Events \subseteq Events'
  BY MoreToSay, SeqGrows
<1> QED
  BY <1>1, <1>2, <1>3, <1>4, <1>5 DEF NetTypes, backVars, BackTypes

LEMMA HearsTyped ==
  ASSUME NetTypes, OneAnswer, BridgeHears
  PROVE  NetTypes'
<1> DEFINE m == Head(wire)
<1>1. /\ m \in Messages /\ Tail(wire) \in Seq(Messages) /\ wire # <<>> /\ wire' = Tail(wire)
      /\ m = wire[1] /\ 1 \in DOMAIN wire
  BY Popped DEF NetTypes, BridgeHears
<1>2. UNCHANGED <<calls, spent, outbox, backVars>>
  BY DEF BridgeHears, faultVars
<1> DEFINE hears == /\ m.k = "answer"
                    /\ OpenAnswered(m.r, m.ok) \/ CloseAnswered(m.r, m.ok) \/ OtherAnswered(m.r, m.ok)
                    /\ control' = Tail(control)
                    /\ UNCHANGED events
           passes == ReconcileFrameDevice(m) /\ UNCHANGED <<control, reqs>>
<1>3. hears \/ passes
  BY Zenon DEF BridgeHears
<1> HIDE DEF m
<1>4. CASE hears
  <2>1. m \in Answers
    BY <1>1, <1>4 DEF Messages, Events
  <2>2. m.r \in Requests /\ m.ok \in BOOLEAN /\ (m.r.a = "unpair" /\ ~m.ok => spent["denial"] > 0)
    BY <2>1 DEF Answers
  <2> DEFINE r == m.r
             ok == m.ok
  <2>3. r.c \in Known /\ r.d \in Device /\ r.tok \in Known \cup {None}
    BY <2>2, Requestable
  <2>4. control' \in Seq(Requests)
    BY <1>1, <1>4, Popped DEF OneAnswer, NetTypes
  <2>5. OpenAnswered(r, ok) \/ CloseAnswered(r, ok) \/ OtherAnswered(r, ok)
    BY <1>4
  <2>6. r \in Requests /\ ok \in BOOLEAN /\ (r.a = "unpair" /\ ~ok => spent["denial"] > 0)
    BY <2>2
  <2> HIDE DEF r, ok
  <2>7. CASE OpenAnswered(r, ok)
    <3>1. CASE ok
      <4>1. /\ sess' = [sess EXCEPT ![r.d] = r.c] /\ plane' = [plane EXCEPT ![r.d] = r.c]
            /\ reqs' = reqs \cup {[r EXCEPT !.at = "spawning"]} /\ inbox' = inbox /\ r.a = "open"
        BY <2>7, <3>1 DEF OpenAnswered
      <4>2. reqs' \subseteq Served
        BY <2>6, <4>1, Serving DEF NetTypes
      <4> QED
        BY <1>1, <1>2, <1>4, <2>3, <2>4, <4>1, <4>2, SameTypes DEF NetTypes, backVars, BackTypes
    <3>2. CASE ~ok
      <4>1. Reply(r, FALSE) /\ UNCHANGED <<bridgeVars, reqs>> /\ r.a = "open"
        BY <2>7, <3>2 DEF OpenAnswered
      <4>2. inbox' \in Seq(Messages)
        BY <2>6, <4>1, BridgeReplies
      <4> QED
        BY <1>1, <1>2, <1>4, <2>4, <4>1, <4>2, SameTypes DEF NetTypes, backVars, BackTypes, bridgeVars
    <3> QED
      BY <2>6, <3>1, <3>2
  <2>8. CASE CloseAnswered(r, ok)
    <3>1. CASE ok
      <4>1. /\ sess' = [sess EXCEPT ![r.d] = None] /\ plane' = [plane EXCEPT ![r.d] = None]
            /\ reqs' = reqs \cup {[r EXCEPT !.at = "despawning"]} /\ inbox' = inbox /\ r.a = "close"
        BY <2>8, <3>1 DEF CloseAnswered
      <4>2. reqs' \subseteq Served
        BY <2>6, <4>1, Serving DEF NetTypes
      <4> QED
        BY <1>1, <1>2, <1>4, <2>3, <2>4, <4>1, <4>2, SameTypes DEF NetTypes, backVars, BackTypes
    <3>2. CASE ~ok
      <4>1. /\ sess' = IF r.tok # None THEN [sess EXCEPT ![r.d] = r.tok] ELSE sess
            /\ Reply(r, FALSE) /\ UNCHANGED <<plane, reqs>> /\ r.a = "close"
        BY <2>8, <3>2 DEF CloseAnswered
      <4>2. inbox' \in Seq(Messages)
        BY <2>6, <4>1, BridgeReplies
      <4>3. sess' \in [Device -> Known \cup {None}]
        BY <2>3, <4>1 DEF NetTypes
      <4> QED
        BY <1>1, <1>2, <1>4, <2>4, <4>1, <4>2, <4>3, SameTypes DEF NetTypes, backVars, BackTypes
    <3> QED
      BY <2>6, <3>1, <3>2
  <2>9. CASE OtherAnswered(r, ok)
    <3>1. /\ r.a \in {"cleanup", "unpair"} /\ UNCHANGED <<bridgeVars, reqs>>
          /\ Reply([r EXCEPT !.a = IF r.a = "cleanup" THEN "open" ELSE r.a], ok)
      BY <2>9 DEF OtherAnswered
    <3> DEFINE a == IF r.a = "cleanup" THEN "open" ELSE r.a
    <3>2. a \in {"open", "unpair"} /\ (a = "unpair" => r.a = "unpair") /\ Reply([r EXCEPT !.a = a], ok)
      BY <3>1
    <3> HIDE DEF a
    <3>3. [r EXCEPT !.a = a] \in Requests /\ [r EXCEPT !.a = a].a = a
      BY <2>6, <3>2 DEF Requests
    <3>4. inbox' \in Seq(Messages)
      BY <2>6, <3>2, <3>3, BridgeReplies
    <3> QED
      BY <1>1, <1>2, <1>4, <2>4, <3>1, <3>4, SameTypes DEF NetTypes, backVars, BackTypes, bridgeVars
  <2> QED
    BY <2>5, <2>7, <2>8, <2>9
<1>5. CASE passes
  <2>1. m.k # "answer" /\ UNCHANGED <<control, reqs>>
    BY <1>5 DEF ReconcileFrameDevice
  <2>2. m \in Events /\ m.d \in Device
    BY <1>1, <2>1 DEF Messages, Answers, Events
  <2>3. \/ /\ sess' = [sess EXCEPT ![m.d] = None] /\ plane' = [plane EXCEPT ![m.d] = None]
           /\ events' = events \cup {m} /\ inbox' = inbox
        \/ inbox' = Append(inbox, m) /\ UNCHANGED <<events, bridgeVars>>
    BY <1>5 DEF ReconcileFrameDevice
  <2>4. /\ inbox' \in Seq(Messages) /\ events' \subseteq Events
        /\ sess' \in [Device -> Known \cup {None}] /\ plane' \in [Device -> Known \cup {None}]
    <3>1. Append(inbox, m) \in Seq(Messages)
      BY <1>1, AppendProperties DEF NetTypes
    <3> QED
      BY <2>2, <2>3, <3>1 DEF NetTypes, bridgeVars
  <2> QED
    BY <1>1, <1>2, <2>1, <2>4, SameTypes DEF NetTypes, backVars, BackTypes
<1> QED
  BY <1>3, <1>4, <1>5

LEMMA PassedTyped ==
  ASSUME NetTypes, NEW e \in events, EventPassed(e)
  PROVE  NetTypes'
<1>1. /\ e \in Events /\ e \in Messages
      /\ events' = events \ {e} /\ inbox' = Append(inbox, e)
      /\ UNCHANGED <<calls, spent, outbox, reqs, control, wire, bridgeVars, backVars>>
  BY DEF NetTypes, EventPassed, faultVars, Messages
<1>2. inbox' \in Seq(Messages)
  BY <1>1, Appended DEF NetTypes
<1> QED
  BY <1>1, <1>2, SameTypes DEF NetTypes, bridgeVars, backVars, BackTypes

\* The background posts messages that may be said after the step.
LEMMA BackgroundPosts ==
  ASSUME NetTypes, Later, UNCHANGED <<calls, outbox, reqs, events, inbox, bridgeVars>>,
         NEW w \in Seq(Messages'), wire' = wire \o w, BackTypes',
         control' \in Seq(Requests)
  PROVE  NetTypes'
<1>1. Known' = Known /\ Requests' = Requests /\ Served' = Served
  BY DEF Known, Requests, Served
<1>2. /\ wire \in Seq(Messages') /\ inbox \in Seq(Messages') /\ events \subseteq Events'
  BY MoreToSay, SeqGrows DEF NetTypes
<1>3. wire' \in Seq(Messages')
  BY <1>2, ConcatProperties
<1> QED
  BY <1>1, <1>2, <1>3 DEF NetTypes, bridgeVars

LEMMA ControlHead ==
  ASSUME NetTypes, control # <<>>
  PROVE  /\ Head(control) \in Requests /\ Head(control).c \in Known
         /\ <<[Head(control) EXCEPT !.at = "opened"]>> \o Tail(control) \in Seq(Requests)
<1>1. Head(control) \in Requests /\ Tail(control) \in Seq(Requests)
  BY Popped DEF NetTypes
<1>2. [Head(control) EXCEPT !.at = "opened"] \in Requests /\ Head(control).c \in Known
  BY <1>1, Requestable
<1>3. <<[Head(control) EXCEPT !.at = "opened"]>> \in Seq(Requests)
  BY <1>2
<1> QED
  BY <1>1, <1>2, <1>3, ConcatProperties

LEMMA AnswerTyped ==
  ASSUME NetTypes, Later, UNCHANGED calls, control # <<>>, NEW ok \in BOOLEAN,
         Head(control).a = "unpair" /\ ~ok => spent'["denial"] > 0
  PROVE  <<Answer(ok)>> \in Seq(Messages') /\ wire \o <<Answer(ok)>> = Append(wire, Answer(ok))
<1>1. Head(control) \in Requests
  BY ControlHead
<1>2. Head(control) \in Requests'
  BY <1>1, MoreToSay
<1>3. Answer(ok) \in Answers'
  BY <1>2 DEF Answers, Answer
<1>4. Answer(ok) \in Messages'
  BY <1>3 DEF Messages
<1>5. wire \o <<Answer(ok)>> = Append(wire, Answer(ok))
  BY AppendIsConcat DEF NetTypes
<1> QED
  BY <1>4, <1>5
\* The background posts events, and at most one answer, the first.
Posts(w) ==
  /\ wire' = wire \o w /\ control' = control
  /\ \A i, j \in DOMAIN w : w[i].k = "answer" /\ w[j].k = "answer" => i = j
  /\ \A i \in DOMAIN w : w[i].k = "answer" =>
       control # <<>> /\ w[i].r = Head(control) /\ \A j \in DOMAIN wire : wire[j].k # "answer"

LEMMA Joined ==
  ASSUME NEW S, NEW v \in Seq(S), NEW w \in Seq(S)
  PROVE  /\ v \o w \in Seq(S) /\ DOMAIN (v \o w) = 1..(Len(v) + Len(w))
         /\ DOMAIN v = 1..Len(v) /\ DOMAIN w = 1..Len(w) /\ Len(v) \in Nat /\ Len(w) \in Nat
         /\ \A i \in 1..Len(v) : (v \o w)[i] = v[i]
         /\ \A i \in DOMAIN (v \o w) : i \notin 1..Len(v) => i - Len(v) \in 1..Len(w) /\ (v \o w)[i] = w[i - Len(v)]
BY ConcatProperties, LenProperties

LEMMA PostsKeep ==
  ASSUME NetTypes, OneAnswer, NEW S, wire \in Seq(S), NEW w \in Seq(S), Posts(w)
  PROVE  OneAnswer'
<1> DEFINE n == Len(wire)
           x == wire \o w
<1>1. /\ DOMAIN x = 1..(n + Len(w)) /\ DOMAIN wire = 1..n /\ DOMAIN w = 1..Len(w) /\ n \in Nat /\ Len(w) \in Nat
      /\ \A i \in 1..n : x[i] = wire[i]
      /\ \A i \in DOMAIN x : i \notin 1..n => i - n \in 1..Len(w) /\ x[i] = w[i - n]
  BY Joined
<1>2. wire' = x /\ control' = control
  BY DEF Posts
<1> HIDE DEF n, x
<1>3. ASSUME NEW i \in DOMAIN x, x[i].k = "answer"
      PROVE  control # <<>> /\ x[i].r = Head(control)
  BY <1>1, <1>3 DEF OneAnswer, Posts
<1>4. ASSUME NEW i \in DOMAIN x, x[i].k = "answer", NEW j \in DOMAIN x, x[j].k = "answer"
      PROVE  i = j
  <2>1. CASE i \in 1..n /\ j \in 1..n
    BY <1>1, <1>4, <2>1 DEF OneAnswer
  <2>2. CASE i \notin 1..n
    <3>1. i - n \in DOMAIN w /\ w[i - n].k = "answer"
      BY <1>1, <1>4, <2>2
    <3>2. \A l \in DOMAIN wire : wire[l].k # "answer"
      BY <3>1 DEF Posts
    <3>3. j \notin 1..n /\ j - n \in DOMAIN w /\ w[j - n].k = "answer"
      BY <1>1, <1>4, <3>2
    <3>4. i - n = j - n
      BY <3>1, <3>3 DEF Posts
    <3> QED
      BY <1>1, <3>4
  <2>3. CASE j \notin 1..n /\ i \in 1..n
    <3>1. j - n \in DOMAIN w /\ w[j - n].k = "answer"
      BY <1>1, <1>4, <2>3
    <3>2. \A l \in DOMAIN wire : wire[l].k # "answer"
      BY <3>1 DEF Posts
    <3> QED
      BY <1>1, <1>4, <2>3, <3>2
  <2> QED
    BY <2>1, <2>2, <2>3
<1> QED
  BY <1>2, <1>3, <1>4 DEF OneAnswer

\* Requests queue up behind the one under way.
\* What happens to the answers and events leaves a revocation and its request.
LEMMA UnpairingStays ==
  ASSUME Unpairing, Pending("unpair") => Pending("unpair")',
         \A v \in revoking' : v.page => \E u \in revoking : u.page,
         \A v, w \in revoking' : v.page /\ w.page => v = w
  PROVE  Unpairing'
BY DEF Unpairing

LEMMA UnpairingRests ==
  ASSUME Unpairing, UNCHANGED revoking, Pending("unpair") => Pending("unpair")' \/ \A v \in revoking : ~v.page
  PROVE  Unpairing'
BY DEF Unpairing

LEMMA QueueKeeps ==
  ASSUME NetTypes, OneAnswer, Unpairing, UNCHANGED revoking,
         wire' = wire, control' = control \/ \E r \in Requests : control' = Append(control, r)
  PROVE  OneAnswer' /\ Unpairing'
<1>1. ASSUME NEW r \in Requests, control # <<>>, control' = Append(control, r)
      PROVE  control' # <<>> /\ Head(control') = Head(control)
  <2>1. /\ Len(control) \in Nat \ {0} /\ Head(control) = control[1]
        /\ Len(control') = Len(control) + 1 /\ control'[1] = control[1] /\ control' \in Seq(Requests)
    BY <1>1, Popped, Appended DEF NetTypes
  <2>2. control' # <<>>
    BY <2>1, EmptySeq
  <2> QED
    BY <2>1, <2>2, Popped
<1>2. OneAnswer'
  BY <1>1 DEF OneAnswer
<1>3. Pending("unpair") => Pending("unpair")'
  BY <1>1 DEF Pending
<1> QED
  BY <1>2, <1>3, UnpairingRests

LEMMA HearsKeeps ==
  ASSUME NetTypes, OneAnswer, Unpairing, BridgeHears
  PROVE  OneAnswer' /\ Unpairing'
<1> DEFINE n == Len(wire)
<1>1. /\ wire # <<>> /\ Head(wire) = wire[1] /\ n \in Nat \ {0} /\ DOMAIN wire = 1..n
      /\ wire' = Tail(wire) /\ DOMAIN Tail(wire) = 1..(n - 1)
      /\ \A i \in 1..(n - 1) : Tail(wire)[i] = wire[i + 1]
  BY Popped DEF NetTypes, BridgeHears
<1>2. Head(wire).k = "answer" \/ control' = control
  BY DEF BridgeHears
<1> HIDE DEF n
<1>3. ASSUME NEW i \in DOMAIN wire', wire'[i].k = "answer"
      PROVE  i + 1 \in DOMAIN wire /\ wire'[i] = wire[i + 1] /\ control' = control
  <2>1. i \in 1..(n - 1) /\ i + 1 \in DOMAIN wire /\ wire'[i] = wire[i + 1] /\ i + 1 # 1
    BY <1>1
  <2>2. wire[1].k # "answer"
    BY <1>1, <1>3, <2>1 DEF OneAnswer
  <2> QED
    BY <1>1, <1>2, <2>1, <2>2
<1>4. ASSUME NEW i \in DOMAIN wire', wire'[i].k = "answer", NEW j \in DOMAIN wire', wire'[j].k = "answer"
      PROVE  i = j
  <2>1. i + 1 = j + 1
    BY <1>3, <1>4 DEF OneAnswer
  <2> QED
    BY <1>1, <2>1
<1>5. ASSUME NEW i \in DOMAIN wire', wire'[i].k = "answer"
      PROVE  control' # <<>> /\ wire'[i].r = Head(control')
  BY <1>3, <1>5 DEF OneAnswer
<1>6. OneAnswer'
  BY <1>4, <1>5 DEF OneAnswer
<1>7. Pending("unpair") => Pending("unpair")'
  <2> SUFFICES ASSUME Pending("unpair") PROVE Pending("unpair")'
    OBVIOUS
  <2>1. \A i \in DOMAIN wire : wire[i].k # "answer"
    BY DEF Pending
  <2>2. control' = control
    BY <1>1, <1>2, <2>1
  <2>3. \A i \in DOMAIN wire' : wire'[i].k # "answer"
    BY <1>3, <2>1
  <2> QED
    BY <2>2, <2>3 DEF Pending
<1>8. revoking' = revoking
  BY DEF BridgeHears, backVars
<1> QED
  BY <1>6, <1>7, <1>8, UnpairingRests

\* What the background may do about the request under way, or a session whose
\* close failed
LEMMA BackgroundTyped ==
  ASSUME NetTypes, OneAnswer, Unpairing, Later, bound \in Scenario,
         \/ DaemonOpens \/ BackgroundOpens \/ BackgroundDrops \/ BackgroundCloses
         \/ \E t \in orphans : OrphanRetried(t)
  PROVE  NetTypes' /\ OneAnswer' /\ Unpairing'
<1> DEFINE asked == DaemonOpens \/ BackgroundOpens \/ BackgroundDrops \/ BackgroundCloses
<1>1. UNCHANGED backUnchanged /\ UNCHANGED <<granted, revoking>>
  BY DEF DaemonOpens, BackgroundOpens, BackgroundDrops, BackgroundCloses, OrphanRetried
<1>2. asked => /\ control # <<>> /\ Head(control).c \in Known /\ Head(control).a # "unpair"
               /\ \A i \in DOMAIN wire : wire[i].k # "answer"
  BY ControlHead DEF DaemonOpens, BackgroundOpens, BackgroundDrops, BackgroundCloses, Pending
<1>3. BackTypes'
  <2>1. Known' = Known
    BY <1>1 DEF Known, backUnchanged
  <2>2. alive' \cup orphans' \subseteq Known
    <3>1. CASE DaemonOpens
      BY <1>2, <3>1 DEF DaemonOpens, NetTypes, BackTypes
    <3>2. CASE BackgroundOpens \/ BackgroundDrops \/ BackgroundCloses
      BY <3>2 DEF BackgroundOpens, BackgroundDrops, BackgroundCloses, CloseForCleanup, NetTypes, BackTypes
    <3>3. ASSUME NEW t \in orphans, OrphanRetried(t) PROVE alive' \cup orphans' \subseteq Known
      BY <3>3 DEF OrphanRetried, NetTypes, BackTypes
    <3> QED
      BY <3>1, <3>2, <3>3
  <2> QED
    BY <1>1, <2>1, <2>2 DEF BackTypes, NetTypes
<1>4. UNCHANGED <<calls, outbox, reqs, events, inbox, bridgeVars>>
  BY <1>1 DEF backUnchanged
<1>5. CASE DaemonOpens
  <2>1. control' = <<[Head(control) EXCEPT !.at = "opened"]>> \o Tail(control) /\ wire' = wire /\ spent' = spent
    BY <1>5 DEF DaemonOpens, faultVars
  <2>2. control' \in Seq(Requests)
    BY <1>2, <1>5, <2>1, ControlHead
  <2>3. NetTypes'
    BY <1>3, <1>4, <2>1, <2>2, SameTypes DEF NetTypes, bridgeVars
  <2>4. OneAnswer'
    BY <1>2, <1>5, <2>1 DEF OneAnswer
  <2> QED
    BY <1>1, <1>2, <1>5, <2>3, <2>4, UnpairingRests DEF Pending
<1>6. CASE BackgroundOpens \/ BackgroundDrops \/ BackgroundCloses
  <2>0. PICK allowed \in BOOLEAN : allowed = (Head(control).d \in granted)
    <3>1. CASE Head(control).d \in granted
      <4>1. (Head(control).d \in granted) = TRUE
        BY <3>1
      <4> QED
        BY <4>1
    <3>2. CASE Head(control).d \notin granted
      <4>1. (Head(control).d \in granted) = FALSE
        BY <3>2
      <4> QED
        BY <4>1
    <3> QED
      BY <3>1, <3>2
  <2>1. PICK ok \in BOOLEAN : Post(Answer(ok)) /\ control' = control
    <3>1. BackgroundOpens => (Post(Answer(allowed)) \/ Post(Answer(FALSE))) /\ control' = control
      BY <2>0, Zenon DEF BackgroundOpens
    <3>2. BackgroundDrops => Post(Answer(FALSE)) /\ control' = control
      BY DEF BackgroundDrops
    <3>3. BackgroundCloses => (Post(Answer(TRUE)) \/ Post(Answer(FALSE))) /\ control' = control
      BY DEF BackgroundCloses
    <3> QED
      BY <1>6, <3>1, <3>2, <3>3
  <2>2. <<Answer(ok)>> \in Seq(Messages') /\ wire' = wire \o <<Answer(ok)>>
    <3>1. Head(control).a = "unpair" /\ ~ok => spent'["denial"] > 0
      BY <1>2, <1>6
    <3> QED
      BY <1>2, <1>4, <1>6, <2>1, <3>1, AnswerTyped DEF Post
  <2>3. control' \in Seq(Requests)
    BY <2>1 DEF NetTypes
  <2>4. NetTypes'
    BY <1>3, <1>4, <2>2, <2>3, BackgroundPosts
  <2>5. wire \in Seq(Messages')
    BY MoreToSay, SeqGrows DEF NetTypes
  <2>6. Posts(<<Answer(ok)>>)
    BY <1>2, <1>6, <2>1, <2>2 DEF Posts, Answer
  <2>7. OneAnswer'
    BY <2>2, <2>5, <2>6, PostsKeep
  <2> QED
    BY <1>1, <1>2, <1>6, <2>4, <2>7, UnpairingRests DEF Pending
<1>7. ASSUME NEW t \in orphans, OrphanRetried(t) PROVE NetTypes' /\ OneAnswer' /\ Unpairing'
  <2>1. UNCHANGED <<control, wire, spent>>
    BY <1>7 DEF OrphanRetried, faultVars
  <2>2. NetTypes'
    BY <1>3, <1>4, <2>1, SameTypes DEF NetTypes, bridgeVars
  <2> QED
    BY <1>1, <2>1, <2>2, UnpairingRests DEF OneAnswer, Pending
<1> QED
  BY <1>5, <1>6, <1>7

\* The events of a revocation, one for each device
Revoked == {[k |-> "revoked", d |-> d] : d \in bound.devices}

LEMMA RevocationTyped ==
  ASSUME bound \in Scenario
  PROVE  SetToSeq(Revoked) \in Seq(Messages') /\ Range(SetToSeq(Revoked)) = Revoked
<1>1. IsFiniteSet(bound.devices) /\ bound.devices \subseteq Device
  BY FS_Subset DEF Scenario
<1>2. IsFiniteSet(Revoked)
  <2> DEFINE f == [d \in bound.devices |-> [k |-> "revoked", d |-> d]]
  <2>1. f \in Surjection(bound.devices, Revoked)
    BY DEF Revoked, Surjection
  <2> HIDE DEF f
  <2> QED
    BY <1>1, <2>1, FS_Surjection
<1>3. Revoked \subseteq Messages'
  BY <1>1 DEF Revoked, Messages, Events
<1>4. SetToSeq(Revoked) \in Seq(Revoked) /\ Range(SetToSeq(Revoked)) = Revoked
  BY <1>2, Listed
<1> QED
  BY <1>3, <1>4, SeqGrows

\* A revocation begins, or goes on: nothing is posted.
RevocationGoesOn ==
  \/ BackgroundUnpairs \/ RevokedElsewhere
  \/ \E v \in revoking : (\E d \in v.left : GrantRemoved(v, d)) \/ \E t \in v.close : SessionRevoked(v, t)

LEMMA Revisable ==
  ASSUME NEW K, NEW v \in RevocationType(K)
  PROVE  v.page \in BOOLEAN /\ v.left \subseteq Device /\ v.close \subseteq K
BY DEF RevocationType

LEMMA RevocationsGoOn ==
  ASSUME NetTypes, bound \in Scenario, RevocationGoesOn
  PROVE  /\ BackTypes'
         /\ \/ /\ Pending("unpair") /\ \A v \in revoking : ~v.page
               /\ \E x \in RevocationType(Known) : revoking' = revoking \cup {x}
            \/ \E x \in RevocationType(Known) : ~x.page /\ revoking' = revoking \cup {x}
            \/ \E v \in revoking, x \in RevocationType(Known) :
                 x.page = v.page /\ revoking' = (revoking \ {v}) \cup {x}
<1>1. granted \subseteq Device /\ revoking \subseteq RevocationType(Known) /\ alive \cup orphans \subseteq Known
  BY DEF NetTypes, BackTypes
<1>2. bound.devices \subseteq Device
  BY DEF Scenario
<1>3. Known' = Known
  BY DEF RevocationGoesOn, BackgroundUnpairs, RevokedElsewhere, GrantRemoved, SessionRevoked, backUnchanged, Known
<1>4. ASSUME NEW page \in BOOLEAN
      PROVE  /\ [page |-> page, left |-> bound.devices, close |-> {}] \in RevocationType(Known)
             /\ [page |-> page, left |-> bound.devices, close |-> {}].page = page
  BY <1>2 DEF RevocationType
<1>5. CASE BackgroundUnpairs
  BY <1>1, <1>3, <1>4, <1>5 DEF BackgroundUnpairs, Begins, BackTypes
<1>6. CASE RevokedElsewhere
  BY <1>1, <1>3, <1>4, <1>6 DEF RevokedElsewhere, Begins, BackTypes
<1>7. ASSUME NEW v \in revoking, NEW d \in v.left, GrantRemoved(v, d)
      PROVE  BackTypes' /\ \E x \in RevocationType(Known) : x.page = v.page /\ revoking' = (revoking \ {v}) \cup {x}
  <2>1. PICK l \in SUBSET Device, c \in SUBSET Known : l = v.left \ {d} /\ c = Registered(d)
    <3>1. Registered(d) \subseteq Known
      BY <1>1 DEF Registered, Alive
    <3>2. v.left \ {d} \in SUBSET Device
      BY <1>1, Revisable
    <3> QED
      BY <3>1, <3>2
  <2>2. revoking' = (revoking \ {v}) \cup {[v EXCEPT !.left = l, !.close = c]} /\ granted' \subseteq Device
        /\ UNCHANGED <<alive, orphans>>
    BY <1>1, <1>7, <2>1 DEF GrantRemoved
  <2>3. v \in RevocationType(Known)
    BY <1>1
  <2>4. [v EXCEPT !.left = l, !.close = c] \in RevocationType(Known) /\ [v EXCEPT !.left = l, !.close = c].page = v.page
    BY <2>3 DEF RevocationType
  <2> QED
    BY <1>1, <1>3, <2>2, <2>3, <2>4 DEF BackTypes
<1>8. ASSUME NEW v \in revoking, NEW t \in v.close, SessionRevoked(v, t)
      PROVE  BackTypes' /\ \E x \in RevocationType(Known) : x.page = v.page /\ revoking' = (revoking \ {v}) \cup {x}
  <2>1. PICK c \in SUBSET Known : c = v.close \ {t}
    BY <1>1, Revisable
  <2>2. revoking' = (revoking \ {v}) \cup {[v EXCEPT !.close = c]} /\ granted' = granted
        /\ alive' \cup orphans' \subseteq Known
    BY <1>1, <1>8, <2>1 DEF SessionRevoked, CloseForCleanup
  <2>3. v \in RevocationType(Known)
    BY <1>1
  <2>4. [v EXCEPT !.close = c] \in RevocationType(Known) /\ [v EXCEPT !.close = c].page = v.page
    BY <2>3 DEF RevocationType
  <2> QED
    BY <1>1, <1>3, <2>2, <2>3, <2>4 DEF BackTypes
<1> QED
  BY <1>5, <1>6, <1>7, <1>8, <1>4 DEF RevocationGoesOn, BackgroundUnpairs, RevokedElsewhere, Begins

LEMMA GoesOnTyped ==
  ASSUME NetTypes, OneAnswer, Unpairing, Later, bound \in Scenario, RevocationGoesOn
  PROVE  NetTypes' /\ OneAnswer' /\ Unpairing'
<1>1. UNCHANGED <<calls, outbox, reqs, events, inbox, bridgeVars, control, wire>>
  BY DEF RevocationGoesOn, BackgroundUnpairs, RevokedElsewhere, GrantRemoved, SessionRevoked, backUnchanged
<1>2. NetTypes'
  <2>1. wire \in Seq(Messages') /\ inbox \in Seq(Messages') /\ events \subseteq Events'
    BY MoreToSay, SeqGrows DEF NetTypes
  <2>2. Known' = Known /\ Requests' = Requests /\ Served' = Served
    BY <1>1 DEF Known, Requests, Served
  <2> QED
    BY <1>1, <2>1, <2>2, RevocationsGoOn DEF NetTypes, bridgeVars
<1>3. OneAnswer' /\ (Pending("unpair") => Pending("unpair")')
  BY <1>1 DEF OneAnswer, Pending
<1>4. CASE /\ Pending("unpair") /\ \A v \in revoking : ~v.page
           /\ \E x \in RevocationType(Known) : revoking' = revoking \cup {x}
  <2>1. PICK x \in RevocationType(Known) : revoking' = revoking \cup {x}
    BY <1>4
  <2>2. \A u \in revoking' : u.page => u = x
    BY <1>4, <2>1
  <2>3. Pending("unpair")'
    BY <1>3, <1>4
  <2>4. \A u, w \in revoking' : u.page /\ w.page => u = w
    BY <2>2
  <2> QED
    BY <1>2, <1>3, <2>3, <2>4 DEF Unpairing
<1>5. CASE \E x \in RevocationType(Known) : ~x.page /\ revoking' = revoking \cup {x}
  <2>1. PICK x \in RevocationType(Known) : ~x.page /\ revoking' = revoking \cup {x}
    BY <1>5
  <2>2. \A u \in revoking' : u.page => u \in revoking
    BY <2>1
  <2>3. \A u, w \in revoking' : u.page /\ w.page => u = w
    BY <2>2 DEF Unpairing
  <2> QED
    <3>1. \A u \in revoking' : u.page => \E w \in revoking : w.page
      BY <2>2
    <3> QED
      BY <1>2, <1>3, <2>3, <3>1, UnpairingStays, Zenon
<1>6. CASE \E v \in revoking, x \in RevocationType(Known) :
             x.page = v.page /\ revoking' = (revoking \ {v}) \cup {x}
  <2>1. PICK v \in revoking, x \in RevocationType(Known) : x.page = v.page /\ revoking' = (revoking \ {v}) \cup {x}
    BY <1>6
  <2>2. \A u \in revoking' : u = x \/ (u \in revoking /\ u # v)
    BY <2>1
  <2>3. \A u \in revoking' : u.page => \E w \in revoking : w.page
    BY <2>1, <2>2
  <2>4. ASSUME NEW u \in revoking', NEW w \in revoking', u.page, w.page
        PROVE  u = w
    <3>1. CASE u = x /\ w = x
      BY <3>1
    <3>2. CASE u # x /\ w # x
      BY <2>2, <2>4, <3>2 DEF Unpairing
    <3>3. CASE u = x /\ w # x
      <4>1. v.page /\ w \in revoking /\ w # v
        BY <2>1, <2>2, <2>4, <3>3
      <4> QED
        BY <2>4, <4>1 DEF Unpairing
    <3>4. CASE w = x /\ u # x
      <4>1. v.page /\ u \in revoking /\ u # v
        BY <2>1, <2>2, <2>4, <3>4
      <4> QED
        BY <2>4, <4>1 DEF Unpairing
    <3> QED
      BY <3>1, <3>2, <3>3, <3>4
  <2>5. \A u, w \in revoking' : u.page /\ w.page => u = w
    BY <2>4
  <2> QED
    BY <1>2, <1>3, <2>3, <2>5, UnpairingStays, Zenon
<1> QED
  BY <1>2, <1>3, <1>4, <1>5, <1>6, RevocationsGoOn

\* The events are posted before the answer.
LEMMA RevokesTyped ==
  ASSUME NetTypes, OneAnswer, Unpairing, Later, bound \in Scenario, NEW v \in revoking,
         RevocationEnds(v) \/ RevocationFails(v)
  PROVE  NetTypes' /\ OneAnswer' /\ Unpairing'
<1>1. UNCHANGED backUnchanged /\ UNCHANGED <<control, granted, alive, orphans>> /\ revoking' = revoking \ {v}
  BY DEF RevocationEnds, RevocationFails
<1>2. UNCHANGED <<calls, outbox, reqs, events, inbox, bridgeVars>> /\ control' \in Seq(Requests)
  BY <1>1 DEF backUnchanged, NetTypes
<1>3. wire \in Seq(Messages')
  BY MoreToSay, SeqGrows DEF NetTypes
<1>0. BackTypes'
  <2>1. Known' = Known
    BY <1>2 DEF Known
  <2> QED
    BY <1>1, <2>1 DEF NetTypes, BackTypes
<1>11. v.page => Pending("unpair") /\ \A u \in revoking' : ~u.page
  BY <1>1 DEF Unpairing
<1> DEFINE revs == SetToSeq(Revoked)
<1>4. revs \in Seq(Messages') /\ \A i \in DOMAIN revs : revs[i].k # "answer"
  <2>1. revs \in Seq(Messages') /\ \A i \in DOMAIN revs : revs[i] \in Revoked
    BY RevocationTyped DEF Range
  <2> HIDE DEF revs
  <2>2. \A m \in Revoked : m.k # "answer"
    BY DEF Revoked
  <2> QED
    BY <2>1, <2>2
<1> HIDE DEF revs
<1>5. ASSUME NEW w \in Seq(Messages'), wire' = wire \o revs \o w, Len(w) \in {0, 1},
             \A i \in DOMAIN w : w[i].k = "answer" /\ control # <<>> /\ w[i].r = Head(control)
                                  /\ \A j \in DOMAIN wire : wire[j].k # "answer"
      PROVE  NetTypes' /\ OneAnswer'
  <2>1. wire' = wire \o revs \o w
    BY <1>5
  <2>2. /\ revs \o w \in Seq(Messages') /\ wire \o revs \o w = wire \o (revs \o w)
        /\ DOMAIN w = 1..Len(w)
        /\ \A i \in DOMAIN (revs \o w) :
             \/ i \in DOMAIN revs /\ (revs \o w)[i] = revs[i]
             \/ i - Len(revs) \in DOMAIN w /\ (revs \o w)[i] = w[i - Len(revs)]
        /\ Len(revs) \in Nat /\ DOMAIN (revs \o w) \subseteq Nat
    <3>1. wire \o revs \o w = wire \o (revs \o w)
      BY <1>3, <1>4, ConcatAssociative
    <3>2. /\ revs \o w \in Seq(Messages') /\ DOMAIN (revs \o w) = 1..(Len(revs) + Len(w))
          /\ DOMAIN revs = 1..Len(revs) /\ DOMAIN w = 1..Len(w) /\ Len(revs) \in Nat /\ Len(w) \in Nat
          /\ \A i \in 1..Len(revs) : (revs \o w)[i] = revs[i]
          /\ \A i \in DOMAIN (revs \o w) : i \notin 1..Len(revs) =>
               i - Len(revs) \in 1..Len(w) /\ (revs \o w)[i] = w[i - Len(revs)]
      BY <1>4, Joined
    <3>3. DOMAIN (revs \o w) \subseteq Nat
      BY <3>2
    <3>4. ASSUME NEW i \in DOMAIN (revs \o w)
          PROVE  \/ i \in DOMAIN revs /\ (revs \o w)[i] = revs[i]
                 \/ i - Len(revs) \in DOMAIN w /\ (revs \o w)[i] = w[i - Len(revs)]
      BY <3>2
    <3> QED
      BY <3>1, <3>2, <3>3, <3>4
  <2>3. NetTypes'
    BY <1>0, <1>2, <2>1, <2>2, BackgroundPosts
  <2>4. \A i \in DOMAIN (revs \o w) : (revs \o w)[i].k = "answer" =>
          i - Len(revs) \in DOMAIN w /\ (revs \o w)[i] = w[i - Len(revs)]
    BY <1>4, <2>2
  <2>5. \A i, j \in DOMAIN w : i = j
    BY <1>5, <2>2
  <2>6. \A i, j \in DOMAIN (revs \o w) : (revs \o w)[i].k = "answer" /\ (revs \o w)[j].k = "answer" => i = j
    <3>1. ASSUME NEW i \in DOMAIN (revs \o w), NEW j \in DOMAIN (revs \o w), i - Len(revs) = j - Len(revs)
          PROVE  i = j
      BY <2>2, <3>1
    <3> QED
      BY <2>4, <2>5, <3>1
  <2>7. Posts(revs \o w)
    <3>1. wire' = wire \o (revs \o w) /\ control' = control
      BY <1>1, <2>1, <2>2
    <3>2. \A i \in DOMAIN (revs \o w) : (revs \o w)[i].k = "answer" =>
            control # <<>> /\ (revs \o w)[i].r = Head(control) /\ \A j \in DOMAIN wire : wire[j].k # "answer"
      BY <1>5, <2>4
    <3> QED
      BY <2>6, <3>1, <3>2, Zenon DEF Posts
  <2> QED
    BY <1>3, <2>2, <2>3, <2>7, PostsKeep
<1>6. CASE RevocationEnds(v) /\ ~v.page
  <2>1. <<>> \in Seq(Messages') /\ Len(<<>>) = 0 /\ DOMAIN <<>> = {}
    BY EmptySeq
  <2>2. wire' = wire \o revs \o <<>>
    BY <1>6 DEF RevocationEnds, revs, Revoked
  <2>3. NetTypes' /\ OneAnswer'
    BY <1>5, <2>1, <2>2
  <2>4. wire' = wire \o revs
    <3>1. wire \o revs \in Seq(Messages')
      BY <1>3, <1>4, ConcatProperties
    <3> QED
      BY <2>2, <3>1, ConcatEmptySeq
  <2>5. (\A i \in DOMAIN wire : wire[i].k # "answer") => \A i \in DOMAIN wire' : wire'[i].k # "answer"
    BY <1>3, <1>4, <2>4, Joined
  <2>6. Pending("unpair") => Pending("unpair")'
    BY <1>1, <2>5 DEF Pending
  <2> QED
    BY <1>1, <2>3, <2>6 DEF Unpairing
<1>7. CASE RevocationEnds(v) /\ v.page
  <2>0. control # <<>> /\ \A i \in DOMAIN wire : wire[i].k # "answer"
    BY <1>7, <1>11 DEF Pending
  <2>1. <<Answer(TRUE)>> \in Seq(Messages')
    BY <1>2, <2>0, AnswerTyped
  <2>2. \A i \in DOMAIN <<Answer(TRUE)>> : <<Answer(TRUE)>>[i].k = "answer" /\ <<Answer(TRUE)>>[i].r = Head(control)
    BY DEF Answer
  <2>3. Len(<<Answer(TRUE)>>) \in {0, 1}
    OBVIOUS
  <2>4. wire' = wire \o revs \o <<Answer(TRUE)>>
    BY <1>7 DEF RevocationEnds, revs, Revoked
  <2>5. NetTypes' /\ OneAnswer'
    <3> HIDE DEF revs
    <3> QED
      BY <1>5, <2>0, <2>1, <2>2, <2>3, <2>4
  <2> QED
    BY <1>7, <1>11, <2>5 DEF Unpairing
<1>8. CASE RevocationFails(v) /\ v.page
  <2>0. wire' = Append(wire, Answer(FALSE)) /\ Spend("denial")
    BY <1>8 DEF RevocationFails
  <2>1. control # <<>> /\ (\A i \in DOMAIN wire : wire[i].k # "answer") /\ spent'["denial"] > 0
    <3>1. spent' = [spent EXCEPT !["denial"] = spent["denial"] + 1] /\ spent \in [Faults -> Nat]
      BY <2>0 DEF Spend, Later
    <3>2. spent'["denial"] > 0
      BY <3>1 DEF Faults
    <3> QED
      BY <1>8, <1>11, <3>2 DEF Pending
  <2>2. <<Answer(FALSE)>> \in Seq(Messages') /\ wire' = wire \o <<Answer(FALSE)>>
    BY <1>2, <2>0, <2>1, AnswerTyped
  <2>3. NetTypes'
    BY <1>0, <1>2, <2>2, BackgroundPosts
  <2>4. Posts(<<Answer(FALSE)>>)
    BY <1>1, <2>1, <2>2 DEF Posts, Answer
  <2>5. OneAnswer'
    BY <1>3, <2>2, <2>4, PostsKeep
  <2> QED
    BY <1>8, <1>11, <2>3, <2>5 DEF Unpairing
<1>9. CASE RevocationFails(v) /\ ~v.page
  <2>1. wire' = wire
    BY <1>9 DEF RevocationFails
  <2>2. wire' = wire \o <<>> /\ <<>> \in Seq(Messages')
    BY <1>3, <2>1, ConcatEmptySeq, EmptySeq
  <2>3. NetTypes'
    BY <1>0, <1>2, <2>2, BackgroundPosts
  <2>4. OneAnswer' /\ (Pending("unpair") => Pending("unpair")')
    BY <1>1, <2>1 DEF OneAnswer, Pending
  <2> QED
    BY <1>1, <2>3, <2>4 DEF Unpairing
<1> QED
  BY <1>6, <1>7, <1>8, <1>9

LEMMA LossTyped ==
  ASSUME NetTypes, OneAnswer, Unpairing, Later, bound \in Scenario, NEW d \in Device, DeviceLost(d)
  PROVE  NetTypes' /\ OneAnswer' /\ Unpairing'
<1> DEFINE e == [k |-> "disconnect", d |-> d]
<1>1. UNCHANGED <<calls, outbox, reqs, events, inbox, bridgeVars, control, revoking>> /\ wire' = Append(wire, e)
  BY DEF DeviceLost, backUnchanged, Post
<1>0. BackTypes'
  <2>1. Known' = Known
    BY <1>1 DEF Known
  <2> QED
    BY <1>1, <2>1 DEF NetTypes, BackTypes, DeviceLost
<1>2. spent' = [spent EXCEPT !["loss"] = spent["loss"] + 1] /\ spent \in [Faults -> Nat]
  BY DEF DeviceLost, Spend, Later
<1>3. spent'["loss"] > 0
  BY <1>2 DEF Faults
<1>4. e \in Messages'
  BY <1>3 DEF Messages, Events
<1>5. wire \in Seq(Messages')
  BY MoreToSay, SeqGrows DEF NetTypes
<1>6. <<e>> \in Seq(Messages') /\ wire' = wire \o <<e>>
  BY <1>1, <1>4, <1>5, AppendIsConcat
<1>7. NetTypes'
  BY <1>0, <1>1, <1>6, BackgroundPosts DEF NetTypes
<1>8. Posts(<<e>>)
  BY <1>1, <1>6 DEF Posts
<1>9. OneAnswer'
  BY <1>5, <1>6, <1>8, PostsKeep
<1>10. (\A i \in DOMAIN wire : wire[i].k # "answer") => \A i \in DOMAIN wire' : wire'[i].k # "answer"
  BY <1>5, <1>6, Joined
<1> QED
  BY <1>1, <1>7, <1>9, <1>10, UnpairingRests DEF Pending
-----------------------------------------------------------------------------
(* Calls and promises *)

LEMMA CallFacts ==
  ASSUME PageTypes
  PROVE  /\ Len(calls) \in Nat /\ DOMAIN calls = Known /\ Known \subseteq Call /\ None \notin Known
         /\ \A b \in Known : calls[b] \in CallType
         /\ Made = 1..Len(dev) /\ Len(dev) \in Nat /\ Made \subseteq Object /\ None \notin Object
         /\ \A o \in Made : dev[o] \in Device
BY LenProperties, ElementOfSeq DEF PageTypes, Known, Call, Object, Made, None

\* One call proceeds.
Becomes(c, at, res, todo) ==
  /\ calls' \in Seq(CallType) /\ Len(calls') = Len(calls)
  /\ \A b \in Known : b # c => calls'[b] = calls[b]
  /\ calls'[c].k = calls[c].k /\ calls'[c].o = calls[c].o /\ calls'[c].on = calls[c].on
  /\ calls'[c].group = calls[c].group /\ calls'[c].opened = calls[c].opened
  /\ calls'[c].at = at /\ calls'[c].res = res /\ calls'[c].todo = todo

LEMMA CallBecomes ==
  ASSUME PageTypes, NEW c \in Known, NEW at \in Stage, NEW res \in {"pending", "ok", "failed"}, NEW todo \in Seq(Object),
         calls' = [calls EXCEPT ![c] = [calls[c] EXCEPT !.at = at, !.res = res, !.todo = todo]]
  PROVE  Becomes(c, at, res, todo)
<1> DEFINE x == [calls[c] EXCEPT !.at = at, !.res = res, !.todo = todo]
<1>1. calls[c] \in CallType /\ c \in 1..Len(calls)
  BY CallFacts DEF Known
<1>2. /\ x \in CallType /\ x.k = calls[c].k /\ x.o = calls[c].o /\ x.on = calls[c].on
      /\ x.group = calls[c].group /\ x.opened = calls[c].opened
      /\ x.at = at /\ x.res = res /\ x.todo = todo
  BY <1>1 DEF CallType
<1> HIDE DEF x
<1>3. calls' = [calls EXCEPT ![c] = x]
  BY DEF x
<1> QED
  BY <1>1, <1>2, <1>3, Replaced DEF Becomes, PageTypes, Known

LEMMA StageBecomes ==
  ASSUME PageTypes, NEW c \in Known, NEW at \in Stage, calls' = [calls EXCEPT ![c].at = at]
  PROVE  Becomes(c, at, calls[c].res, calls[c].todo)
<1>1. calls[c] \in CallType /\ calls \in Seq(CallType) /\ DOMAIN calls = Known
  BY CallFacts DEF PageTypes
<1>2. PICK res \in {"pending", "ok", "failed"}, todo \in Seq(Object) : res = calls[c].res /\ todo = calls[c].todo
  BY <1>1 DEF CallType
<1>3. [calls[c] EXCEPT !.at = at] = [calls[c] EXCEPT !.at = at, !.res = res, !.todo = todo]
  BY <1>1, <1>2 DEF CallType
<1>4. calls' = [calls EXCEPT ![c] = [calls[c] EXCEPT !.at = at, !.res = res, !.todo = todo]]
  BY <1>3
<1>5. Becomes(c, at, res, todo)
  BY <1>4, CallBecomes
<1> QED
  BY <1>2, <1>5 DEF Becomes

LEMMA TodoBecomes ==
  ASSUME PageTypes, NEW c \in Known, NEW at \in Stage, NEW todo \in Seq(Object),
         calls' = [calls EXCEPT ![c].at = at, ![c].todo = todo]
         \/ (calls' = [calls EXCEPT ![c].todo = todo] /\ at = calls[c].at)
  PROVE  Becomes(c, at, calls[c].res, todo)
<1>1. calls[c] \in CallType /\ calls \in Seq(CallType) /\ DOMAIN calls = Known
  BY CallFacts DEF PageTypes
<1>2. PICK res \in {"pending", "ok", "failed"} : res = calls[c].res
  BY <1>1 DEF CallType
<1>3. /\ [[calls[c] EXCEPT !.at = at] EXCEPT !.todo = todo] = [calls[c] EXCEPT !.at = at, !.res = res, !.todo = todo]
      /\ at = calls[c].at =>
           [calls[c] EXCEPT !.todo = todo] = [calls[c] EXCEPT !.at = at, !.res = res, !.todo = todo]
  BY <1>1, <1>2 DEF CallType
<1>4. calls' = [calls EXCEPT ![c] = [calls[c] EXCEPT !.at = at, !.res = res, !.todo = todo]]
  BY <1>1, <1>3
<1>5. Becomes(c, at, res, todo)
  BY <1>4, CallBecomes
<1> QED
  BY <1>2, <1>5 DEF Becomes

LEMMA SettleBecomes ==
  ASSUME PageTypes, NEW c \in Known, NEW res \in {"ok", "failed"}, calls' = Settle(c, res)
  PROVE  Becomes(c, "done", res, calls[c].todo)
<1>1. calls[c] \in CallType /\ calls \in Seq(CallType) /\ DOMAIN calls = Known
  BY CallFacts DEF PageTypes
<1>2. PICK todo \in Seq(Object) : todo = calls[c].todo
  BY <1>1 DEF CallType
<1>3. [[calls[c] EXCEPT !.res = res] EXCEPT !.at = "done"] = [calls[c] EXCEPT !.at = "done", !.res = res, !.todo = todo]
  BY <1>1, <1>2 DEF CallType
<1>4. calls' = [calls EXCEPT ![c] = [calls[c] EXCEPT !.at = "done", !.res = res, !.todo = todo]]
  BY <1>1, <1>3 DEF Settle
<1>5. "done" \in Stage /\ res \in {"pending", "ok", "failed"}
  BY DEF Stage
<1>6. Becomes(c, "done", res, todo)
  BY <1>4, <1>5, CallBecomes
<1> QED
  BY <1>2, <1>6 DEF Becomes

\* A call is added.
Joins(x) ==
  /\ calls' \in Seq(CallType) /\ Len(calls') = Len(calls) + 1 /\ calls'[Next1] = x
  /\ \A b \in Known : calls'[b] = calls[b]

LEMMA CallJoins ==
  ASSUME PageTypes, NEW x \in CallType, calls' = Append(calls, x)
  PROVE  Joins(x)
BY Appended DEF PageTypes, Joins, Known, Next1

\* A new stage is one the kind of the call has.
LEMMA ShapesMove ==
  ASSUME PageTypes, Shapes, UNCHANGED dev, NEW c \in Known, NEW at, NEW res, NEW todo, Becomes(c, at, res, todo),
         at = "done" <=> res # "pending",
         calls[c].k = "open" => at \in {"waiting", "undoing", "done"},
         calls[c].k = "close" => at \in {"closing", "done"},
         calls[c].k = "forget" =>
           /\ at \in {"unpairing", "undo", "undoing", "done"} /\ Distinct(todo)
           /\ Range(todo) \subseteq calls[c].group
           /\ at = "undoing" => todo # <<>>
  PROVE  Shapes'
<1>1. Known' = Known /\ Made' = Made
  BY DEF Becomes, Known, Made
<1>2. Shape(calls[c])
  BY DEF Shapes
<1>3. ASSUME NEW b \in Known, b # c
      PROVE  Shape(calls[b])'
  BY <1>1, <1>3 DEF Becomes, Shapes, Shape
<1>4. Shape(calls[c])'
  BY <1>1, <1>2 DEF Becomes, Shape
<1> QED
  BY <1>1, <1>3, <1>4 DEF Shapes

LEMMA PromisesMove ==
  ASSUME PageTypes, Promises, UNCHANGED promiseVars, NEW c \in Known, NEW at, NEW todo, ~Done(c),
         Becomes(c, at, "pending", todo)
  PROVE  Promises'
<1>1. Known' = Known /\ \A b \in Known : Done(b)' <=> Done(b)
  BY CallFacts DEF Becomes, Known, Done
<1>2. \A b \in Known : calls'[b].k = calls[b].k /\ calls'[b].o = calls[b].o /\ calls'[b].group = calls[b].group
  BY DEF Becomes
<1> QED
  BY <1>1, <1>2 DEF Promises, Holds, promiseVars

LEMMA PromisesSettle ==
  ASSUME PageTypes, Promises, NEW c \in Known, NEW res \in {"ok", "failed"}, NEW todo, ~Done(c),
         Becomes(c, "done", res, todo),
         \/ calls[c].k = "open" /\ openBy' = LetGo(openBy, c) /\ UNCHANGED <<closeBy, forgetBy>>
         \/ calls[c].k = "close" /\ closeBy' = LetGo(closeBy, c) /\ UNCHANGED <<openBy, forgetBy>>
         \/ calls[c].k = "forget" /\ forgetBy' = LetGo(forgetBy, c) /\ UNCHANGED <<openBy, closeBy>>
  PROVE  Promises'
<1>1. Known' = Known /\ (\A b \in Known : b # c => (Done(b)' <=> Done(b))) /\ Done(c)'
  BY CallFacts DEF Becomes, Known, Done
<1>2. \A b \in Known : calls'[b].k = calls[b].k /\ calls'[b].o = calls[b].o /\ calls'[b].group = calls[b].group
  BY DEF Becomes
<1>3. \A o \in Object : openBy'[o] \in {openBy[o], None} /\ openBy'[o] # c
  BY CallFacts DEF LetGo, Promises, Holds
<1>4. \A o \in Object : closeBy'[o] \in {closeBy[o], None} /\ closeBy'[o] # c
  BY CallFacts DEF LetGo, Promises, Holds
<1>5. \A o \in Object : forgetBy'[o] \in {forgetBy[o], None} /\ forgetBy'[o] # c
  BY CallFacts DEF LetGo, Promises, Holds
<1>6. \A o \in Object : forgetBy[o] # c => forgetBy'[o] = forgetBy[o]
  BY DEF LetGo
<1>7. \A b \in Known : b # c /\ calls[b].k = "forget" /\ ~Done(b) => \A m \in calls[b].group : m \in Object /\ forgetBy[m] = b
  BY CallFacts DEF Promises, CallType
<1>8. \A o \in Object : (Holds(openBy, "open", o) /\ Holds(closeBy, "close", o))'
  BY <1>1, <1>2, <1>3, <1>4 DEF Promises, Holds
<1>9. \A o \in Object : forgetBy'[o] # None =>
        /\ forgetBy'[o] \in Known' /\ calls'[forgetBy'[o]].k = "forget" /\ calls'[forgetBy'[o]].res = "pending"
        /\ o \in calls'[forgetBy'[o]].group
  <2> SUFFICES ASSUME NEW o \in Object, forgetBy'[o] # None
               PROVE  /\ forgetBy'[o] \in Known' /\ calls'[forgetBy'[o]].k = "forget" /\ calls'[forgetBy'[o]].res = "pending"
                      /\ o \in calls'[forgetBy'[o]].group
    OBVIOUS
  <2>1. forgetBy'[o] = forgetBy[o] /\ forgetBy[o] # c
    BY <1>5
  <2>2. /\ forgetBy[o] \in Known /\ calls[forgetBy[o]].k = "forget" /\ ~Done(forgetBy[o])
        /\ o \in calls[forgetBy[o]].group
    BY <2>1 DEF Promises
  <2>3. calls'[forgetBy[o]] = calls[forgetBy[o]]
    BY <2>1, <2>2 DEF Becomes
  <2> QED
    BY <1>1, <2>1, <2>2, <2>3 DEF Done
<1>10. \A f \in Known' : calls'[f].k = "forget" /\ ~Done(f)' => \A m \in calls'[f].group : forgetBy'[m] = f
  BY <1>1, <1>2, <1>6, <1>7
<1> QED
  BY <1>8, <1>9, <1>10 DEF Promises, Done
-----------------------------------------------------------------------------
(* What a step of the page leaves of the invariant *)

LEMMA PageRests ==
  ASSUME PageInv, Later, UNCHANGED <<objVars, promiseVars, calls, bound>>
  PROVE  PageInv'
<1>1. /\ UNCHANGED <<dev, registry, st, was, port, reports, openBy, closeBy, forgetBy, calls, bound>>
      /\ Known' = Known /\ Made' = Made /\ spent' \in [Faults -> Nat]
      /\ \A f \in {"loss", "denial", "timeout"} : spent[f] \in Nat /\ spent'[f] \in Nat /\ spent[f] <= spent'[f]
  BY DEF objVars, promiseVars, Known, Made, Later, Faults
<1>2. PageTypes'
  BY <1>1 DEF PageInv, PageTypes
<1>3. Shapes' /\ Promises' /\ Entries' /\ Objects'
  BY <1>1 DEF PageInv, Shapes, Shape, Held, Promises, Holds, Done, Entries, Objects, Under
<1>4. Kept'
  BY <1>1 DEF PageInv, Kept, Keeps, OpenKeeps, CloseKeeps, ForgetKeeps, On, Held, Done
<1>5. Denied' /\ Reported'
  BY <1>1 DEF PageInv, Denied, Reported
<1> QED
  BY <1>2, <1>3, <1>4, <1>5 DEF PageInv

\* A call that goes on or settles leaves the other calls what they are.
LEMMA OthersKeep ==
  ASSUME PageTypes, NEW c \in Known, NEW at, NEW res, NEW todo, Becomes(c, at, res, todo)
  PROVE  /\ Known' = Known
         /\ \A b \in Known : b # c => calls'[b] = calls[b] /\ (Done(b)' <=> Done(b)) /\ On(b)' = On(b)
         /\ \A b \in Known : /\ calls'[b].k = calls[b].k /\ calls'[b].o = calls[b].o
                             /\ calls'[b].on = calls[b].on /\ calls'[b].group = calls[b].group
         /\ Done(c)' <=> res # "pending"
         /\ On(c)' = {None} \cup (IF at = "await" THEN calls[c].on ELSE {})
         /\ calls'[c].at = at /\ calls'[c].todo = todo
BY CallFacts DEF Becomes, Known, Done, On

LEMMA TypesMove ==
  ASSUME PageTypes, Later, NEW c \in Known, NEW at, NEW res, NEW todo, Becomes(c, at, res, todo), UNCHANGED <<dev, bound>>,
         registry' \in [Device -> Object \cup {None}],
         st' \in [Object -> State], was' \in [Object -> BOOLEAN], reports' \in [Object -> BOOLEAN],
         port' \in [Object -> Known \cup {None}], openBy' \in [Object -> Known \cup {None}],
         closeBy' \in [Object -> Known \cup {None}], forgetBy' \in [Object -> Known \cup {None}]
  PROVE  PageTypes' /\ Made' = Made
<1>1. Known' = Known /\ calls' \in Seq(CallType) /\ Len(calls') = Len(calls) /\ spent' \in [Faults -> Nat]
  BY DEF Becomes, Known, Later
<1> QED
  BY <1>1 DEF PageTypes, Made

\* While no device is lost, a call under way has kept what it entered.
LEMMA KeptNow ==
  ASSUME PageInv, spent["loss"] = 0, NEW b \in Known, ~Done(b)
  PROVE  Keeps(b)
BY DEF PageInv, Kept

LEMMA LossBefore ==
  ASSUME Later, spent'["loss"] = 0
  PROVE  spent["loss"] = 0
BY DEF Later, Faults

\* The open goes on: it waits for its plane, or closes what it opened.
LEMMA OpenGoesOn ==
  ASSUME PageInv, Later, NEW c \in Known, calls[c].k = "open", ~Done(c), NEW at \in {"waiting", "undoing"},
         calls' = [calls EXCEPT ![c].at = at],
         NEW p \in {None, c}, port' = [port EXCEPT ![calls[c].o] = p],
         p = None \/ st[calls[c].o] = "opening",
         UNCHANGED <<dev, registry, st, was, reports, promiseVars, bound>>
  PROVE  PageInv'
<1> DEFINE o == calls[c].o
<1>0. PageTypes /\ Shapes /\ Promises /\ Kept /\ Entries /\ Objects /\ Denied /\ Reported
  BY DEF PageInv
<1>1. PICK todo : todo = calls[c].todo
  OBVIOUS
<1>2. Becomes(c, at, "pending", todo) /\ o \in Object
  <2>1. at \in Stage
    BY DEF Stage
  <2>2. Becomes(c, at, calls[c].res, calls[c].todo)
    BY <1>0, <2>1, StageBecomes
  <2> QED
    BY <1>0, <1>1, <2>2, CallFacts DEF Becomes, Done, CallType
<1>3. /\ Known' = Known
      /\ \A b \in Known : b # c => calls'[b] = calls[b] /\ (Done(b)' <=> Done(b)) /\ On(b)' = On(b)
      /\ \A b \in Known : calls'[b].k = calls[b].k /\ calls'[b].o = calls[b].o /\ calls'[b].group = calls[b].group
      /\ calls'[c].at = at
  BY <1>0, <1>2, OthersKeep
<1>4. PageTypes' /\ Made' = Made
  <2>1. port' \in [Object -> Known \cup {None}]
    BY <1>0, <1>2 DEF PageTypes
  <2> QED
    BY <1>0, <1>2, <2>1, TypesMove DEF PageTypes, promiseVars
<1>5. Shapes' /\ Promises'
  BY <1>0, <1>2, ShapesMove, PromisesMove
<1>6. Kept'
  <2> SUFFICES ASSUME spent'["loss"] = 0, NEW b \in Known, ~Done(b)' PROVE Keeps(b)'
    BY <1>3 DEF Kept
  <2>1. spent["loss"] = 0
    BY LossBefore
  <2>2. CASE b = c
    <3>1. OpenKeeps(c)
      BY <2>1, KeptNow DEF Keeps
    <3> QED
      BY <1>3, <2>2, <3>1 DEF Keeps, OpenKeeps, promiseVars
  <2>3. CASE b # c
    <3>1. Keeps(b) /\ calls'[b] = calls[b] /\ On(b)' = On(b)
      BY <1>3, <2>1, <2>3, KeptNow
    <3> QED
      BY <3>1 DEF Keeps, OpenKeeps, CloseKeeps, ForgetKeeps, Held, promiseVars
  <2> QED
    BY <2>2, <2>3
<1>7. Entries'
  BY <1>0, <1>4 DEF Entries
<1>8. Objects'
  <2> SUFFICES ASSUME NEW m \in Object PROVE Under(m)'
    BY DEF Objects
  <2>1. Under(m) /\ (forgetBy[m] # None => forgetBy[m] \in Known /\ forgetBy[m] # c)
    BY <1>0 DEF Objects, Promises
  <2> QED
    BY <1>3, <1>4, <2>1 DEF Under, Held, promiseVars
<1>9. Denied'
  BY <1>0, <1>3 DEF Denied, Later, Faults
<1>10. Reported'
  <2> SUFFICES ASSUME spent'["loss"] = 0, NEW m \in Object, reports[m] PROVE st[m] = "opened" /\ port'[m] # None
    BY <1>4 DEF Reported
  <2>1. st[m] = "opened" /\ port[m] # None /\ spent["loss"] = 0 /\ m \in Object
    BY <1>0, LossBefore, CallFacts DEF Reported
  <2>2. st[o] # "opened"
    BY <2>1, KeptNow DEF Keeps, OpenKeeps
  <2> QED
    BY <2>1, <2>2 DEF PageTypes
<1> QED
  BY <1>4, <1>5, <1>6, <1>7, <1>8, <1>9, <1>10 DEF PageInv

\* The open ends: its object is opened, closed, or was taken away from it.
LEMMA OpenSettles ==
  ASSUME PageInv, Later, NEW c \in Known, calls[c].k = "open", ~Done(c), NEW res \in {"ok", "failed"},
         calls' = Settle(c, res), openBy' = LetGo(openBy, c),
         NEW to \in {"opened", "closed"},
         st' = IF st[calls[c].o] = "opening" THEN [st EXCEPT ![calls[c].o] = to] ELSE st,
         was' \in [Object -> BOOLEAN],
         port' = port \/ port' = [port EXCEPT ![calls[c].o] = None],
         UNCHANGED <<dev, registry, reports, closeBy, forgetBy, bound>>
  PROVE  PageInv'
<1> DEFINE o == calls[c].o
<1>0. PageTypes /\ Shapes /\ Promises /\ Kept /\ Entries /\ Objects /\ Denied /\ Reported
  BY DEF PageInv
<1>1. PICK todo : todo = calls[c].todo
  OBVIOUS
<1>2. Becomes(c, "done", res, todo) /\ o \in Object
  <2>1. Becomes(c, "done", res, calls[c].todo)
    BY <1>0, SettleBecomes
  <2> QED
    BY <1>0, <1>1, <2>1, CallFacts DEF Becomes, CallType
<1>3. /\ Known' = Known /\ Done(c)'
      /\ \A b \in Known : b # c => calls'[b] = calls[b] /\ (Done(b)' <=> Done(b)) /\ On(b)' = On(b)
      /\ \A b \in Known : calls'[b].k = calls[b].k /\ calls'[b].o = calls[b].o /\ calls'[b].group = calls[b].group
      /\ calls'[c].at = "done"
  BY <1>0, <1>2, OthersKeep
<1>4. /\ \A m \in Object : openBy'[m] \in {openBy[m], None} /\ (openBy[m] # c => openBy'[m] = openBy[m])
      /\ \A m \in Object : openBy[m] = c => m = o
      /\ openBy' \in [Object -> Known \cup {None}]
  BY <1>0, CallFacts DEF LetGo, Promises, Holds, PageTypes
<1>5. /\ st' \in [Object -> State] /\ (\A m \in Object : m # o => st'[m] = st[m])
      /\ st'[o] = st[o] \/ (st[o] = "opening" /\ st'[o] = to)
      /\ st'[o] # "opening"
  BY <1>0, <1>2 DEF PageTypes, State
<1>6. port' \in [Object -> Known \cup {None}] /\ \A m \in Object : m # o => port'[m] = port[m]
  BY <1>0, <1>2 DEF PageTypes
<1>7. PageTypes' /\ Made' = Made
  BY <1>0, <1>2, <1>4, <1>5, <1>6, TypesMove DEF PageTypes
<1>8. Shapes'
  BY <1>0, <1>2, ShapesMove
<1>9. Promises'
  BY <1>0, <1>2, PromisesSettle
<1>10. Kept'
  <2> SUFFICES ASSUME spent'["loss"] = 0, NEW b \in Known, ~Done(b)' PROVE Keeps(b)'
    BY <1>3 DEF Kept
  <2>1. spent["loss"] = 0 /\ b # c
    BY <1>3, LossBefore
  <2>2. Keeps(b) /\ calls'[b] = calls[b] /\ On(b)' = On(b) /\ calls[b].o \in Object
    BY <1>0, <1>3, <2>1, KeptNow, CallFacts DEF CallType
  <2>3. OpenKeeps(c)
    BY <2>1, KeptNow DEF Keeps
  <2>4. CASE calls[b].k = "open"
    <3>1. calls[b].o # o
      BY <2>1, <2>2, <2>3, <2>4 DEF Keeps, OpenKeeps
    <3> QED
      BY <1>4, <1>5, <2>1, <2>2, <2>4, <3>1 DEF Keeps, OpenKeeps
  <2>5. CASE calls[b].k = "close"
    BY <1>4, <1>5, <2>2, <2>5 DEF Keeps, CloseKeeps, On
  <2>6. CASE calls[b].k = "forget"
    <3>1. Held(calls[b]) \subseteq Object
      BY <1>0, <2>6, CallFacts DEF Shapes, Shape, Held
    <3>2. None \in On(b)
      BY DEF On
    <3>3. ForgetKeeps(b)'
      BY <1>4, <1>5, <2>2, <2>6, <3>1, <3>2 DEF Keeps, ForgetKeeps, Held
    <3> QED
      BY <2>2, <2>6, <3>3 DEF Keeps
  <2> QED
    BY <1>0, <2>4, <2>5, <2>6, CallFacts DEF CallType
<1>11. Entries'
  <2>1. \A m \in Object : st[m] # "forgotten" => st'[m] # "forgotten"
    BY <1>5
  <2> QED
    BY <1>0, <1>7, <2>1, CallFacts DEF Entries
<1>12. Objects'
  <2> SUFFICES ASSUME NEW m \in Object PROVE Under(m)'
    BY DEF Objects
  <2>1. Under(m) /\ (forgetBy[m] # None => forgetBy[m] \in Known /\ forgetBy[m] # c)
    BY <1>0 DEF Objects, Promises
  <2>2. st'[m] = "opening" => st[m] = "opening" /\ m # o
    BY <1>5
  <2>3. o \in Made
    BY <1>0 DEF Shapes, Shape
  <2>4. st'[m] = "forgetting" => st[m] = "forgetting"
    BY <1>5
  <2> QED
    BY <1>3, <1>4, <1>5, <1>7, <2>1, <2>2, <2>3, <2>4 DEF Under, Held
<1>13. Denied'
  BY <1>0, <1>3 DEF Denied, Later, Faults
<1>14. Reported'
  <2> SUFFICES ASSUME spent'["loss"] = 0, NEW m \in Object, reports[m] PROVE st'[m] = "opened" /\ port'[m] # None
    BY <1>7 DEF Reported
  <2>1. st[m] = "opened" /\ port[m] # None /\ spent["loss"] = 0 /\ m \in Object
    BY <1>0, LossBefore, CallFacts DEF Reported
  <2>2. st[o] # "opened"
    BY <2>1, KeptNow DEF Keeps, OpenKeeps
  <2> QED
    BY <1>5, <1>6, <2>1, <2>2
<1> QED
  BY <1>7, <1>8, <1>9, <1>10, <1>11, <1>12, <1>13, <1>14 DEF PageInv

\* The close is answered: its object is closed, unless it is no longer closing.
LEMMA CloseSettles ==
  ASSUME PageInv, Later, NEW c \in Known, calls[c].at = "closing", NEW ok \in BOOLEAN,
         CloseHeard(c, ok), closeBy' = LetGo(closeBy, c),
         UNCHANGED <<dev, registry, openBy, forgetBy, bound>>
  PROVE  PageInv'
<1> DEFINE o == calls[c].o
<1>0. PageTypes /\ Shapes /\ Promises /\ Kept /\ Entries /\ Objects /\ Denied /\ Reported
  BY DEF PageInv
<1>a. PICK res \in {"ok", "failed"} : calls' = Settle(c, res)
  <2>1. (IF ok THEN "ok" ELSE "failed") \in {"ok", "failed"}
    OBVIOUS
  <2> QED
    BY <2>1 DEF CloseHeard
<1>1. PICK todo : todo = calls[c].todo
  OBVIOUS
<1>2. Becomes(c, "done", res, todo) /\ o \in Object /\ calls[c].k = "close" /\ ~Done(c) /\ o \in Made
  <2>1. Becomes(c, "done", res, calls[c].todo)
    BY <1>0, <1>a, SettleBecomes
  <2>2. calls[c] \in CallType /\ Shape(calls[c])
    BY <1>0, CallFacts DEF Shapes
  <2> QED
    BY <1>1, <2>1, <2>2 DEF Becomes, CallType, Shape, Done
<1>3. /\ Known' = Known /\ Done(c)'
      /\ \A b \in Known : b # c => calls'[b] = calls[b] /\ (Done(b)' <=> Done(b)) /\ On(b)' = On(b)
      /\ \A b \in Known : calls'[b].k = calls[b].k /\ calls'[b].o = calls[b].o /\ calls'[b].group = calls[b].group
      /\ calls'[c].at = "done"
  BY <1>0, <1>2, OthersKeep
<1>4. /\ \A m \in Object : closeBy'[m] \in {closeBy[m], None} /\ (closeBy[m] # c => closeBy'[m] = closeBy[m])
      /\ closeBy' \in [Object -> Known \cup {None}]
  BY <1>0, CallFacts DEF LetGo, PageTypes
<1>5. \/ UNCHANGED <<st, was, port, reports>>
      \/ st[o] = "closing" /\ Reconcile({o}, "closed")
  BY DEF CloseHeard
<1>6. /\ st' \in [Object -> State] /\ was' \in [Object -> BOOLEAN] /\ reports' \in [Object -> BOOLEAN]
      /\ port' \in [Object -> Known \cup {None}]
      /\ \A m \in Object : \/ st'[m] = st[m] /\ port'[m] = port[m] /\ reports'[m] = reports[m]
                           \/ m = o /\ st[m] = "closing" /\ st'[m] = "closed" /\ reports'[m] = FALSE
  <2>1. CASE UNCHANGED <<st, was, port, reports>>
    BY <1>0, <2>1 DEF PageTypes
  <2>2. CASE st[o] = "closing" /\ Reconcile({o}, "closed")
    BY <1>0, <1>2, <2>2 DEF PageTypes, Reconcile, With, State
  <2> QED
    BY <1>5, <2>1, <2>2
<1>7. PageTypes' /\ Made' = Made
  BY <1>0, <1>2, <1>4, <1>6, TypesMove DEF PageTypes
<1>8. Shapes'
  BY <1>0, <1>2, ShapesMove
<1>9. Promises'
  BY <1>0, <1>2, PromisesSettle
<1>10. Kept'
  <2> SUFFICES ASSUME spent'["loss"] = 0, NEW b \in Known, ~Done(b)' PROVE Keeps(b)'
    BY <1>3 DEF Kept
  <2>1. spent["loss"] = 0 /\ b # c
    BY <1>3, LossBefore
  <2>2. Keeps(b) /\ calls'[b] = calls[b] /\ On(b)' = On(b) /\ calls[b].o \in Object
    BY <1>0, <1>3, <2>1, KeptNow, CallFacts DEF CallType
  <2>3. CloseKeeps(c) /\ openBy[o] = None
    BY <1>2, <2>1, KeptNow DEF Keeps, CloseKeeps, On
  <2>4. CASE calls[b].k = "open"
    <3>1. calls[b].o # o
      BY <1>0, <2>2, <2>3, <2>4, CallFacts DEF Keeps, OpenKeeps
    <3> QED
      BY <1>6, <2>2, <2>4, <3>1 DEF Keeps, OpenKeeps
  <2>5. CASE calls[b].k = "close"
    <3>1. calls[b].o # o
      BY <2>1, <2>2, <2>3, <2>5 DEF Keeps, CloseKeeps
    <3> QED
      BY <1>4, <1>6, <2>1, <2>2, <2>5, <3>1 DEF Keeps, CloseKeeps, On
  <2>6. CASE calls[b].k = "forget"
    <3>1. Held(calls[b]) \subseteq Object
      BY <1>0, <2>6, CallFacts DEF Shapes, Shape, Held
    <3>2. None \in On(b)
      BY DEF On
    <3>3. ForgetKeeps(b)'
      BY <1>4, <1>6, <2>2, <2>6, <3>1, <3>2 DEF Keeps, ForgetKeeps, Held
    <3> QED
      BY <2>2, <2>6, <3>3 DEF Keeps
  <2> QED
    BY <1>0, <2>4, <2>5, <2>6, CallFacts DEF CallType
<1>11. Entries'
  <2>1. \A m \in Object : st[m] # "forgotten" => st'[m] # "forgotten"
    BY <1>6
  <2> QED
    BY <1>0, <1>7, <2>1, CallFacts DEF Entries
<1>12. Objects'
  <2> SUFFICES ASSUME NEW m \in Object PROVE Under(m)'
    BY DEF Objects
  <2>1. Under(m) /\ (forgetBy[m] # None => forgetBy[m] \in Known /\ forgetBy[m] # c)
    BY <1>0, <1>2 DEF Objects, Promises
  <2>2. st'[m] = st[m] \/ (m = o /\ st'[m] = "closed")
    BY <1>6
  <2> QED
    BY <1>2, <1>3, <1>7, <2>1, <2>2 DEF Under, Held
<1>13. Denied'
  BY <1>0, <1>2, <1>3 DEF Denied, Later, Faults
<1>14. Reported'
  <2> SUFFICES ASSUME spent'["loss"] = 0, NEW m \in Object, reports'[m] PROVE st'[m] = "opened" /\ port'[m] # None
    BY <1>7 DEF Reported
  <2>1. m \in Object /\ spent["loss"] = 0
    BY <1>0, LossBefore, CallFacts
  <2>2. st'[m] = st[m] /\ port'[m] = port[m] /\ reports[m]
    BY <1>6, <2>1
  <2> QED
    BY <1>0, <2>1, <2>2 DEF Reported
<1> QED
  BY <1>7, <1>8, <1>9, <1>10, <1>11, <1>12, <1>13, <1>14 DEF PageInv

\* Objects are forgotten, with their entries in the registry.
Forgets(os) ==
  /\ Reconcile(os, "forgotten")
  /\ registry' = [d \in Device |-> IF d \in {dev[o] : o \in os} THEN None ELSE registry[d]]

LEMMA ForgottenState ==
  ASSUME PageTypes, Entries, NEW os \in SUBSET Object, Forgets(os), UNCHANGED dev
  PROVE  /\ st' \in [Object -> State] /\ was' \in [Object -> BOOLEAN] /\ reports' \in [Object -> BOOLEAN]
         /\ port' \in [Object -> Known \cup {None}] /\ registry' \in [Device -> Object \cup {None}]
         /\ \A m \in Object : \/ m \notin os /\ st'[m] = st[m] /\ port'[m] = port[m] /\ reports'[m] = reports[m]
                              \/ m \in os /\ st'[m] = "forgotten" /\ reports'[m] = FALSE
         /\ Entries'
<1>1. /\ st' \in [Object -> State] /\ was' \in [Object -> BOOLEAN] /\ reports' \in [Object -> BOOLEAN]
      /\ port' \in [Object -> Known \cup {None}] /\ registry' \in [Device -> Object \cup {None}]
  BY DEF Forgets, Reconcile, With, PageTypes, State
<1>2. \A m \in Object : \/ m \notin os /\ st'[m] = st[m] /\ port'[m] = port[m] /\ reports'[m] = reports[m]
                        \/ m \in os /\ st'[m] = "forgotten" /\ reports'[m] = FALSE
  BY DEF Forgets, Reconcile, With
<1>3. ASSUME NEW d \in Device, registry'[d] # None
      PROVE  registry'[d] \in Made /\ dev[registry'[d]] = d /\ st'[registry'[d]] # "forgotten"
  <2>1. registry'[d] = registry[d] /\ d \notin {dev[o] : o \in os}
    BY <1>3 DEF Forgets
  <2>2. registry[d] \in Made /\ dev[registry[d]] = d /\ st[registry[d]] # "forgotten" /\ registry[d] \in Object
    BY <1>3, <2>1, CallFacts DEF Entries
  <2> QED
    BY <1>2, <2>1, <2>2
<1>4. Made' = Made
  BY DEF Made
<1> QED
  BY <1>1, <1>2, <1>3, <1>4 DEF Entries

\* What an object that is forgotten was kept for does not need it otherwise.
LEMMA ForgottenKept ==
  ASSUME PageInv, spent["loss"] = 0, NEW b \in Known, ~Done(b), calls'[b] = calls[b], On(b)' = On(b),
         openBy' = openBy, closeBy' = closeBy,
         \A m \in Object : st'[m] \in {st[m], "forgotten"}
  PROVE  Keeps(b)'
<1>1. Keeps(b) /\ calls[b].o \in Object /\ calls[b].k \in {"open", "close", "forget"}
  BY KeptNow, CallFacts DEF CallType, PageInv
<1>2. CASE calls[b].k = "open"
  BY <1>1, <1>2 DEF Keeps, OpenKeeps
<1>3. CASE calls[b].k = "close"
  BY <1>1, <1>3 DEF Keeps, CloseKeeps
<1>4. CASE calls[b].k = "forget"
  <2>1. Held(calls[b]) \subseteq Object
    BY <1>4, CallFacts DEF PageInv, Shapes, Shape, Held
  <2>2. ForgetKeeps(b)'
    BY <1>1, <1>4, <2>1 DEF Keeps, ForgetKeeps, Held
  <2> QED
    BY <1>4, <2>2 DEF Keeps
<1> QED
  BY <1>1, <1>2, <1>3, <1>4

LEMMA UnpairSucceeds ==
  ASSUME PageInv, Later, NEW c \in Known, calls[c].at = "unpairing",
         calls' = Settle(c, "ok"), forgetBy' = LetGo(forgetBy, c), Forgets(calls[c].group),
         UNCHANGED <<dev, openBy, closeBy, bound>>
  PROVE  PageInv'
<1> DEFINE os == calls[c].group
<1>0. PageTypes /\ Shapes /\ Promises /\ Kept /\ Entries /\ Objects /\ Denied /\ Reported
  BY DEF PageInv
<1>1. PICK todo : todo = calls[c].todo
  OBVIOUS
<1>2. /\ Becomes(c, "done", "ok", todo) /\ os \in SUBSET Object /\ calls[c].k = "forget" /\ ~Done(c) /\ os \subseteq Made
      /\ Distinct(todo) /\ \A m \in Object : forgetBy[m] = c => m \in os
  <2>1. Becomes(c, "done", "ok", calls[c].todo)
    BY <1>0, SettleBecomes
  <2>2. calls[c] \in CallType /\ Shape(calls[c])
    BY <1>0, CallFacts DEF Shapes
  <2>3. calls[c].k = "forget" /\ ~Done(c)
    BY <2>2 DEF CallType, Shape, Done
  <2>4. \A m \in Object : forgetBy[m] = c => m \in os
    BY <1>0, CallFacts DEF Promises
  <2> QED
    BY <1>1, <2>1, <2>2, <2>3, <2>4 DEF Becomes, CallType, Shape
<1>3. /\ Known' = Known /\ Done(c)'
      /\ \A b \in Known : b # c => calls'[b] = calls[b] /\ (Done(b)' <=> Done(b)) /\ On(b)' = On(b)
      /\ calls'[c].at = "done"
  BY <1>0, <1>2, OthersKeep
<1>4. /\ \A m \in Object : forgetBy[m] # c => forgetBy'[m] = forgetBy[m]
      /\ forgetBy' \in [Object -> Known \cup {None}]
  BY <1>0, CallFacts DEF LetGo, PageTypes
<1>5. /\ st' \in [Object -> State] /\ was' \in [Object -> BOOLEAN] /\ reports' \in [Object -> BOOLEAN]
      /\ port' \in [Object -> Known \cup {None}] /\ registry' \in [Device -> Object \cup {None}]
      /\ \A m \in Object : \/ m \notin os /\ st'[m] = st[m] /\ port'[m] = port[m] /\ reports'[m] = reports[m]
                           \/ m \in os /\ st'[m] = "forgotten" /\ reports'[m] = FALSE
      /\ Entries'
  BY <1>0, <1>2, ForgottenState
<1>7. PageTypes' /\ Made' = Made
  BY <1>0, <1>2, <1>4, <1>5, TypesMove DEF PageTypes
<1>8. Shapes' /\ Promises'
  <2>1. Range(todo) \subseteq calls[c].group
    BY <1>0, <1>1, <1>2 DEF Shapes, Shape
  <2> QED
    BY <1>0, <1>2, <2>1, ShapesMove, PromisesSettle
<1>9. Kept'
  <2> SUFFICES ASSUME spent'["loss"] = 0, NEW b \in Known, ~Done(b)' PROVE Keeps(b)'
    BY <1>3 DEF Kept
  <2>1. spent["loss"] = 0 /\ b # c
    BY <1>3, LossBefore
  <2>2. calls'[b] = calls[b] /\ On(b)' = On(b) /\ ~Done(b)
    BY <1>3, <2>1
  <2>3. \A m \in Object : st'[m] \in {st[m], "forgotten"}
    BY <1>5
  <2> QED
    BY <2>1, <2>2, <2>3, ForgottenKept
<1>10. Objects'
  <2> SUFFICES ASSUME NEW m \in Object PROVE Under(m)'
    BY DEF Objects
  <2>1. Under(m) /\ (forgetBy[m] # None => forgetBy[m] \in Known)
    BY <1>0 DEF Objects, Promises
  <2>2. CASE m \in os
    BY <1>2, <1>5, <1>7, <2>2 DEF Under
  <2>3. CASE m \notin os
    <3>1. st'[m] = st[m] /\ forgetBy'[m] = forgetBy[m] /\ forgetBy[m] # c
      BY <1>2, <1>4, <1>5, <2>3
    <3> QED
      BY <1>3, <1>7, <2>1, <3>1 DEF Under, Held
  <2> QED
    BY <2>2, <2>3
<1>11. Denied'
  BY <1>0, <1>3 DEF Denied, Later, Faults
<1>12. Reported'
  <2> SUFFICES ASSUME spent'["loss"] = 0, NEW m \in Object, reports'[m] PROVE st'[m] = "opened" /\ port'[m] # None
    BY <1>7 DEF Reported
  <2>1. m \in Object /\ spent["loss"] = 0
    BY <1>0, LossBefore, CallFacts
  <2>2. st'[m] = st[m] /\ port'[m] = port[m] /\ reports[m]
    BY <1>5, <2>1
  <2> QED
    BY <1>0, <2>1, <2>2 DEF Reported
<1> QED
  BY <1>5, <1>7, <1>8, <1>9, <1>10, <1>11, <1>12 DEF PageInv

\* An object is forgotten because the grant was revoked, or closed because its
\* device was lost.
LEMMA EventTakes ==
  ASSUME PageInv, Later, NEW d \in Device, registry[d] # None, NEW to \in {"forgotten", "closed"},
         to = "closed" => spent["loss"] > 0,
         Reconcile({registry[d]}, to), Unregister({d}), UNCHANGED <<dev, promiseVars, calls, bound>>
  PROVE  PageInv'
<1> DEFINE o == registry[d]
<1>0. PageTypes /\ Shapes /\ Promises /\ Kept /\ Entries /\ Objects /\ Denied /\ Reported
  BY DEF PageInv
<1>1. o \in Made /\ o \in Object /\ dev[o] = d
  BY <1>0, CallFacts DEF Entries
<1>2. Known' = Known /\ Made' = Made /\ UNCHANGED <<openBy, closeBy, forgetBy>>
  BY DEF Known, Made, promiseVars
<1>3. /\ st' \in [Object -> State] /\ was' \in [Object -> BOOLEAN] /\ reports' \in [Object -> BOOLEAN]
      /\ port' \in [Object -> Known \cup {None}] /\ registry' \in [Device -> Object \cup {None}]
      /\ \A m \in Object : \/ m # o /\ st'[m] = st[m] /\ port'[m] = port[m] /\ reports'[m] = reports[m]
                           \/ m = o /\ st'[m] = to /\ reports'[m] = FALSE
  BY <1>0, <1>1 DEF Reconcile, With, Unregister, PageTypes, State
<1>4. PageTypes'
  BY <1>0, <1>2, <1>3 DEF PageTypes, Later
<1>5. Shapes' /\ Promises'
  BY <1>0, <1>2 DEF Shapes, Shape, Promises, Holds, Done
<1>6. Kept'
  <2> SUFFICES ASSUME spent'["loss"] = 0, NEW b \in Known, ~Done(b) PROVE Keeps(b)'
    BY <1>2 DEF Kept, Done
  <2>1. spent["loss"] = 0
    BY LossBefore
  <2>2. \A m \in Object : st'[m] \in {st[m], "forgotten"}
    BY <1>3, <2>1
  <2>3. On(b)' = On(b)
    BY DEF On
  <2> QED
    BY <1>2, <2>1, <2>2, <2>3, ForgottenKept
<1>7. Entries'
  <2> SUFFICES ASSUME NEW e \in Device, registry'[e] # None
               PROVE  registry'[e] \in Made /\ dev[registry'[e]] = e /\ st'[registry'[e]] # "forgotten"
    BY <1>2 DEF Entries
  <2>1. registry'[e] = registry[e] /\ e # d
    BY DEF Unregister
  <2>2. registry[e] \in Made /\ dev[registry[e]] = e /\ st[registry[e]] # "forgotten" /\ registry[e] \in Object
    BY <1>0, <2>1, CallFacts DEF Entries
  <2> QED
    BY <1>1, <1>3, <2>1, <2>2
<1>8. Objects'
  <2> SUFFICES ASSUME NEW m \in Object PROVE Under(m)'
    BY DEF Objects
  <2>1. Under(m)
    BY <1>0 DEF Objects
  <2> QED
    BY <1>1, <1>2, <1>3, <2>1 DEF Under, Held
<1>9. Denied'
  BY <1>0, <1>2 DEF Denied, Later, Faults
<1>10. Reported'
  <2> SUFFICES ASSUME spent'["loss"] = 0, NEW m \in Object, reports'[m] PROVE st'[m] = "opened" /\ port'[m] # None
    BY <1>2 DEF Reported
  <2>1. m \in Object /\ spent["loss"] = 0
    BY <1>0, LossBefore, CallFacts
  <2>2. st'[m] = st[m] /\ port'[m] = port[m] /\ reports[m]
    BY <1>3, <2>1
  <2> QED
    BY <1>0, <2>1, <2>2 DEF Reported
<1> QED
  BY <1>4, <1>5, <1>6, <1>7, <1>8, <1>9, <1>10 DEF PageInv

\* A forget goes on: it asks, undoes what it did to the next member, or goes on
\* to the one after.
LEMMA ForgetGoesOn ==
  ASSUME PageInv, Later, NEW c \in Known, calls[c].k = "forget", calls[c].at \in {"unpairing", "undo", "undoing"},
         NEW at \in {"undo", "undoing"}, NEW todo \in Seq(Object), Becomes(c, at, "pending", todo),
         spent'["denial"] + spent'["timeout"] > 0,
         Distinct(todo), at = "undoing" => todo # <<>>, Range(todo) \subseteq Held(calls[c]),
         st' \in [Object -> State], was' \in [Object -> BOOLEAN],
         \A m \in Object : st'[m] = st[m] \/ (st'[m] = "closed" /\ m \in Held(calls[c]) \ Range(todo)),
         \A m \in Held(calls[c]) \ Range(todo) : st'[m] # "forgetting",
         UNCHANGED <<dev, registry, port, reports, promiseVars, bound>>
  PROVE  PageInv'
<1>0. PageTypes /\ Shapes /\ Promises /\ Kept /\ Entries /\ Objects /\ Denied /\ Reported
  BY DEF PageInv
<1>1. UNCHANGED <<openBy, closeBy, forgetBy>> /\ Held(calls[c]) \subseteq calls[c].group /\ calls[c].group \subseteq Object /\ ~Done(c)
  BY <1>0, CallFacts DEF Shapes, Shape, Held, promiseVars, Done
<1>2. /\ Known' = Known /\ ~Done(c)'
      /\ \A b \in Known : b # c => calls'[b] = calls[b] /\ (Done(b)' <=> Done(b)) /\ On(b)' = On(b)
      /\ \A b \in Known : calls'[b].k = calls[b].k /\ calls'[b].o = calls[b].o /\ calls'[b].group = calls[b].group
      /\ calls'[c].at = at /\ calls'[c].todo = todo
  BY <1>0, OthersKeep
<1>3. Held(calls[c])' = Range(todo)
  BY <1>2 DEF Held
<1>4. PageTypes' /\ Made' = Made
  BY <1>0, <1>1, TypesMove DEF PageTypes
<1>5. Shapes'
  BY <1>0, <1>1, ShapesMove
<1>6. Promises'
  BY <1>0, <1>1, PromisesMove
<1>7. Kept'
  <2> SUFFICES ASSUME spent'["loss"] = 0, NEW b \in Known, ~Done(b)' PROVE Keeps(b)'
    BY <1>2 DEF Kept
  <2>1. spent["loss"] = 0
    BY LossBefore
  <2>2. On(c) = {None} /\ None \in On(c)'
    BY DEF On
  <2>3. \A m \in Held(calls[c]) : st[m] \in {"forgetting", "forgotten"} /\ openBy[m] = None /\ closeBy[m] = None
    BY <1>1, <2>1, <2>2, KeptNow DEF Keeps, ForgetKeeps
  <2>4. CASE b = c
    <3>1. \A m \in Range(todo) : m \in Object /\ m \in Held(calls[c]) /\ st'[m] = st[m]
      BY <1>1
    <3>2. ForgetKeeps(c)'
      BY <1>1, <1>3, <2>2, <2>3, <3>1 DEF ForgetKeeps
    <3> QED
      BY <1>2, <2>4, <3>2 DEF Keeps
  <2>5. ASSUME b # c
        PROVE  Keeps(b)'
    <3>1. Keeps(b) /\ calls'[b] = calls[b] /\ On(b)' = On(b) /\ calls[b].o \in Object /\ ~Done(b)
          /\ calls[b].k \in {"open", "close", "forget"}
      BY <1>0, <1>2, <2>1, <2>5, KeptNow, CallFacts DEF CallType
    <3>2. CASE calls[b].k = "open"
      <4>1. openBy[calls[b].o] # None
        BY <1>0, <3>1, <3>2, CallFacts DEF Keeps, OpenKeeps
      <4>2. st'[calls[b].o] = st[calls[b].o]
        BY <2>3, <3>1, <4>1
      <4> QED
        BY <1>1, <3>1, <3>2, <4>2 DEF Keeps, OpenKeeps
    <3>3. CASE calls[b].k = "close"
      <4>1. closeBy[calls[b].o] # None
        BY <1>0, <3>1, <3>3, CallFacts DEF Keeps, CloseKeeps
      <4>2. st'[calls[b].o] = st[calls[b].o]
        BY <2>3, <3>1, <4>1
      <4> QED
        BY <1>1, <3>1, <3>3, <4>2 DEF Keeps, CloseKeeps
    <3>4. CASE calls[b].k = "forget"
      <4>1. Held(calls[b]) \subseteq calls[b].group /\ calls[b].group \subseteq Object
        BY <1>0, <3>4, CallFacts DEF Shapes, Shape, Held
      <4>2. \A m \in Held(calls[b]) : m \in Object /\ forgetBy[m] = b
        BY <1>0, <3>1, <3>4, <4>1 DEF Promises
      <4>3. \A m \in Held(calls[c]) : forgetBy[m] = c
        BY <1>0, <1>1 DEF Promises
      <4>4. \A m \in Held(calls[b]) : st'[m] = st[m]
        BY <2>5, <4>2, <4>3
      <4>5. ForgetKeeps(b)'
        BY <1>1, <3>1, <3>4, <4>4 DEF Keeps, ForgetKeeps, Held
      <4> QED
        BY <3>1, <3>4, <4>5 DEF Keeps
    <3> QED
      BY <3>1, <3>2, <3>3, <3>4
  <2> QED
    BY <2>4, <2>5
<1>8. Entries'
  BY <1>0, <1>4, CallFacts DEF Entries
<1>9. Objects'
  <2> SUFFICES ASSUME NEW m \in Object PROVE Under(m)'
    BY DEF Objects
  <2>1. Under(m) /\ (forgetBy[m] # None => forgetBy[m] \in Known)
    BY <1>0 DEF Objects, Promises
  <2>2. CASE forgetBy[m] = c
    <3>1. m \notin Made => st'[m] = "closed"
      BY <2>1 DEF Under
    <3>2. st'[m] = "opening" => openBy[m] # None
      BY <2>1 DEF Under
    <3>3. st'[m] = "forgetting" => c # None /\ m \in Range(todo)
      BY <2>1, <2>2 DEF Under
    <3> QED
      BY <1>1, <1>3, <1>4, <2>2, <3>1, <3>2, <3>3 DEF Under
  <2>3. CASE forgetBy[m] # c
    BY <1>1, <1>2, <1>4, <2>1, <2>3 DEF Under, Held
  <2> QED
    BY <2>2, <2>3
<1>10. Denied'
  BY <1>0, <1>2 DEF Denied, Later, Faults
<1>11. Reported'
  <2> SUFFICES ASSUME spent'["loss"] = 0, NEW m \in Object, reports[m] PROVE st'[m] = "opened" /\ port[m] # None
    BY DEF Reported
  <2>1. st[m] = "opened" /\ port[m] # None /\ spent["loss"] = 0
    BY <1>0, LossBefore DEF Reported
  <2>2. m \notin Held(calls[c])
    BY <1>1, <2>1, KeptNow DEF Keeps, ForgetKeeps
  <2> QED
    BY <2>1, <2>2
<1> QED
  BY <1>4, <1>5, <1>6, <1>7, <1>8, <1>9, <1>10, <1>11 DEF PageInv

\* The forget that failed has undone what it did.
LEMMA ForgetFails ==
  ASSUME PageInv, Later, NEW c \in Known, calls[c].k = "forget", calls[c].at = "undo", calls[c].todo = <<>>,
         calls' = Settle(c, "failed"), forgetBy' = LetGo(forgetBy, c),
         UNCHANGED <<objVars, openBy, closeBy, bound>>
  PROVE  PageInv'
<1>0. PageTypes /\ Shapes /\ Promises /\ Kept /\ Entries /\ Objects /\ Denied /\ Reported
  BY DEF PageInv
<1>1. UNCHANGED <<dev, registry, st, was, port, reports>> /\ ~Done(c) /\ Range(calls[c].todo) = {}
  BY <1>0 DEF objVars, Shapes, Shape, Done, Range
<1>2. Becomes(c, "done", "failed", <<>>)
  BY <1>0, SettleBecomes DEF Becomes
<1>3. /\ Known' = Known /\ Done(c)'
      /\ \A b \in Known : b # c => calls'[b] = calls[b] /\ (Done(b)' <=> Done(b)) /\ On(b)' = On(b)
      /\ calls'[c].at = "done"
  BY <1>0, <1>2, OthersKeep
<1>4. /\ \A m \in Object : forgetBy[m] # c => forgetBy'[m] = forgetBy[m]
      /\ forgetBy' \in [Object -> Known \cup {None}]
  BY <1>0, CallFacts DEF LetGo, PageTypes
<1>5. PageTypes' /\ Made' = Made
  BY <1>0, <1>1, <1>2, <1>4, TypesMove DEF PageTypes
<1>6. Shapes'
  <2>1. Distinct(<<>>) /\ Range(<<>>) \subseteq calls[c].group
    BY <1>0, <1>1 DEF Distinct
  <2> QED
    BY <1>0, <1>1, <1>2, <2>1, ShapesMove
<1>7. Promises'
  BY <1>0, <1>1, <1>2, PromisesSettle
<1>8. Kept'
  <2> SUFFICES ASSUME spent'["loss"] = 0, NEW b \in Known, ~Done(b)' PROVE Keeps(b)'
    BY <1>3 DEF Kept
  <2>1. spent["loss"] = 0 /\ b # c
    BY <1>3, LossBefore
  <2>2. Keeps(b) /\ calls'[b] = calls[b] /\ On(b)' = On(b)
    BY <1>3, <2>1, KeptNow
  <2> QED
    BY <1>1, <2>2 DEF Keeps, OpenKeeps, CloseKeeps, ForgetKeeps, Held
<1>9. Entries'
  BY <1>0, <1>1, <1>5 DEF Entries
<1>10. Objects'
  <2> SUFFICES ASSUME NEW m \in Object PROVE Under(m)'
    BY DEF Objects
  <2>1. Under(m) /\ (forgetBy[m] # None => forgetBy[m] \in Known)
    BY <1>0 DEF Objects, Promises
  <2>2. CASE forgetBy[m] = c
    <3>1. st[m] # "forgetting"
      BY <1>1, <2>1, <2>2 DEF Under, Held
    <3> QED
      BY <1>1, <1>5, <2>1, <3>1 DEF Under
  <2>3. CASE forgetBy[m] # c
    BY <1>1, <1>3, <1>4, <1>5, <2>1, <2>3 DEF Under, Held
  <2> QED
    BY <2>2, <2>3
<1>11. Denied' /\ Reported'
  <2>1. Denied'
    BY <1>0, <1>3 DEF Denied, Later, Faults
  <2>2. Reported'
    BY <1>0, <1>1, LossBefore DEF Reported
  <2> QED
    BY <2>1, <2>2
<1> QED
  BY <1>5, <1>6, <1>7, <1>8, <1>9, <1>10, <1>11 DEF PageInv

\* What the call waited for has settled: nothing else is under way for its objects.
LEMMA CallResumes ==
  ASSUME PageInv, Later, NEW c \in Known, calls[c].at = "await", \A b \in calls[c].on : Done(b),
         NEW at \in {"closing", "unpairing"}, at = "closing" <=> calls[c].k = "close",
         calls' = [calls EXCEPT ![c].at = at], UNCHANGED <<objVars, promiseVars, bound>>
  PROVE  PageInv'
<1>0. PageTypes /\ Shapes /\ Promises /\ Kept /\ Entries /\ Objects /\ Denied /\ Reported
  BY DEF PageInv
<1>1. PICK todo : todo = calls[c].todo
  OBVIOUS
<1>2. /\ UNCHANGED <<dev, registry, st, was, port, reports, openBy, closeBy, forgetBy>>
      /\ ~Done(c) /\ calls[c].k \in {"close", "forget"} /\ calls[c].o \in Object
  BY <1>0, CallFacts DEF objVars, promiseVars, Shapes, Shape, Done, CallType
<1>3. Becomes(c, at, "pending", todo)
  <2>1. at \in Stage
    BY DEF Stage
  <2>2. Becomes(c, at, calls[c].res, calls[c].todo)
    BY <1>0, <2>1, StageBecomes
  <2> QED
    BY <1>1, <1>2, <2>2 DEF Becomes, Done
<1>4. /\ Known' = Known /\ ~Done(c)'
      /\ \A b \in Known : b # c => calls'[b] = calls[b] /\ (Done(b)' <=> Done(b)) /\ On(b)' = On(b)
      /\ \A b \in Known : calls'[b].k = calls[b].k /\ calls'[b].o = calls[b].o /\ calls'[b].group = calls[b].group
      /\ calls'[c].at = at /\ calls'[c].todo = todo
  BY <1>0, <1>3, OthersKeep
<1>5. calls[c].k = "forget" => Held(calls[c])' = Held(calls[c])
  BY <1>4 DEF Held
<1>6. PageTypes' /\ Made' = Made
  BY <1>0, <1>2, <1>3, TypesMove DEF PageTypes
<1>7. Shapes'
  <2>1. calls[c].k = "forget" => Distinct(todo) /\ Range(todo) \subseteq calls[c].group
    BY <1>0, <1>1 DEF Shapes, Shape
  <2> QED
    BY <1>0, <1>2, <1>3, <2>1, ShapesMove
<1>8. Promises'
  BY <1>0, <1>2, <1>3, PromisesMove
<1>9. Kept'
  <2> SUFFICES ASSUME spent'["loss"] = 0, NEW b \in Known, ~Done(b)' PROVE Keeps(b)'
    BY <1>4 DEF Kept
  <2>1. spent["loss"] = 0
    BY LossBefore
  <2>2. \A m \in Object : openBy[m] \in On(c) => openBy[m] = None
    BY <1>0 DEF On, Promises, Holds
  <2>3. \A m \in Object : closeBy[m] \in On(c) => closeBy[m] = None
    BY <1>0 DEF On, Promises, Holds
  <2>4. None \in On(c)'
    BY DEF On
  <2>5. CASE b = c /\ calls[c].k = "close"
    <3>1. CloseKeeps(c)
      BY <1>2, <2>1, <2>5, KeptNow DEF Keeps
    <3>2. CloseKeeps(c)'
      BY <1>2, <1>4, <2>2, <2>4, <3>1 DEF CloseKeeps
    <3> QED
      BY <1>4, <2>5, <3>2 DEF Keeps
  <2>6. CASE b = c /\ calls[c].k = "forget"
    <3>1. ForgetKeeps(c) /\ Held(calls[c]) \subseteq Object
      BY <1>0, <1>2, <2>1, <2>6, KeptNow, CallFacts DEF Keeps, Shapes, Shape, Held
    <3>2. ForgetKeeps(c)'
      BY <1>2, <1>5, <2>2, <2>3, <2>4, <2>6, <3>1 DEF ForgetKeeps
    <3> QED
      BY <1>4, <2>6, <3>2 DEF Keeps
  <2>7. CASE b # c
    <3>1. Keeps(b) /\ calls'[b] = calls[b] /\ On(b)' = On(b)
      BY <1>4, <2>1, <2>7, KeptNow
    <3> QED
      BY <1>2, <3>1 DEF Keeps, OpenKeeps, CloseKeeps, ForgetKeeps, Held
  <2> QED
    BY <1>2, <2>5, <2>6, <2>7
<1>10. Entries'
  BY <1>0, <1>2, <1>6 DEF Entries
<1>11. Objects'
  <2> SUFFICES ASSUME NEW m \in Object PROVE Under(m)'
    BY DEF Objects
  <2>1. Under(m) /\ (forgetBy[m] # None => forgetBy[m] \in Known /\ calls[forgetBy[m]].k = "forget")
    BY <1>0 DEF Objects, Promises
  <2>2. CASE forgetBy[m] = c
    BY <1>2, <1>5, <1>6, <2>1, <2>2 DEF Under
  <2>3. CASE forgetBy[m] # c
    BY <1>2, <1>4, <1>6, <2>1, <2>3 DEF Under, Held
  <2> QED
    BY <2>2, <2>3
<1>12. Denied' /\ Reported'
  <2>1. Denied'
    BY <1>0, <1>4 DEF Denied, Later, Faults
  <2>2. Reported'
    BY <1>0, <1>2, LossBefore DEF Reported
  <2> QED
    BY <2>1, <2>2
<1> QED
  BY <1>6, <1>7, <1>8, <1>9, <1>10, <1>11, <1>12 DEF PageInv
-----------------------------------------------------------------------------
(* What the page calls *)

LEMMA ObjectMade ==
  ASSUME PageInv, Later, NEW d \in Device, registry[d] = None, Len(dev) < bound.objects,
         dev' = Append(dev, d), registry' = [registry EXCEPT ![d] = Len(dev) + 1],
         UNCHANGED <<st, was, port, reports, promiseVars, calls, bound>>
  PROVE  PageInv'
<1> DEFINE n == Len(dev) + 1
<1>0. PageTypes /\ Shapes /\ Promises /\ Kept /\ Entries /\ Objects /\ Denied /\ Reported
  BY DEF PageInv
<1>1. UNCHANGED <<openBy, closeBy, forgetBy>> /\ Known' = Known
  BY DEF promiseVars, Known
<1>2. bound.objects \in 0..MaxObjects /\ MaxObjects \in Nat
  BY <1>0 DEF PageTypes, Scenario
<1>3. /\ dev' \in Seq(Device) /\ Len(dev') = n /\ n \in Object /\ n \notin Made /\ n \in Made' /\ dev'[n] = d
      /\ Made \subseteq Made' /\ (\A o \in Made : dev'[o] = dev[o]) /\ n <= MaxObjects
      /\ \A o \in Object : o \notin Made' => o \notin Made
  BY <1>0, <1>2, Appended, CallFacts DEF PageTypes, Object, Made
<1>4. PageTypes'
  BY <1>0, <1>1, <1>3 DEF PageTypes, Later
<1>5. Shapes'
  <2> SUFFICES ASSUME NEW b \in Known PROVE Shape(calls[b])'
    BY <1>1 DEF Shapes
  <2>1. Shape(calls[b])
    BY <1>0 DEF Shapes
  <2> QED
    BY <1>3, <2>1 DEF Shape
<1>6. Promises'
  BY <1>0, <1>1 DEF Promises, Holds, Done
<1>7. Kept'
  BY <1>0, <1>1, LossBefore DEF Kept, Keeps, OpenKeeps, CloseKeeps, ForgetKeeps, On, Held, Done
<1>8. Entries'
  <2> SUFFICES ASSUME NEW e \in Device, registry'[e] # None
               PROVE  registry'[e] \in Made' /\ dev'[registry'[e]] = e /\ st[registry'[e]] # "forgotten"
    BY DEF Entries
  <2>1. CASE e = d
    <3>1. registry'[e] = n
      BY <1>0, <2>1 DEF PageTypes
    <3>2. st[n] = "closed"
      BY <1>0, <1>3 DEF Objects, Under
    <3> QED
      BY <1>3, <2>1, <3>1, <3>2
  <2>2. CASE e # d
    <3>1. registry'[e] = registry[e]
      BY <1>0, <2>2 DEF PageTypes
    <3>2. registry[e] \in Made /\ dev[registry[e]] = e /\ st[registry[e]] # "forgotten"
      BY <1>0, <3>1 DEF Entries
    <3> HIDE DEF n
    <3> QED
      BY <1>3, <3>1, <3>2
  <2> QED
    BY <2>1, <2>2
<1>9. Objects'
  BY <1>0, <1>1, <1>3 DEF Objects, Under, Held
<1>10. Denied' /\ Reported'
  <2>1. Denied'
    BY <1>0, <1>1 DEF Denied, Later, Faults
  <2>2. Reported'
    BY <1>0, LossBefore DEF Reported
  <2> QED
    BY <2>1, <2>2
<1> QED
  BY <1>4, <1>5, <1>6, <1>7, <1>8, <1>9, <1>10 DEF PageInv

\* A report is sent, or answered.
LEMMA ReportsMove ==
  ASSUME PageInv, Later, NEW o \in Object, NEW v \in BOOLEAN, v => st[o] = "opened" /\ port[o] # None,
         reports' = [reports EXCEPT ![o] = v],
         UNCHANGED <<dev, registry, st, was, port, promiseVars, calls, bound>>
  PROVE  PageInv'
<1>0. PageTypes /\ Shapes /\ Promises /\ Kept /\ Entries /\ Objects /\ Denied /\ Reported
  BY DEF PageInv
<1>1. UNCHANGED <<openBy, closeBy, forgetBy>> /\ Known' = Known /\ Made' = Made
  BY DEF promiseVars, Known, Made
<1>2. PageTypes'
  BY <1>0, <1>1 DEF PageTypes, Later
<1>3. Shapes' /\ Promises' /\ Entries' /\ Objects'
  BY <1>0, <1>1 DEF Shapes, Shape, Held, Promises, Holds, Done, Entries, Objects, Under
<1>4. Kept'
  BY <1>0, <1>1, LossBefore DEF Kept, Keeps, OpenKeeps, CloseKeeps, ForgetKeeps, On, Held, Done
<1>5. Denied'
  BY <1>0, <1>1 DEF Denied, Later, Faults
<1>6. Reported'
  BY <1>0, LossBefore DEF Reported, PageTypes
<1> QED
  BY <1>2, <1>3, <1>4, <1>5, <1>6 DEF PageInv

\* A new call leaves the others what they are.
LEMMA JoinsKeep ==
  ASSUME PageTypes, NEW x \in CallType, calls' = Append(calls, x), Next1 <= bound.calls
  PROVE  /\ calls' \in Seq(CallType) /\ Len(calls') <= MaxCalls /\ Next1 \in Known' /\ Next1 \notin Known /\ Next1 # None
         /\ Known \subseteq Known' /\ Known' \subseteq Known \cup {Next1} /\ calls'[Next1] = x
         /\ \A b \in Known : calls'[b] = calls[b] /\ (Done(b)' <=> Done(b)) /\ On(b)' = On(b)
<1>1. Joins(x)
  BY CallJoins
<1>2. bound.calls \in 0..MaxCalls /\ MaxCalls \in Nat
  BY DEF PageTypes, Scenario
<1>3. Len(calls) \in Nat
  BY CallFacts
<1>4. Len(calls') = Len(calls) + 1 /\ calls'[Next1] = x /\ calls' \in Seq(CallType) /\ \A b \in Known : calls'[b] = calls[b]
  BY <1>1 DEF Joins
<1>5. /\ Len(calls') <= MaxCalls /\ Next1 \in Known' /\ Next1 \notin Known /\ Next1 # None
      /\ Known \subseteq Known' /\ Known' \subseteq Known \cup {Next1}
  BY <1>2, <1>3, <1>4 DEF Known, Next1, None
<1> QED
  BY <1>4, <1>5 DEF Done, On

LEMMA OpenJoins ==
  ASSUME PageInv, Later, NEW o \in Made, st[o] = "closed", Next1 <= bound.calls,
         st' = [st EXCEPT ![o] = "opening"], openBy' = [openBy EXCEPT ![o] = Next1],
         calls' = Append(calls, NewCall("open", o, "asked")),
         UNCHANGED <<dev, registry, was, port, reports, closeBy, forgetBy, bound>>
  PROVE  PageInv'
<1> DEFINE x == NewCall("open", o, "asked")
<1>0. PageTypes /\ Shapes /\ Promises /\ Kept /\ Entries /\ Objects /\ Denied /\ Reported
  BY DEF PageInv
<1>1. /\ x \in CallType /\ x.k = "open" /\ x.o = o /\ x.at = "asked" /\ x.res = "pending"
  BY CallFacts, EmptySeq, <1>0 DEF NewCall, CallType, Stage
<1> HIDE DEF x
<1>a. PICK n : n = Next1
  OBVIOUS
<1>2. /\ calls' \in Seq(CallType) /\ Len(calls') <= MaxCalls /\ n \in Known' /\ n \notin Known /\ n # None
      /\ Known \subseteq Known' /\ Known' \subseteq Known \cup {n} /\ calls'[n] = x
      /\ \A b \in Known : calls'[b] = calls[b] /\ (Done(b)' <=> Done(b)) /\ On(b)' = On(b)
  BY <1>0, <1>1, <1>a, JoinsKeep DEF x
<1>3. PageTypes' /\ Made' = Made /\ o \in Object
  <2>1. o \in Object /\ openBy' \in [Object -> Known' \cup {None}] /\ st' \in [Object -> State]
    BY <1>0, <1>2, <1>a, CallFacts DEF PageTypes, State
  <2>2. port' \in [Object -> Known' \cup {None}] /\ closeBy' \in [Object -> Known' \cup {None}]
        /\ forgetBy' \in [Object -> Known' \cup {None}]
    BY <1>0, <1>2 DEF PageTypes
  <2> QED
    BY <1>0, <1>2, <2>1, <2>2 DEF PageTypes, Later, Made
<1>4. /\ \A m \in Object : m # o => st'[m] = st[m] /\ openBy'[m] = openBy[m]
      /\ st'[o] = "opening" /\ openBy'[o] = n
  BY <1>0, <1>3, <1>a DEF PageTypes
<1>5. Shapes'
  <2>1. ASSUME NEW b \in Known PROVE Shape(calls[b])'
    BY <1>0, <1>2, <1>3, <2>1 DEF Shapes, Shape
  <2>2. Shape(calls[n])'
    BY <1>1, <1>2, <1>3 DEF Shape
  <2> QED
    BY <1>2, <2>1, <2>2 DEF Shapes
<1>6. Promises'
  <2>1. ASSUME NEW m \in Object PROVE (Holds(openBy, "open", m) /\ Holds(closeBy, "close", m))'
    <3>1. Holds(openBy, "open", m) /\ Holds(closeBy, "close", m)
      BY <1>0 DEF Promises
    <3>2. CASE m = o
      <4>1. calls'[n].k = x.k /\ calls'[n].o = o /\ calls'[n].res = "pending"
        BY <1>1, <1>2
      <4>2. Holds(openBy, "open", o)'
        BY <1>1, <1>2, <1>4, <3>1, <3>2, <4>1 DEF Holds, Done
      <4>3. Holds(closeBy, "close", o)'
        BY <1>1, <1>2, <1>4, <3>1, <3>2, <4>1, ZenonT(40) DEF Holds, Done
      <4> QED
        BY <3>2, <4>2, <4>3
    <3>3. CASE m # o
      BY <1>2, <1>4, <3>1, <3>3 DEF Holds
    <3> QED
      BY <3>2, <3>3
  <2>2. ASSUME NEW m \in Object, forgetBy'[m] # None
        PROVE  /\ forgetBy'[m] \in Known' /\ calls'[forgetBy'[m]].k = "forget" /\ calls'[forgetBy'[m]].res = "pending"
               /\ m \in calls'[forgetBy'[m]].group
    BY <1>0, <1>2, <2>2, ZenonT(40) DEF Promises, Done
  <2>3. ASSUME NEW f \in Known', calls'[f].k = "forget", calls'[f].res = "pending"
        PROVE  \A m \in calls'[f].group : forgetBy'[m] = f
    <3>1. f # n /\ f \in Known /\ calls'[f] = calls[f]
      BY <1>1, <1>2, <2>3
    <3> QED
      BY <1>0, <2>3, <3>1 DEF Promises, Done
  <2> QED
    BY <2>1, <2>2, <2>3 DEF Promises, Done
<1>7. Kept'
  <2> SUFFICES ASSUME spent'["loss"] = 0, NEW b \in Known', ~Done(b)' PROVE Keeps(b)'
    BY DEF Kept
  <2>1. spent["loss"] = 0
    BY LossBefore
  <2>2. CASE b = n
    BY <1>1, <1>2, <1>4, <2>2 DEF Keeps, OpenKeeps
  <2>3. CASE b # n
    <3>1. Keeps(b) /\ calls'[b] = calls[b] /\ On(b)' = On(b) /\ calls[b].o \in Object /\ b \in Known
          /\ calls[b].k \in {"open", "close", "forget"}
      BY <1>0, <1>2, <2>1, <2>3, KeptNow, CallFacts DEF CallType
    <3>2. CASE calls[b].k = "open"
      BY <1>4, <3>1, <3>2 DEF Keeps, OpenKeeps
    <3>3. CASE calls[b].k = "close"
      BY <1>4, <3>1, <3>3 DEF Keeps, CloseKeeps
    <3>4. CASE calls[b].k = "forget"
      <4>1. Held(calls[b]) \subseteq Object
        BY <1>0, <3>1, <3>4, CallFacts DEF Shapes, Shape, Held
      <4>2. ForgetKeeps(b)'
        <5>1. Held(calls[b])' = Held(calls[b])
          BY <3>1 DEF Held
        <5>2. ForgetKeeps(b)
          BY <3>1, <3>4 DEF Keeps
        <5> QED
          BY <1>4, <3>1, <4>1, <5>1, <5>2 DEF ForgetKeeps
      <4> QED
        BY <3>1, <3>4, <4>2 DEF Keeps
    <3> QED
      BY <3>1, <3>2, <3>3, <3>4
  <2> QED
    BY <2>2, <2>3
<1>8. Entries'
  BY <1>0, <1>3, <1>4 DEF Entries
<1>9. Objects'
  <2> SUFFICES ASSUME NEW m \in Object PROVE Under(m)'
    BY DEF Objects
  <2>1. Under(m) /\ (forgetBy[m] # None => forgetBy[m] \in Known)
    BY <1>0 DEF Objects, Promises
  <2>2. forgetBy[m] # None => Held(calls[forgetBy[m]])' = Held(calls[forgetBy[m]])
    BY <1>2, <2>1 DEF Held
  <2> QED
    BY <1>2, <1>3, <1>4, <2>1, <2>2 DEF Under
<1>10. Denied' /\ Reported'
  <2>1. Denied'
    <3> SUFFICES ASSUME NEW f \in Known', calls'[f].k = "forget", calls'[f].at \in {"undo", "undoing"}
                 PROVE  spent'["denial"] + spent'["timeout"] > 0
      BY DEF Denied
    <3>1. f \in Known /\ calls'[f] = calls[f]
      BY <1>1, <1>2
    <3>2. spent["denial"] + spent["timeout"] > 0
      BY <1>0, <3>1 DEF Denied
    <3> QED
      BY <3>2 DEF Later, Faults
  <2>2. Reported'
    BY <1>0, <1>4, LossBefore DEF Reported
  <2> QED
    BY <2>1, <2>2
<1> QED
  BY <1>3, <1>5, <1>6, <1>7, <1>8, <1>9, <1>10 DEF PageInv

LEMMA CloseJoins ==
  ASSUME PageInv, Later, NEW o \in Made, st[o] \in {"opening", "opened", "closing"},
         ~(st[o] = "closing" /\ closeBy[o] # None), Next1 <= bound.calls,
         st' = [st EXCEPT ![o] = "closing"], was' \in [Object -> BOOLEAN],
         reports' = [reports EXCEPT ![o] = FALSE], port' = [port EXCEPT ![o] = None],
         closeBy' = [closeBy EXCEPT ![o] = Next1],
         calls' = Append(calls, [NewCall("close", o, "await") EXCEPT !.on = {openBy[o]} \ {None}]),
         UNCHANGED <<dev, registry, openBy, forgetBy, bound>>
  PROVE  PageInv'
<1> DEFINE x == [NewCall("close", o, "await") EXCEPT !.on = {openBy[o]} \ {None}]
<1>0. PageTypes /\ Shapes /\ Promises /\ Kept /\ Entries /\ Objects /\ Denied /\ Reported
  BY DEF PageInv
<1>1. /\ x \in CallType /\ x.k = "close" /\ x.o = o /\ x.at = "await" /\ x.res = "pending"
      /\ x.on = {openBy[o]} \ {None}
  <2>1. {openBy[o]} \ {None} \in SUBSET Call /\ o \in Object /\ <<>> \in Seq(Object)
    BY <1>0, CallFacts, EmptySeq DEF PageTypes
  <2> QED
    BY <2>1 DEF NewCall, CallType, Stage
<1> HIDE DEF x
<1>a. PICK n : n = Next1
  OBVIOUS
<1>2. /\ calls' \in Seq(CallType) /\ Len(calls') <= MaxCalls /\ n \in Known' /\ n \notin Known /\ n # None
      /\ Known \subseteq Known' /\ Known' \subseteq Known \cup {n} /\ calls'[n] = x
      /\ \A b \in Known : calls'[b] = calls[b] /\ (Done(b)' <=> Done(b)) /\ On(b)' = On(b)
  BY <1>0, <1>1, <1>a, JoinsKeep DEF x
<1>3. PageTypes' /\ Made' = Made /\ o \in Object
  <2>1. o \in Object /\ closeBy' \in [Object -> Known' \cup {None}] /\ st' \in [Object -> State]
        /\ port' \in [Object -> Known' \cup {None}] /\ reports' \in [Object -> BOOLEAN]
    BY <1>0, <1>2, <1>a, CallFacts DEF PageTypes, State
  <2>2. openBy' \in [Object -> Known' \cup {None}] /\ forgetBy' \in [Object -> Known' \cup {None}]
    BY <1>0, <1>2 DEF PageTypes
  <2> QED
    BY <1>0, <1>2, <2>1, <2>2 DEF PageTypes, Later, Made
<1>4. /\ \A m \in Object : m # o => /\ st'[m] = st[m] /\ closeBy'[m] = closeBy[m]
                                    /\ reports'[m] = reports[m] /\ port'[m] = port[m]
      /\ st'[o] = "closing" /\ closeBy'[o] = n /\ reports'[o] = FALSE
  BY <1>0, <1>3, <1>a DEF PageTypes
<1>5. Shapes'
  <2>1. ASSUME NEW b \in Known PROVE Shape(calls[b])'
    BY <1>0, <1>2, <1>3, <2>1 DEF Shapes, Shape
  <2>2. Shape(calls[n])'
    BY <1>1, <1>2, <1>3 DEF Shape
  <2> QED
    BY <1>2, <2>1, <2>2 DEF Shapes
<1>6. Promises'
  <2>1. ASSUME NEW m \in Object PROVE (Holds(openBy, "open", m) /\ Holds(closeBy, "close", m))'
    <3>1. Holds(openBy, "open", m) /\ Holds(closeBy, "close", m)
      BY <1>0 DEF Promises
    <3>2. CASE m = o
      <4>1. calls'[n].k = x.k /\ calls'[n].o = o /\ calls'[n].res = "pending"
        BY <1>1, <1>2
      <4>2. Holds(openBy, "open", o)'
        BY <1>1, <1>2, <1>4, <3>1, <3>2, <4>1, ZenonT(40) DEF Holds, Done
      <4>3. Holds(closeBy, "close", o)'
        BY <1>1, <1>2, <1>4, <3>1, <3>2, <4>1 DEF Holds, Done
      <4> QED
        BY <3>2, <4>2, <4>3
    <3>3. CASE m # o
      BY <1>2, <1>4, <3>1, <3>3 DEF Holds
    <3> QED
      BY <3>2, <3>3
  <2>2. ASSUME NEW m \in Object, forgetBy'[m] # None
        PROVE  /\ forgetBy'[m] \in Known' /\ calls'[forgetBy'[m]].k = "forget" /\ calls'[forgetBy'[m]].res = "pending"
               /\ m \in calls'[forgetBy'[m]].group
    BY <1>0, <1>2, <2>2 DEF Promises, Done
  <2>3. ASSUME NEW f \in Known', calls'[f].k = "forget", calls'[f].res = "pending"
        PROVE  \A m \in calls'[f].group : forgetBy'[m] = f
    <3>1. f # n /\ f \in Known /\ calls'[f] = calls[f]
      BY <1>1, <1>2, <2>3
    <3> QED
      BY <1>0, <2>3, <3>1 DEF Promises, Done
  <2> QED
    BY <2>1, <2>2, <2>3 DEF Promises, Done
<1>7. Kept'
  <2> SUFFICES ASSUME spent'["loss"] = 0, NEW b \in Known', ~Done(b)' PROVE Keeps(b)'
    BY DEF Kept
  <2>1. spent["loss"] = 0
    BY LossBefore
  <2>2. CASE b = n
    <3>1. openBy[o] \in On(n)'
      BY <1>1, <1>2 DEF On
    <3> QED
      BY <1>1, <1>2, <1>4, <2>2, <3>1 DEF Keeps, CloseKeeps
  <2>3. CASE b # n
    <3>1. Keeps(b) /\ calls'[b] = calls[b] /\ On(b)' = On(b) /\ calls[b].o \in Object /\ b \in Known /\ b # None
          /\ calls[b].k \in {"open", "close", "forget"}
      BY <1>0, <1>2, <2>1, <2>3, KeptNow, CallFacts DEF CallType
    <3>2. CASE calls[b].k = "open"
      BY <1>4, <3>1, <3>2 DEF Keeps, OpenKeeps
    <3>3. CASE calls[b].k = "close"
      BY <1>4, <3>1, <3>3, ZenonT(40) DEF Keeps, CloseKeeps
    <3>4. CASE calls[b].k = "forget"
      <4>1. Held(calls[b]) \subseteq Object /\ o \notin Held(calls[b])
        BY <1>0, <3>1, <3>4, CallFacts DEF Shapes, Shape, Held, Keeps, ForgetKeeps
      <4>2. ForgetKeeps(b)'
        <5>1. Held(calls[b])' = Held(calls[b])
          BY <3>1 DEF Held
        <5>2. ForgetKeeps(b)
          BY <3>1, <3>4 DEF Keeps
        <5> QED
          BY <1>4, <3>1, <4>1, <5>1, <5>2 DEF ForgetKeeps
      <4> QED
        BY <3>1, <3>4, <4>2 DEF Keeps
    <3> QED
      BY <3>1, <3>2, <3>3, <3>4
  <2> QED
    BY <2>2, <2>3
<1>8. Entries'
  BY <1>0, <1>3, <1>4 DEF Entries
<1>9. Objects'
  <2> SUFFICES ASSUME NEW m \in Object PROVE Under(m)'
    BY DEF Objects
  <2>1. Under(m) /\ (forgetBy[m] # None => forgetBy[m] \in Known)
    BY <1>0 DEF Objects, Promises
  <2>2. forgetBy[m] # None => Held(calls[forgetBy[m]])' = Held(calls[forgetBy[m]])
    BY <1>2, <2>1 DEF Held
  <2> QED
    BY <1>2, <1>3, <1>4, <2>1, <2>2 DEF Under
<1>10. Denied' /\ Reported'
  <2>1. Denied'
    <3> SUFFICES ASSUME NEW f \in Known', calls'[f].k = "forget", calls'[f].at \in {"undo", "undoing"}
                 PROVE  spent'["denial"] + spent'["timeout"] > 0
      BY DEF Denied
    <3>1. f \in Known /\ calls'[f] = calls[f]
      BY <1>1, <1>2
    <3>2. spent["denial"] + spent["timeout"] > 0
      BY <1>0, <3>1 DEF Denied
    <3> QED
      BY <3>2 DEF Later, Faults
  <2>2. Reported'
    BY <1>0, <1>4, LossBefore DEF Reported
  <2> QED
    BY <2>1, <2>2
<1> QED
  BY <1>3, <1>5, <1>6, <1>7, <1>8, <1>9, <1>10 DEF PageInv

LEMMA GroupMade ==
  ASSUME PageTypes, Entries, NEW o \in Made
  PROVE  Group(o) \subseteq Made /\ o \in Group(o) /\ \A m \in Group(o) : m = o \/ st[m] # "forgotten"
BY DEF Group, Entries

LEMMA ForgetJoins ==
  ASSUME PageInv, Later, NEW o \in Made, st[o] # "forgotten", \A m \in Group(o) : forgetBy[m] = None,
         Next1 <= bound.calls,
         st' = With(st, Group(o), "forgetting"), reports' = With(reports, Group(o), FALSE),
         port' = With(port, Group(o), None), forgetBy' = With(forgetBy, Group(o), Next1),
         calls' = Append(calls,
           [NewCall("forget", o, "await") EXCEPT
              !.on = ({openBy[m] : m \in Group(o)} \cup {closeBy[m] : m \in Group(o)}) \ {None},
              !.group = Group(o),
              !.opened = {m \in Group(o) : st[m] \in {"opened", "closing"}}]),
         UNCHANGED <<dev, registry, was, openBy, closeBy, bound>>
  PROVE  PageInv'
<1>0. PageTypes /\ Shapes /\ Promises /\ Kept /\ Entries /\ Objects /\ Denied /\ Reported
  BY DEF PageInv
<1>b. PICK g : g = Group(o)
  OBVIOUS
<1>c. g \subseteq Made /\ o \in g /\ g \in SUBSET Object /\ (\A m \in g : st[m] # "forgotten")
  BY <1>0, <1>b, GroupMade, CallFacts
<1> DEFINE on == ({openBy[m] : m \in g} \cup {closeBy[m] : m \in g}) \ {None}
           opened == {m \in g : st[m] \in {"opened", "closing"}}
<1>d. on \in SUBSET Call /\ opened \in SUBSET Object /\ \A m \in g : openBy[m] \in on \cup {None} /\ closeBy[m] \in on \cup {None}
  BY <1>0, <1>c, CallFacts DEF PageTypes
<1>e. calls' = Append(calls, [NewCall("forget", o, "await") EXCEPT !.on = on, !.group = g, !.opened = opened])
  BY <1>b
<1> HIDE DEF on, opened
<1> DEFINE x == [NewCall("forget", o, "await") EXCEPT !.on = on, !.group = g, !.opened = opened]
<1>1. /\ x \in CallType /\ x.k = "forget" /\ x.o = o /\ x.at = "await" /\ x.res = "pending"
      /\ x.on = on /\ x.group = g /\ x.todo = <<>>
  <2>1. o \in Object /\ <<>> \in Seq(Object)
    BY <1>0, CallFacts, EmptySeq
  <2> QED
    BY <1>c, <1>d, <2>1 DEF NewCall, CallType, Stage
<1>f. calls' = Append(calls, x)
  BY <1>e
<1> HIDE DEF x
<1>a. PICK n : n = Next1
  OBVIOUS
<1>2. /\ calls' \in Seq(CallType) /\ Len(calls') <= MaxCalls /\ n \in Known' /\ n \notin Known /\ n # None
      /\ Known \subseteq Known' /\ Known' \subseteq Known \cup {n} /\ calls'[n] = x
      /\ \A b \in Known : calls'[b] = calls[b] /\ (Done(b)' <=> Done(b)) /\ On(b)' = On(b)
  BY <1>0, <1>1, <1>a, <1>f, JoinsKeep
<1>3. PageTypes' /\ Made' = Made /\ o \in Object
  <2>1. o \in Object /\ forgetBy' \in [Object -> Known' \cup {None}] /\ st' \in [Object -> State]
        /\ port' \in [Object -> Known' \cup {None}] /\ reports' \in [Object -> BOOLEAN]
    BY <1>0, <1>2, <1>a, CallFacts DEF PageTypes, State, With
  <2>2. openBy' \in [Object -> Known' \cup {None}] /\ closeBy' \in [Object -> Known' \cup {None}]
    BY <1>0, <1>2 DEF PageTypes
  <2> QED
    BY <1>0, <1>2, <2>1, <2>2 DEF PageTypes, Later, Made
<1>4. /\ \A m \in Object : m \notin g => /\ st'[m] = st[m] /\ forgetBy'[m] = forgetBy[m]
                                         /\ reports'[m] = reports[m] /\ port'[m] = port[m]
      /\ \A m \in g : st'[m] = "forgetting" /\ forgetBy'[m] = n /\ reports'[m] = FALSE /\ forgetBy[m] = None
  BY <1>0, <1>3, <1>a, <1>b, <1>c DEF With
<1>5. Shapes'
  <2>1. ASSUME NEW b \in Known PROVE Shape(calls[b])'
    BY <1>0, <1>2, <1>3, <2>1 DEF Shapes, Shape
  <2>2. Range(<<>>) = {} /\ Distinct(<<>>)
    BY DEF Range, Distinct
  <2>3. Shape(calls[n])'
    BY <1>1, <1>2, <1>3, <1>c, <2>2 DEF Shape
  <2> QED
    BY <1>2, <2>1, <2>3 DEF Shapes
<1>6. Promises'
  <2>1. ASSUME NEW m \in Object PROVE (Holds(openBy, "open", m) /\ Holds(closeBy, "close", m))'
    <3>1. Holds(openBy, "open", m) /\ Holds(closeBy, "close", m)
      BY <1>0 DEF Promises
    <3>2. Holds(openBy, "open", m)'
      BY <1>2, <3>1 DEF Holds
    <3>3. Holds(closeBy, "close", m)'
      BY <1>2, <3>1 DEF Holds
    <3> QED
      BY <3>2, <3>3
  <2>2. ASSUME NEW m \in Object, forgetBy'[m] # None
        PROVE  /\ forgetBy'[m] \in Known' /\ calls'[forgetBy'[m]].k = "forget" /\ calls'[forgetBy'[m]].res = "pending"
               /\ m \in calls'[forgetBy'[m]].group
    <3>1. CASE m \in g
      BY <1>1, <1>2, <1>4, <3>1, ZenonT(40)
    <3>2. CASE m \notin g
      <4>1. forgetBy'[m] = forgetBy[m]
        BY <1>4, <3>2
      <4>2. forgetBy[m] \in Known /\ calls[forgetBy[m]].k = "forget" /\ ~Done(forgetBy[m]) /\ m \in calls[forgetBy[m]].group
        BY <1>0, <2>2, <4>1 DEF Promises
      <4> QED
        BY <1>2, <4>1, <4>2 DEF Done
    <3> QED
      BY <3>1, <3>2
  <2>3. ASSUME NEW f \in Known', calls'[f].k = "forget", calls'[f].res = "pending"
        PROVE  \A m \in calls'[f].group : forgetBy'[m] = f
    <3>1. CASE f = n
      BY <1>1, <1>2, <1>4, <3>1
    <3>2. CASE f # n
      <4>1. f \in Known /\ calls'[f] = calls[f] /\ f # None /\ calls[f].group \subseteq Object
        BY <1>0, <1>2, <3>2, CallFacts DEF CallType
      <4>2. \A m \in calls[f].group : forgetBy[m] = f
        BY <1>0, <2>3, <4>1 DEF Promises, Done
      <4>3. \A m \in calls[f].group : m \notin g
        BY <1>4, <4>1, <4>2
      <4> QED
        BY <1>4, <4>1, <4>2, <4>3
    <3> QED
      BY <3>1, <3>2
  <2> QED
    BY <2>1, <2>2, <2>3 DEF Promises, Done
<1>7. Kept'
  <2> SUFFICES ASSUME spent'["loss"] = 0, NEW b \in Known', ~Done(b)' PROVE Keeps(b)'
    BY DEF Kept
  <2>1. spent["loss"] = 0
    BY LossBefore
  <2>2. CASE b = n
    <3>1. On(n)' = {None} \cup on /\ Held(calls[n])' = g
      BY <1>1, <1>2 DEF On, Held
    <3>2. ForgetKeeps(n)'
      BY <1>4, <1>d, <3>1 DEF ForgetKeeps
    <3> QED
      BY <1>1, <1>2, <2>2, <3>2 DEF Keeps
  <2>3. CASE b # n
    <3>1. Keeps(b) /\ calls'[b] = calls[b] /\ On(b)' = On(b) /\ calls[b].o \in Object /\ b \in Known /\ b # None
          /\ ~Done(b) /\ calls[b].k \in {"open", "close", "forget"}
      BY <1>0, <1>2, <2>1, <2>3, KeptNow, CallFacts DEF CallType
    <3>2. CASE calls[b].k = "open"
      BY <1>4, <3>1, <3>2, ZenonT(40) DEF Keeps, OpenKeeps
    <3>3. CASE calls[b].k = "close"
      BY <1>4, <3>1, <3>3, ZenonT(40) DEF Keeps, CloseKeeps
    <3>4. CASE calls[b].k = "forget"
      <4>1. Held(calls[b]) \subseteq calls[b].group /\ calls[b].group \subseteq Object
        BY <1>0, <3>1, <3>4, CallFacts DEF Shapes, Shape, Held
      <4>2. \A m \in Held(calls[b]) : forgetBy[m] = b
        BY <1>0, <3>1, <3>4, <4>1 DEF Promises
      <4>3. Held(calls[b])' = Held(calls[b]) /\ ForgetKeeps(b)
        BY <3>1, <3>4 DEF Held, Keeps
      <4>4. ForgetKeeps(b)'
        BY <1>4, <3>1, <4>1, <4>2, <4>3 DEF ForgetKeeps
      <4> QED
        BY <3>1, <3>4, <4>4 DEF Keeps
    <3> QED
      BY <3>1, <3>2, <3>3, <3>4
  <2> QED
    BY <2>2, <2>3
<1>8. Entries'
  <2>1. \A m \in Object : st[m] # "forgotten" => st'[m] # "forgotten"
    BY <1>4
  <2> QED
    BY <1>0, <1>3, <2>1, CallFacts DEF Entries
<1>9. Objects'
  <2> SUFFICES ASSUME NEW m \in Object PROVE Under(m)'
    BY DEF Objects
  <2>1. Under(m) /\ (forgetBy[m] # None => forgetBy[m] \in Known)
    BY <1>0 DEF Objects, Promises
  <2>2. CASE m \in g
    <3>1. Held(calls[n])' = g
      BY <1>1, <1>2 DEF Held
    <3> QED
      BY <1>2, <1>3, <1>4, <1>c, <2>2, <3>1 DEF Under
  <2>3. CASE m \notin g
    <3>1. forgetBy'[m] = forgetBy[m]
      BY <1>4, <2>3
    <3>2. forgetBy[m] # None => Held(calls[forgetBy[m]])' = Held(calls[forgetBy[m]])
      BY <1>2, <2>1, <3>1 DEF Held
    <3> QED
      BY <1>2, <1>3, <1>4, <2>1, <2>3, <3>2 DEF Under
  <2> QED
    BY <2>2, <2>3
<1>10. Denied' /\ Reported'
  <2>1. Denied'
    <3> SUFFICES ASSUME NEW f \in Known', calls'[f].k = "forget", calls'[f].at \in {"undo", "undoing"}
                 PROVE  spent'["denial"] + spent'["timeout"] > 0
      BY DEF Denied
    <3>1. f \in Known /\ calls'[f] = calls[f]
      BY <1>1, <1>2
    <3>2. spent["denial"] + spent["timeout"] > 0
      BY <1>0, <3>1 DEF Denied
    <3> QED
      BY <3>2 DEF Later, Faults
  <2>2. Reported'
    BY <1>0, <1>4, <1>c, LossBefore DEF Reported
  <2> QED
    BY <2>1, <2>2
<1> QED
  BY <1>3, <1>5, <1>6, <1>7, <1>8, <1>9, <1>10 DEF PageInv
-----------------------------------------------------------------------------
(* The steps of the page *)

LEMMA Stages ==
  ASSUME PageInv, NEW c \in Known
  PROVE  /\ calls[c].at \in {"asked", "waiting"} => calls[c].k = "open"
         /\ calls[c].at = "closing" => calls[c].k = "close"
         /\ calls[c].at \in {"unpairing", "undo"} => calls[c].k = "forget"
         /\ calls[c].at = "undoing" => calls[c].k \in {"open", "forget"}
         /\ calls[c].at = "await" => calls[c].k \in {"close", "forget"}
         /\ calls[c].at # "done" => ~Done(c)
         /\ calls[c].o \in Made /\ calls[c].o \in Object
         /\ calls[c].todo \in Seq(Object) /\ calls[c].group \in SUBSET Object
         /\ calls[c].k = "forget" => Distinct(calls[c].todo) /\ Range(calls[c].todo) \subseteq calls[c].group
         /\ calls[c].k = "forget" /\ calls[c].at = "undoing" => calls[c].todo # <<>>
<1>1. calls[c] \in CallType /\ Shape(calls[c])
  BY CallFacts DEF PageInv, Shapes
<1>2. calls[c].k \in {"open", "close", "forget"} /\ calls[c].at \in Stage
  BY <1>1 DEF CallType
<1> QED
  BY <1>1, <1>2 DEF CallType, Shape, Done

\* The list of a forget is shorter by its next member.
LEMMA MemberDone ==
  ASSUME PageInv, Later, NEW c \in Known, calls[c].k = "forget", calls[c].at \in {"undo", "undoing"},
         calls[c].todo # <<>>, Becomes(c, "undo", "pending", Tail(calls[c].todo)),
         \/ st' = [st EXCEPT ![Head(calls[c].todo)] = "closed"]
         \/ st' = st /\ st[Head(calls[c].todo)] # "forgetting",
         was' \in [Object -> BOOLEAN],
         UNCHANGED <<dev, registry, port, reports, promiseVars, bound>>
  PROVE  PageInv'
<1>1. calls[c].todo \in Seq(Object) /\ Distinct(calls[c].todo)
  BY Stages
<1>2. PICK head, left : head = Head(calls[c].todo) /\ left = Tail(calls[c].todo)
  OBVIOUS
<1>3. /\ Distinct(left) /\ left \in Seq(Object) /\ head \in Object
      /\ head \in Range(calls[c].todo) /\ Range(left) = Range(calls[c].todo) \ {head}
  BY <1>1, <1>2, OneLess
<1>4. Held(calls[c]) = Range(calls[c].todo)
  BY DEF Held
<1>5. st \in [Object -> State] /\ spent["denial"] + spent["timeout"] > 0
  BY DEF PageInv, PageTypes, Denied
<1>6. st' \in [Object -> State]
  BY <1>2, <1>3, <1>5 DEF State
<1>7. \A m \in Object : st'[m] = st[m] \/ (st'[m] = "closed" /\ m \in Held(calls[c]) \ Range(left))
  BY <1>2, <1>3, <1>4, <1>5
<1>8. \A m \in Held(calls[c]) \ Range(left) : st'[m] # "forgetting"
  BY <1>2, <1>3, <1>4, <1>5
<1>9. Becomes(c, "undo", "pending", left) /\ spent'["denial"] + spent'["timeout"] > 0
  BY <1>2, <1>5 DEF Becomes, Later, Faults
<1>10. Range(left) \subseteq Held(calls[c])
  BY <1>3, <1>4
<1> QED
  BY <1>3, <1>6, <1>7, <1>8, <1>9, <1>10, ForgetGoesOn

LEMMA OpenHears ==
  ASSUME PageInv, Later, NEW c \in Known, NEW ok \in BOOLEAN, UNCHANGED <<dev, registry, closeBy, forgetBy, bound>>,
         \/ calls[c].at = "asked" /\ OpenHeard(c, ok)
         \/ calls[c].at = "waiting" /\ ReadyHeard(c, ok)
         \/ calls[c].at = "undoing" /\ calls[c].k = "open" /\ UndoHeard(c)
  PROVE  PageInv'
<1>1. calls[c].k = "open" /\ ~Done(c)
  BY Stages
<1>2. was \in [Object -> BOOLEAN] /\ calls[c].o \in Object /\ st \in [Object -> State]
  BY Stages DEF PageInv, PageTypes
<1>3. ASSUME NEW b \in BOOLEAN, OpenFails(c, b)
      PROVE  PageInv'
  <2>1. CASE b /\ st[calls[c].o] # "closing"
    <3>1. /\ calls' = [calls EXCEPT ![c].at = "undoing"] /\ port' = [port EXCEPT ![calls[c].o] = None]
          /\ UNCHANGED <<st, openBy, was, reports>>
      BY <1>3, <2>1 DEF OpenFails, CloseDataPort
    <3> QED
      BY <1>1, <3>1, OpenGoesOn DEF promiseVars
  <2>2. CASE ~(b /\ st[calls[c].o] # "closing")
    <3>1. /\ st' = IF st[calls[c].o] = "opening" THEN [st EXCEPT ![calls[c].o] = "closed"] ELSE st
          /\ calls' = Settle(c, "failed") /\ openBy' = LetGo(openBy, c)
          /\ port' = [port EXCEPT ![calls[c].o] = None] /\ UNCHANGED <<was, reports>>
      BY <1>3, <2>2 DEF OpenFails, CloseDataPort
    <3> QED
      BY <1>1, <1>2, <3>1, OpenSettles
  <2> QED
    BY <2>1, <2>2
<1>4. CASE calls[c].at = "asked" /\ OpenHeard(c, ok)
  <2>1. CASE ok /\ st[calls[c].o] = "opening"
    <3>1. /\ port' = [port EXCEPT ![calls[c].o] = c] /\ calls' = [calls EXCEPT ![c].at = "waiting"]
          /\ UNCHANGED <<st, was, reports, openBy>>
      BY <1>4, <2>1 DEF OpenHeard
    <3> QED
      BY <1>1, <2>1, <3>1, OpenGoesOn DEF promiseVars
  <2>2. CASE ~(ok /\ st[calls[c].o] = "opening")
    BY <1>3, <1>4, <2>2 DEF OpenHeard
  <2> QED
    BY <2>1, <2>2
<1>5. CASE calls[c].at = "waiting" /\ ReadyHeard(c, ok)
  <2>1. CASE ok /\ st[calls[c].o] = "opening"
    <3>1. /\ st' = [st EXCEPT ![calls[c].o] = "opened"] /\ was' = [was EXCEPT ![calls[c].o] = FALSE]
          /\ calls' = Settle(c, "ok") /\ openBy' = LetGo(openBy, c) /\ UNCHANGED <<port, reports>>
      BY <1>5, <2>1 DEF ReadyHeard
    <3>2. was' \in [Object -> BOOLEAN]
      BY <1>2, <3>1
    <3> QED
      BY <1>1, <2>1, <3>1, <3>2, OpenSettles
  <2>2. CASE ~(ok /\ st[calls[c].o] = "opening")
    BY <1>3, <1>5, <2>2 DEF ReadyHeard
  <2> QED
    BY <2>1, <2>2
<1>6. CASE calls[c].at = "undoing" /\ calls[c].k = "open" /\ UndoHeard(c)
  <2>1. /\ st' = IF st[calls[c].o] = "opening" THEN [st EXCEPT ![calls[c].o] = "closed"] ELSE st
        /\ calls' = Settle(c, "failed") /\ openBy' = LetGo(openBy, c) /\ UNCHANGED <<was, port, reports>>
    BY <1>6 DEF UndoHeard
  <2> QED
    BY <1>1, <1>2, <2>1, OpenSettles
<1> QED
  BY <1>4, <1>5, <1>6

LEMMA UnpairHears ==
  ASSUME PageInv, Later, NEW c \in Known, NEW ok \in BOOLEAN, UNCHANGED <<dev, openBy, closeBy, bound>>,
         calls[c].at = "unpairing", UnpairHeard(c, ok), ~ok => spent'["denial"] + spent'["timeout"] > 0
  PROVE  PageInv'
<1>0. PageTypes
  BY DEF PageInv
<1>1. CASE ok
  BY <1>1, UnpairSucceeds DEF UnpairHeard, Forgets, Unregister
<1>2. CASE ~ok
  <2>1. PICK todo : todo = Sorted(calls[c].group)
    OBVIOUS
  <2>2. /\ calls' = [calls EXCEPT ![c].at = "undo", ![c].todo = todo]
        /\ UNCHANGED <<st, was, port, reports, registry, forgetBy>>
    BY <1>2, <2>1 DEF UnpairHeard
  <2>3. todo \in Seq(Object) /\ Range(todo) = calls[c].group /\ Distinct(todo)
    BY <2>1, Stages, InOrder
  <2>4. calls[c].k = "forget" /\ ~Done(c)
    BY Stages
  <2>5. Becomes(c, "undo", "pending", todo)
    <3>1. "undo" \in Stage
      BY DEF Stage
    <3>2. Becomes(c, "undo", calls[c].res, todo)
      BY <1>0, <2>2, <2>3, <3>1, TodoBecomes
    <3> QED
      BY <2>4, <3>2 DEF Becomes, Done
  <2>6. Held(calls[c]) = Range(todo)
    BY <2>3 DEF Held
  <2>7. st' \in [Object -> State] /\ was' \in [Object -> BOOLEAN]
    BY <1>0, <2>2 DEF PageTypes
  <2> QED
    BY <1>2, <2>2, <2>3, <2>4, <2>5, <2>6, <2>7, ForgetGoesOn DEF promiseVars
<1> QED
  BY <1>1, <1>2

LEMMA MemberHears ==
  ASSUME PageInv, Later, NEW c \in Known, UNCHANGED <<dev, registry, promiseVars, bound>>,
         calls[c].at = "undoing", calls[c].k = "forget", MemberUndone(c)
  PROVE  PageInv'
<1>0. PageTypes
  BY DEF PageInv
<1>1. calls[c].todo \in Seq(Object) /\ calls[c].todo # <<>> /\ ~Done(c)
  BY Stages
<1>2. Head(calls[c].todo) \in Object /\ Tail(calls[c].todo) \in Seq(Object)
  BY <1>1, Popped
<1>3. PICK left : left = Tail(calls[c].todo)
  OBVIOUS
<1>4. calls' = [calls EXCEPT ![c].at = "undo", ![c].todo = left]
  BY <1>0, <1>3, CallFacts DEF MemberUndone, CallType
<1>5. Becomes(c, "undo", "pending", left)
  <2>1. "undo" \in Stage
    BY DEF Stage
  <2>2. Becomes(c, "undo", calls[c].res, left)
    BY <1>0, <1>2, <1>3, <1>4, <2>1, TodoBecomes
  <2> QED
    BY <1>1, <2>2 DEF Becomes, Done
<1>6. Becomes(c, "undo", "pending", Tail(calls[c].todo))
  BY <1>3, <1>5 DEF Becomes
<1>7. was' \in [Object -> BOOLEAN]
  BY <1>0, <1>2 DEF PageTypes, MemberUndone
<1> QED
  BY <1>1, <1>6, <1>7, MemberDone DEF MemberUndone

LEMMA UndoKeeps ==
  ASSUME PageInv, Later, NEW c \in Known, UndoForget(c)
  PROVE  PageInv'
<1>0. PageTypes
  BY DEF PageInv
<1>1. /\ calls[c].k = "forget" /\ calls[c].at = "undo" /\ ~Done(c) /\ calls[c].todo \in Seq(Object)
      /\ Distinct(calls[c].todo) /\ Range(calls[c].todo) \subseteq calls[c].group /\ calls[c].res = "pending"
  BY Stages DEF UndoForget, Done
<1>2. UNCHANGED <<dev, registry, port, reports, openBy, closeBy, bound>> /\ spent["denial"] + spent["timeout"] > 0
  BY <1>1 DEF UndoForget, faultVars, PageInv, Denied
<1>3. CASE calls[c].todo = <<>>
  BY <1>1, <1>2, <1>3, ForgetFails DEF UndoForget, objVars
<1>4. CASE calls[c].todo # <<>> /\ st[Head(calls[c].todo)] = "forgetting" /\ Head(calls[c].todo) \in calls[c].opened
  <2>1. PICK todo : todo = calls[c].todo
    OBVIOUS
  <2>2. calls' = [calls EXCEPT ![c].at = "undoing"] /\ UNCHANGED <<st, was, forgetBy>>
    BY <1>4 DEF UndoForget
  <2>3. Becomes(c, "undoing", "pending", todo)
    <3>1. "undoing" \in Stage
      BY DEF Stage
    <3>2. Becomes(c, "undoing", calls[c].res, calls[c].todo)
      BY <1>0, <2>2, <3>1, StageBecomes
    <3> QED
      BY <1>1, <2>1, <3>2 DEF Becomes
  <2>4. Held(calls[c]) = Range(todo) /\ st' \in [Object -> State] /\ was' \in [Object -> BOOLEAN]
    BY <1>0, <1>1, <2>1, <2>2 DEF Held, PageTypes
  <2>5. spent'["denial"] + spent'["timeout"] > 0
    BY <1>2 DEF Later, Faults
  <2> QED
    BY <1>1, <1>2, <1>4, <2>1, <2>2, <2>3, <2>4, <2>5, ForgetGoesOn DEF promiseVars
<1>5. CASE calls[c].todo # <<>> /\ ~(st[Head(calls[c].todo)] = "forgetting" /\ Head(calls[c].todo) \in calls[c].opened)
  <2>1. PICK left : left = Tail(calls[c].todo)
    OBVIOUS
  <2>2. calls' = [calls EXCEPT ![c].todo = left] /\ UNCHANGED forgetBy
    BY <1>5, <2>1 DEF UndoForget
  <2>3. left \in Seq(Object) /\ Head(calls[c].todo) \in Object
    BY <1>1, <1>5, <2>1, Popped
  <2>4. Becomes(c, "undo", "pending", left)
    <3>1. "undo" \in Stage
      BY DEF Stage
    <3>2. Becomes(c, "undo", calls[c].res, left)
      BY <1>0, <1>1, <2>2, <2>3, <3>1, TodoBecomes
    <3> QED
      BY <1>1, <3>2 DEF Becomes
  <2>5. Becomes(c, "undo", "pending", Tail(calls[c].todo))
    BY <2>1, <2>4 DEF Becomes
  <2>6. /\ \/ st' = [st EXCEPT ![Head(calls[c].todo)] = "closed"]
           \/ st' = st /\ st[Head(calls[c].todo)] # "forgetting"
        /\ was' \in [Object -> BOOLEAN]
    BY <1>0, <1>5, <2>3 DEF UndoForget, PageTypes
  <2> QED
    BY <1>1, <1>2, <1>5, <2>2, <2>5, <2>6, MemberDone DEF promiseVars
<1> QED
  BY <1>3, <1>4, <1>5

\* A call that hears of its request proceeds, and may ask for more.
LEMMA HeardMoves ==
  ASSUME PageInv, NEW c \in Known, NEW ok \in BOOLEAN, Heard(c, ok)
  PROVE  /\ \E e : calls' = [calls EXCEPT ![c] = e]
         /\ outbox' = outbox \/ \E a \in {"wait", "close"} : outbox' = Append(outbox, Request(c, a, dev[calls[c].o]))
<1>0. calls \in Seq(CallType)
  BY DEF PageInv, PageTypes
<1>1. CASE calls[c].at = "asked" /\ OpenHeard(c, ok)
  BY <1>0, <1>1 DEF OpenHeard, OpenFails, Settle
<1>2. CASE calls[c].at = "waiting" /\ ReadyHeard(c, ok)
  BY <1>0, <1>2 DEF ReadyHeard, OpenFails, Settle
<1>3. CASE calls[c].at = "undoing" /\ UndoHeard(c)
  BY <1>0, <1>3 DEF UndoHeard, Settle
<1>4. CASE calls[c].at = "closing" /\ CloseHeard(c, ok)
  BY <1>0, <1>4 DEF CloseHeard, Settle
<1>5. CASE calls[c].at = "unpairing" /\ UnpairHeard(c, ok)
  BY <1>0, <1>5 DEF UnpairHeard, Settle
<1>6. CASE calls[c].at = "undoing" /\ MemberUndone(c)
  BY <1>0, <1>6 DEF MemberUndone
<1> QED
  BY <1>1, <1>2, <1>3, <1>4, <1>5, <1>6 DEF Heard

LEMMA SameLength ==
  ASSUME NEW S, NEW s \in Seq(S), NEW i \in 1..Len(s), NEW e
  PROVE  Len([s EXCEPT ![i] = e]) = Len(s) /\ Len(s) \in Nat
<1>1. s \in Seq(S \cup {e})
  BY SeqGrows
<1> QED
  BY <1>1, ExceptSeq, LenProperties

LEMMA HeardLater ==
  ASSUME PageInv, NEW c \in Known, NEW ok \in BOOLEAN, Heard(c, ok),
         \/ UNCHANGED spent
         \/ \E f \in Faults : Spend(f)
  PROVE  Later
<1>1. Len(calls') = Len(calls) /\ Len(calls) \in Nat
  <2>1. PICK e : calls' = [calls EXCEPT ![c] = e]
    BY HeardMoves
  <2>2. calls \in Seq(CallType) /\ c \in 1..Len(calls)
    BY DEF PageInv, PageTypes, Known
  <2> QED
    BY <2>1, <2>2, SameLength
<1>2. spent \in [Faults -> Nat]
  BY DEF PageInv, PageTypes
<1>3. spent' \in [Faults -> Nat] /\ \A f \in Faults : spent[f] <= spent'[f]
  BY <1>2 DEF Spend
<1> QED
  BY <1>1, <1>2, <1>3 DEF Later

LEMMA HeardKeeps ==
  ASSUME PageInv, Later, NEW c \in Known, NEW ok \in BOOLEAN, Heard(c, ok), UNCHANGED <<dev, bound>>,
         calls[c].at = "unpairing" /\ ~ok => spent'["denial"] + spent'["timeout"] > 0
  PROVE  PageInv'
<1>1. CASE calls[c].at = "asked" /\ OpenHeard(c, ok) /\ UNCHANGED <<registry, closeBy, forgetBy>>
  BY <1>1, OpenHears
<1>2. CASE calls[c].at = "waiting" /\ ReadyHeard(c, ok) /\ UNCHANGED <<registry, closeBy, forgetBy>>
  BY <1>2, OpenHears
<1>3. CASE calls[c].at = "undoing" /\ calls[c].k = "open" /\ UndoHeard(c) /\ UNCHANGED <<registry, closeBy, forgetBy>>
  BY <1>3, OpenHears
<1>4. CASE calls[c].at = "closing" /\ CloseHeard(c, ok) /\ closeBy' = LetGo(closeBy, c) /\ UNCHANGED <<registry, openBy, forgetBy>>
  BY <1>4, CloseSettles
<1>5. CASE calls[c].at = "unpairing" /\ UnpairHeard(c, ok) /\ UNCHANGED <<openBy, closeBy>>
  BY <1>5, UnpairHears
<1>6. CASE calls[c].at = "undoing" /\ calls[c].k = "forget" /\ MemberUndone(c) /\ UNCHANGED <<registry, promiseVars>>
  BY <1>6, MemberHears
<1> QED
  BY <1>1, <1>2, <1>3, <1>4, <1>5, <1>6 DEF Heard

LEMMA Asks ==
  ASSUME PageTypes, Later, NEW c \in Known', NEW o \in Made, NEW a \in {"open", "wait", "close", "unpair"}
  PROVE  Request(c, a, dev[o]) \in Requests'
<1>1. dev[o] \in Device
  BY CallFacts
<1> QED
  BY <1>1 DEF Request, Requests

LEMMA HeardSends ==
  ASSUME PageInv, Later, NEW c \in Known, NEW ok \in BOOLEAN, Heard(c, ok)
  PROVE  PageSends
<1>1. PageTypes /\ calls[c].o \in Made /\ c \in Known'
  BY Stages DEF PageInv, Later, Known
<1>2. \A a \in {"wait", "close"} : Request(c, a, dev[calls[c].o]) \in Requests'
  BY <1>1, Asks
<1> QED
  BY <1>2, HeardMoves DEF PageSends

LEMMA FaultsLater ==
  ASSUME PageTypes, NEW f \in Faults, UNCHANGED spent \/ Spend(f), Len(calls') \in {Len(calls), Len(calls) + 1}
  PROVE  Later /\ (Spend(f) => spent'[f] > 0 /\ UNCHANGED bound)
<1>1. Len(calls) \in Nat
  BY CallFacts
<1>2. spent \in [Faults -> Nat]
  BY DEF PageTypes
<1>3. spent' \in [Faults -> Nat] /\ \A g \in Faults : spent[g] <= spent'[g]
  BY <1>2 DEF Spend
<1>4. Spend(f) => spent'[f] > 0 /\ UNCHANGED bound
  BY <1>2 DEF Spend
<1> QED
  BY <1>1, <1>2, <1>3, <1>4 DEF Later

\* What the page does and no answer on its way needs to know
LEMMA PageDone ==
  ASSUME HidInv, Later, PageInv', PageSends, PageReads, UNCHANGED <<control, wire, reqs, events, bridgeVars, backVars>>
  PROVE  HidInv'
<1>1. NetTypes'
  BY PageSteps DEF HidInv
<1>2. OneAnswer' /\ Unpairing'
  BY DEF HidInv, OneAnswer, Unpairing, Pending, backVars
<1> QED
  BY <1>1, <1>2 DEF HidInv

LEMMA HearsKeepsPage ==
  ASSUME HidInv, PageHears
  PROVE  HidInv'
<1>0. PageInv /\ PageTypes /\ NetTypes /\ calls \in Seq(CallType)
  BY DEF HidInv, PageInv, PageTypes
<1>1. /\ UNCHANGED <<dev, bound, spent>> /\ UNCHANGED <<control, wire, reqs, events, bridgeVars, backVars>>
      /\ inbox # <<>> /\ inbox' = Tail(inbox)
  BY DEF PageHears, faultVars
<1>2. PICK m \in Messages : m = Head(inbox)
  BY <1>0, <1>1, Popped DEF NetTypes
<1>3. PageReads
  BY <1>1 DEF PageReads
<1>4. CASE m.k = "answer" /\ Heeded(m.r)
  <2>1. m.r \in Requests /\ m.ok \in BOOLEAN /\ (m.r.a = "unpair" /\ ~m.ok => spent["denial"] > 0)
    BY <1>4 DEF Messages, Answers, Events
  <2>2. PICK c \in Known, ok \in BOOLEAN : c = m.r.c /\ ok = m.ok
    BY <2>1 DEF Requests
  <2>3. Heard(c, ok)
    BY <1>2, <1>4, <2>2 DEF PageHears, ResponseArrives, DispatchDeviceEvent
  <2>4. Later
    BY <1>0, <1>1, <2>3, HeardLater
  <2>5. calls[c].at = "unpairing" /\ ~ok => spent["denial"] > 0
    BY <1>4, <2>1, <2>2 DEF Heeded
  <2>6. calls[c].at = "unpairing" /\ ~ok => spent'["denial"] + spent'["timeout"] > 0
    BY <1>1, <2>4, <2>5 DEF Later, Faults
  <2>7. PageInv'
    BY <1>0, <1>1, <2>3, <2>4, <2>6, HeardKeeps
  <2>8. PageSends
    BY <1>0, <2>3, <2>4, HeardSends
  <2> QED
    BY <1>1, <1>3, <2>4, <2>7, <2>8, PageDone
<1>5. CASE m.k = "answer" /\ ~Heeded(m.r)
  <2>1. UNCHANGED <<registry, st, was, port, reports, promiseVars, calls, outbox>>
    BY <1>2, <1>5 DEF PageHears, ResponseArrives, DispatchDeviceEvent
  <2>2. Later
    BY <1>0, <1>1, <2>1, FaultsLater DEF Faults
  <2>3. PageInv'
    BY <1>0, <1>1, <2>1, <2>2, PageRests DEF objVars
  <2> QED
    BY <1>1, <1>3, <2>1, <2>2, <2>3, PageDone DEF PageSends
<1>6. CASE m.k \in {"revoked", "disconnect"}
  <2>1. m.d \in Device /\ (m.k = "disconnect" => spent["loss"] > 0)
    BY <1>6 DEF Messages, Answers, Events
  <2>2. PICK d \in Device : d = m.d
    BY <2>1
  <2>3. UNCHANGED <<promiseVars, calls, outbox>>
    BY <1>2, <1>6 DEF PageHears, ResponseArrives, DispatchDeviceEvent
  <2>4. Later
    BY <1>0, <1>1, <2>3, FaultsLater DEF Faults
  <2>5. CASE registry[d] = None
    <3>1. UNCHANGED <<registry, st, was, port, reports>>
      BY <1>2, <1>6, <2>2, <2>5 DEF PageHears, ResponseArrives, DispatchDeviceEvent
    <3>2. PageInv'
      BY <1>0, <1>1, <2>3, <2>4, <3>1, PageRests DEF objVars
    <3> QED
      BY <1>1, <1>3, <2>3, <2>4, <3>2, PageDone DEF PageSends
  <2>6. CASE registry[d] # None
    <3>1. PICK to \in {"forgotten", "closed"} : to = IF m.k = "revoked" THEN "forgotten" ELSE "closed"
      OBVIOUS
    <3>2. Reconcile({registry[d]}, to) /\ Unregister({d})
      BY <1>2, <1>6, <2>2, <2>6, <3>1 DEF PageHears, ResponseArrives, DispatchDeviceEvent
    <3>3. to = "closed" => spent["loss"] > 0
      BY <1>6, <2>1, <3>1
    <3>4. PageInv'
      BY <1>0, <1>1, <2>3, <2>4, <2>6, <3>2, <3>3, EventTakes
    <3> QED
      BY <1>1, <1>3, <2>3, <2>4, <3>4, PageDone DEF PageSends
  <2> QED
    BY <2>5, <2>6
<1> QED
  BY <1>4, <1>5, <1>6 DEF Messages, Answers, Events

LEMMA TimeOutKeeps ==
  ASSUME HidInv, NEW c \in Known, RequestTimesOut(c)
  PROVE  HidInv'
<1>0. PageInv /\ PageTypes
  BY DEF HidInv, PageInv
<1>1. /\ UNCHANGED <<dev, inbox>> /\ UNCHANGED <<control, wire, reqs, events, bridgeVars, backVars>>
      /\ Heard(c, FALSE) /\ Spend("timeout")
  BY DEF RequestTimesOut, portVars
<1>2. FALSE \in BOOLEAN /\ "timeout" \in Faults
  BY DEF Faults
<1>3. Later
  BY <1>0, <1>1, <1>2, HeardLater
<1>4. spent'["timeout"] > 0 /\ UNCHANGED bound
  BY <1>0, <1>1, <1>2 DEF Spend, PageTypes
<1>5. spent'["denial"] + spent'["timeout"] > 0
  BY <1>3, <1>4 DEF Later, Faults
<1>6. PageInv'
  BY <1>0, <1>1, <1>2, <1>3, <1>4, <1>5, HeardKeeps
<1>7. PageSends
  BY <1>0, <1>1, <1>2, <1>3, HeardSends
<1> QED
  BY <1>1, <1>3, <1>6, <1>7, PageDone DEF PageReads

\* The calls of the page, its reports, and what its promises continue with
LEMMA CallsKeep ==
  ASSUME HidInv, NEW o \in Made, Open(o) \/ Close(o) \/ Forget(o) \/ SendReport(o) \/ ReportResult(o)
  PROVE  HidInv'
<1>0. PageInv /\ PageTypes /\ calls \in Seq(CallType) /\ o \in Object
  BY CallFacts DEF HidInv, PageInv, PageTypes
<1>1. /\ UNCHANGED <<dev, registry, bound, spent, inbox>> /\ UNCHANGED <<control, wire, reqs, events, bridgeVars, backVars>>
  BY DEF Open, Close, Forget, SendReport, ReportResult, faultVars, portVars, objVars
<1>2. \A x : Len(Append(calls, x)) = Len(calls) + 1
  BY <1>0
<1>3. CASE Open(o)
  <2>1. Later
    BY <1>0, <1>1, <1>2, <1>3, FaultsLater DEF Open, Faults
  <2>2. PageInv'
    BY <1>0, <1>1, <1>3, <2>1, OpenJoins DEF Open
  <2>3. Next1 \in Known'
    BY <1>0, <1>2, <1>3, CallFacts DEF Open, Known, Next1
  <2>4. PICK n \in Known' : n = Next1
    BY <2>3
  <2>5. Request(n, "open", dev[o]) \in Requests'
    BY <1>0, <2>1, Asks
  <2>6. PageSends
    BY <1>3, <2>4, <2>5 DEF Open, PageSends
  <2> QED
    BY <1>1, <2>1, <2>2, <2>6, PageDone DEF PageReads
<1>4. CASE Close(o)
  <2>1. Later
    BY <1>0, <1>1, <1>2, <1>4, FaultsLater DEF Close, Faults
  <2>2. was' \in [Object -> BOOLEAN] /\ port' = [port EXCEPT ![o] = None]
    BY <1>0, <1>4 DEF Close, CloseDataPort, PageTypes
  <2>3. PageInv'
    BY <1>0, <1>1, <1>4, <2>1, <2>2, CloseJoins DEF Close
  <2> QED
    BY <1>1, <1>4, <2>1, <2>3, PageDone DEF PageReads, PageSends, Close
<1>5. CASE Forget(o)
  <2>1. Later
    BY <1>0, <1>1, <1>2, <1>5, FaultsLater DEF Forget, Faults
  <2>2. PageInv'
    BY <1>0, <1>1, <1>5, <2>1, ForgetJoins DEF Forget
  <2> QED
    BY <1>1, <1>5, <2>1, <2>2, PageDone DEF PageReads, PageSends, Forget
<1>6. CASE SendReport(o) \/ ReportResult(o)
  <2>1. UNCHANGED <<st, was, port, promiseVars, calls, outbox>>
    BY <1>6 DEF SendReport, ReportResult
  <2>2. Later
    BY <1>0, <1>1, <2>1, FaultsLater DEF Faults
  <2>3. PageInv'
    BY <1>0, <1>1, <1>6, <2>1, <2>2, ReportsMove DEF SendReport, ReportResult, MayReport
  <2> QED
    BY <1>1, <2>1, <2>2, <2>3, PageDone DEF PageReads, PageSends
<1> QED
  BY <1>3, <1>4, <1>5, <1>6

LEMMA ContinuesKeep ==
  ASSUME HidInv, NEW c \in Known, Resumes(c) \/ UndoForget(c)
  PROVE  HidInv'
<1>0. PageInv /\ PageTypes /\ calls \in Seq(CallType) /\ c \in 1..Len(calls)
  BY DEF HidInv, PageInv, PageTypes, Known
<1>1. UNCHANGED <<dev, registry, bound, spent, inbox>> /\ UNCHANGED <<control, wire, reqs, events, bridgeVars, backVars>>
  BY DEF Resumes, UndoForget, faultVars, portVars, objVars
<1>2. \E e : calls' = [calls EXCEPT ![c] = e]
  <2>1. CASE Resumes(c)
    BY <1>0, <2>1 DEF Resumes
  <2>2. CASE UndoForget(c)
    BY <1>0, <2>2 DEF UndoForget, Settle
  <2> QED
    BY <2>1, <2>2
<1>3. Len(calls') = Len(calls)
  BY <1>0, <1>2, SameLength
<1>4. Later /\ Known' = Known
  BY <1>0, <1>1, <1>3, FaultsLater DEF Faults, Known
<1>5. CASE Resumes(c)
  <2>1. PICK at \in {"closing", "unpairing"} : at = IF calls[c].k = "close" THEN "closing" ELSE "unpairing"
    OBVIOUS
  <2>2. /\ calls' = [calls EXCEPT ![c].at = at] /\ UNCHANGED <<objVars, promiseVars>>
        /\ calls[c].at = "await" /\ \A b \in calls[c].on : Done(b)
    BY <1>5, <2>1 DEF Resumes
  <2>3. PageInv'
    BY <1>0, <1>1, <1>4, <2>1, <2>2, CallResumes
  <2>4. calls[c].o \in Made
    BY <1>0, Stages
  <2>5. \A a \in {"close", "unpair"} : Request(c, a, dev[calls[c].o]) \in Requests'
    BY <1>0, <1>4, <2>4, Asks
  <2>6. PageSends
    BY <1>5, <2>5 DEF Resumes, PageSends
  <2> QED
    BY <1>1, <1>4, <2>3, <2>6, PageDone DEF PageReads
<1>6. CASE UndoForget(c)
  <2>1. PageInv'
    BY <1>0, <1>4, <1>6, UndoKeeps
  <2>2. outbox' = outbox \/ (calls[c].todo # <<>> /\ outbox' = Append(outbox, Request(c, "close", dev[Head(calls[c].todo)])))
    BY <1>6 DEF UndoForget
  <2>3. calls[c].todo # <<>> => Head(calls[c].todo) \in Made
    <3>1. calls[c].todo \in Seq(Object) /\ Distinct(calls[c].todo) /\ Range(calls[c].todo) \subseteq calls[c].group
          /\ calls[c].group \subseteq Made
      BY <1>0, <1>6, Stages DEF UndoForget, PageInv, Shapes, Shape
    <3> QED
      BY <3>1, OneLess
  <2>4. calls[c].todo # <<>> => Request(c, "close", dev[Head(calls[c].todo)]) \in Requests'
    BY <1>0, <1>4, <2>3, Asks
  <2>5. PageSends
    BY <2>2, <2>4 DEF PageSends
  <2> QED
    BY <1>1, <1>4, <2>1, <2>5, PageDone DEF PageReads
<1> QED
  BY <1>5, <1>6

LEMMA MadeKeeps ==
  ASSUME HidInv, NEW d \in Device, GetOrCreateDevice(d)
  PROVE  HidInv'
<1>0. PageInv /\ PageTypes
  BY DEF HidInv, PageInv
<1>1. /\ UNCHANGED <<bound, spent, calls, inbox, outbox>> /\ UNCHANGED <<control, wire, reqs, events, bridgeVars, backVars>>
      /\ UNCHANGED <<st, was, port, reports, promiseVars, calls, bound>>
  BY DEF GetOrCreateDevice, faultVars, portVars
<1>2. Later
  BY <1>0, <1>1, FaultsLater DEF Faults
<1>3. PageInv'
  BY <1>0, <1>1, <1>2, ObjectMade DEF GetOrCreateDevice
<1> QED
  BY <1>1, <1>2, <1>3, PageDone DEF PageReads, PageSends
-----------------------------------------------------------------------------
(* The steps of the bridge, the background and the daemon *)

LEMMA PageWaits ==
  ASSUME PageInv, UNCHANGED <<objVars, promiseVars, calls>>,
         UNCHANGED faultVars \/ \E f \in Faults : Spend(f)
  PROVE  Later /\ PageInv'
<1>1. PageTypes /\ UNCHANGED bound /\ Len(calls') = Len(calls)
  BY DEF PageInv, faultVars, Spend
<1>2. PICK f \in Faults : UNCHANGED spent \/ Spend(f)
  BY DEF faultVars, Faults
<1>3. Later
  BY <1>1, <1>2, FaultsLater
<1> QED
  BY <1>1, <1>3, PageRests

LEMMA QueuesKeep ==
  ASSUME NetTypes, OneAnswer, Unpairing,
         \/ BridgeTakes \/ \E r \in reqs : OpenAllowed(r) \/ PlaneSpawned(r) \/ PlaneReady(r) \/ CloseReplies(r)
         \/ \E e \in events : EventPassed(e)
  PROVE  wire' = wire /\ OneAnswer' /\ Unpairing'
<1>0. revoking' = revoking
  BY DEF BridgeTakes, OpenAllowed, PlaneSpawned, PlaneReady, CloseReplies, EventPassed, backVars
<1>1. ASSUME NEW r \in Requests PROVE SendBackgroundRequest(r) => \E q \in Requests : control' = Append(control, q)
  <2>1. r.d \in Device /\ r.c \in Known
    BY DEF Requests
  <2>2. sess[r.d] \in Known \cup {None}
    BY <2>1 DEF NetTypes
  <2>3. [r EXCEPT !.tok = IF r.a = "close" THEN sess[r.d] ELSE None] \in Requests
    BY <2>2 DEF Requests
  <2> QED
    BY <2>3 DEF SendBackgroundRequest
<1>2. CASE BridgeTakes
  <2>1. Head(outbox) \in Requests /\ wire' = wire
    BY <1>2, Popped DEF BridgeTakes, NetTypes
  <2>2. control' = control \/ SendBackgroundRequest(Head(outbox))
    BY <1>2 DEF BridgeTakes
  <2> QED
    BY <1>0, <1>1, <2>1, <2>2, QueueKeeps
<1>3. ASSUME NEW r \in reqs, OpenAllowed(r) \/ PlaneSpawned(r) \/ PlaneReady(r) \/ CloseReplies(r)
      PROVE  wire' = wire /\ OneAnswer' /\ Unpairing'
  <2>1. r \in Requests /\ wire' = wire
    BY <1>3, ServedFacts DEF NetTypes, OpenAllowed, PlaneSpawned, PlaneReady, CloseReplies
  <2>2. [r EXCEPT !.a = "cleanup"] \in Requests
    BY <2>1, Requestable
  <2>3. control' = control \/ SendBackgroundRequest(r) \/ control' = Append(control, [r EXCEPT !.a = "cleanup"])
    BY <1>3 DEF OpenAllowed, PlaneSpawned, PlaneReady, CloseReplies
  <2> QED
    BY <1>0, <1>1, <2>1, <2>2, <2>3, QueueKeeps
<1>4. ASSUME NEW e \in events, EventPassed(e)
      PROVE  wire' = wire /\ OneAnswer' /\ Unpairing'
  BY <1>0, <1>4, QueueKeeps DEF EventPassed
<1> QED
  BY <1>2, <1>3, <1>4

Revokes ==
  \/ RevocationGoesOn
  \/ \E v \in revoking : RevocationEnds(v) \/ RevocationFails(v)
  \/ \E t \in orphans : OrphanRetried(t)

LEMMA NetKeeps ==
  ASSUME HidInv,
         \/ BridgeTakes \/ \E r \in reqs : OpenAllowed(r) \/ PlaneSpawned(r) \/ PlaneReady(r) \/ CloseReplies(r)
         \/ BridgeHears
         \/ DaemonOpens \/ BackgroundOpens \/ BackgroundDrops \/ BackgroundCloses
         \/ \E e \in events : EventPassed(e)
         \/ \E d \in Device : DeviceLost(d)
         \/ Revokes
  PROVE  HidInv'
<1>0. PageInv /\ NetTypes /\ OneAnswer /\ Unpairing /\ bound \in Scenario
  BY DEF HidInv, PageInv, PageTypes
<1>1. UNCHANGED <<objVars, promiseVars, calls>>
  BY DEF BridgeTakes, OpenAllowed, PlaneSpawned, PlaneReady, CloseReplies, BridgeHears, DaemonOpens, BackgroundOpens,
         BackgroundDrops, BackgroundCloses, BackgroundUnpairs, EventPassed, DeviceLost, Revokes,
         RevocationGoesOn, RevokedElsewhere, GrantRemoved, SessionRevoked, RevocationEnds, RevocationFails, OrphanRetried, backUnchanged
<1>2. UNCHANGED faultVars \/ Spend("denial") \/ Spend("loss") \/ Spend("revocation")
  BY DEF BridgeTakes, OpenAllowed, PlaneSpawned, PlaneReady, CloseReplies, BridgeHears, DaemonOpens, BackgroundOpens,
         BackgroundDrops, BackgroundCloses, BackgroundUnpairs, EventPassed, DeviceLost, Revokes,
         RevocationGoesOn, RevokedElsewhere, GrantRemoved, SessionRevoked, RevocationEnds, RevocationFails, OrphanRetried,
         CloseForCleanup
<1>3. Later /\ PageInv'
  BY <1>0, <1>1, <1>2, PageWaits DEF Faults
<1>4. CASE BridgeTakes
  BY <1>0, <1>3, <1>4, TakesTyped, QueuesKeep DEF HidInv
<1>5. ASSUME NEW r \in reqs, OpenAllowed(r) \/ CloseReplies(r) PROVE HidInv'
  BY <1>0, <1>3, <1>5, ServedTyped, QueuesKeep DEF HidInv
<1>6. ASSUME NEW r \in reqs, PlaneSpawned(r) \/ PlaneReady(r) PROVE HidInv'
  BY <1>0, <1>3, <1>6, SpawnedTyped, QueuesKeep DEF HidInv
<1>7. CASE BridgeHears
  BY <1>0, <1>3, <1>7, HearsTyped, HearsKeeps DEF HidInv
<1>8. CASE \/ DaemonOpens \/ BackgroundOpens \/ BackgroundDrops \/ BackgroundCloses
           \/ \E t \in orphans : OrphanRetried(t)
  BY <1>0, <1>3, <1>8, BackgroundTyped DEF HidInv
<1>9. CASE RevocationGoesOn
  BY <1>0, <1>3, <1>9, GoesOnTyped DEF HidInv
<1>12. ASSUME NEW v \in revoking, RevocationEnds(v) \/ RevocationFails(v) PROVE HidInv'
  BY <1>0, <1>3, <1>12, RevokesTyped DEF HidInv
<1>10. ASSUME NEW e \in events, EventPassed(e) PROVE HidInv'
  BY <1>0, <1>3, <1>10, PassedTyped, QueuesKeep DEF HidInv
<1>11. ASSUME NEW d \in Device, DeviceLost(d) PROVE HidInv'
  BY <1>0, <1>3, <1>11, LossTyped DEF HidInv
<1> QED
  BY <1>4, <1>5, <1>6, <1>7, <1>8, <1>9, <1>10, <1>11, <1>12 DEF Revokes
-----------------------------------------------------------------------------
(* The invariant *)

LEMMA HidInit == Init => HidInv
<1> SUFFICES ASSUME Init PROVE HidInv
  OBVIOUS
<1>1. /\ bound \in Scenario /\ dev = <<>> /\ calls = <<>>
      /\ \A o \in Object : st[o] = "closed" /\ ~reports[o]
      /\ \A o \in Object : openBy[o] = None /\ closeBy[o] = None /\ forgetBy[o] = None
      /\ \A d \in Device : registry[d] = None
  BY DEF Init
<1>2. Known = {} /\ Made = {}
  BY <1>1 DEF Known, Made
<1>3. \A S : <<>> \in Seq(S)
  BY EmptySeq
<1>4. PageTypes
  BY <1>1, <1>2, <1>3 DEF Init, PageTypes, State
<1>5. Shapes /\ Promises /\ Kept /\ Entries /\ Objects /\ Denied /\ Reported
  BY <1>1, <1>2 DEF Shapes, Promises, Holds, Kept, Entries, Objects, Under, Denied, Reported
<1>6. NetTypes
  BY <1>2, <1>3 DEF Init, NetTypes, BackTypes, Scenario
<1>7. OneAnswer /\ Unpairing
  BY DEF Init, OneAnswer, Unpairing
<1> QED
  BY <1>4, <1>5, <1>6, <1>7 DEF HidInv, PageInv

LEMMA HidStep == HidInv /\ [Next]_vars => HidInv'
<1> SUFFICES ASSUME HidInv, [Next]_vars PROVE HidInv'
  OBVIOUS
<1>0. DOMAIN calls = Known
  BY CallFacts DEF HidInv, PageInv
<1>1. CASE Next
  <2>1. ASSUME NEW c \in Known, Resumes(c) \/ UndoForget(c) PROVE HidInv'
    BY <2>1, ContinuesKeep
  <2>2. CASE PageHears
    BY <2>2, HearsKeepsPage
  <2>3. ASSUME NEW d \in Device, GetOrCreateDevice(d) PROVE HidInv'
    BY <2>3, MadeKeeps
  <2>4. ASSUME NEW o \in Made, Open(o) \/ Close(o) \/ Forget(o) \/ SendReport(o) \/ ReportResult(o) PROVE HidInv'
    BY <2>4, CallsKeep
  <2>5. ASSUME NEW c \in Known, RequestTimesOut(c) PROVE HidInv'
    BY <2>5, TimeOutKeeps
  <2>6. \/ \E c \in Known : Resumes(c) \/ UndoForget(c)
        \/ PageHears
        \/ \E d \in Device : GetOrCreateDevice(d)
        \/ \E o \in Made : Open(o) \/ Close(o) \/ Forget(o) \/ SendReport(o) \/ ReportResult(o)
        \/ \E c \in Known : RequestTimesOut(c)
        \/ BridgeTakes \/ \E r \in reqs : OpenAllowed(r) \/ PlaneSpawned(r) \/ PlaneReady(r) \/ CloseReplies(r)
        \/ BridgeHears
        \/ DaemonOpens \/ BackgroundOpens \/ BackgroundDrops \/ BackgroundCloses
        \/ \E e \in events : EventPassed(e)
        \/ \E d \in Device : DeviceLost(d)
        \/ Revokes
    BY <1>0, <1>1, Zenon DEF Next, Progress, Revokes, RevocationGoesOn
  <2> QED
    BY <2>1, <2>2, <2>3, <2>4, <2>5, <2>6, NetKeeps
<1>2. CASE UNCHANGED vars
  <2>1. /\ UNCHANGED <<objVars, promiseVars, calls, faultVars>>
        /\ UNCHANGED <<outbox, inbox, control, wire, reqs, events, bridgeVars, backVars>>
    BY <1>2 DEF vars, portVars
  <2>2. Later /\ PageInv'
    BY <2>1, PageWaits DEF HidInv
  <2> QED
    BY <2>1, <2>2, PageDone DEF PageSends, PageReads
<1> QED
  BY <1>1, <1>2

\* The objects, the calls and what travels between page, bridge and background
\* keep the invariant.
THEOREM HidInvariant == Spec => []HidInv
BY HidInit, HidStep, PTL DEF Spec
-----------------------------------------------------------------------------
(* What the invariant says of the page's state *)

LEMMA HidTypeOK == HidInv => TypeOK
<1> SUFFICES ASSUME HidInv PROVE TypeOK
  OBVIOUS
<1>0. PageTypes /\ NetTypes /\ Entries /\ DOMAIN calls = Known
  BY CallFacts DEF HidInv, PageInv
<1>1. registry \in [Device -> Made \cup {None}]
  BY <1>0 DEF PageTypes, Entries
<1>2. ASSUME NEW r \in reqs \cup Range(outbox) \cup Range(control)
      PROVE  r.c \in Known /\ r.d \in Device /\ r.tok \in Known \cup {None}
  <2>1. Range(outbox) \subseteq Requests /\ Range(control) \subseteq Requests
    BY <1>0, ElementOfSeq, LenProperties DEF NetTypes, Range
  <2>2. r \in Requests
    BY <1>0, <1>2, <2>1 DEF NetTypes, Served
  <2> QED
    BY <2>2, Requestable
<1>3. /\ dev \in Seq(Device)
      /\ st \in [Object -> State] /\ was \in [Object -> BOOLEAN] /\ reports \in [Object -> BOOLEAN]
      /\ port \in [Object -> Known \cup {None}]
      /\ \A f \in {openBy, closeBy, forgetBy} : f \in [Object -> Known \cup {None}]
  BY <1>0 DEF PageTypes
<1>4. /\ sess \in [Device -> Known \cup {None}] /\ plane \in [Device -> Known \cup {None}]
      /\ granted \subseteq Device /\ revoking \subseteq Revocation /\ alive \cup orphans \subseteq Known
  BY <1>0 DEF NetTypes, BackTypes, RevocationType, Revocation
<1> QED
  BY <1>0, <1>1, <1>2, <1>3, <1>4 DEF TypeOK

\* Objects, registry, calls and requests keep their types (content/main/index.js,
\* bridge.js): a registry entry is an object that was made, a request in any
\* queue is that of a call that was made.
THEOREM Types == Spec => []TypeOK
BY HidInvariant, HidTypeOK, PTL

\* While no device is lost, a report the page awaits has a port that will answer
\* it: close, forget and revocation settle the reports with the port.
THEOREM NoReportIsLeft == Spec => []ReportsHavePort
<1>1. HidInv => ReportsHavePort
  BY CallFacts DEF HidInv, PageInv, Reported, ReportsHavePort
<1> QED
  BY <1>1, HidInvariant, PTL

\* When nothing is on its way, no object is left opening or being forgotten.
NobodyHalfWay == Quiet => \A o \in Object : st[o] \notin {"opening", "forgetting"}

\* Of NothingHalfWay, what no fault excuses: the catch of performOpenDevice and
\* the undoing of forgetDevice always bring the object to rest.
THEOREM ObjectsRest == Spec => []NobodyHalfWay
<1>1. HidInv => NobodyHalfWay
  BY CallFacts DEF HidInv, PageInv, NobodyHalfWay, Objects, Under, Promises, Holds, Quiet
<1> QED
  BY <1>1, HidInvariant, PTL
-----------------------------------------------------------------------------
(* How the state of an object changes *)

StatesMove(os, from, to) ==
  /\ os \in SUBSET Object /\ \A o \in os : st[o] \in from
  /\ st' = [o \in Object |-> IF o \in os THEN to ELSE st[o]]

Outcome == [c \in Call |-> IF c \notin DOMAIN calls \/ calls[c].k # "open" THEN "none" ELSE calls[c].res]
Faulted == {f \in {"loss", "denial", "timeout"} : spent[f] > 0}

Living == State \ {"forgotten"}

\* Nothing happens to an object, or several move together.
Moving ==
  /\ UNCHANGED openBy /\ Outcome' = Outcome
  /\ \/ UNCHANGED st
     \/ \E o \in Object : StatesMove({o}, {"opening", "opened", "closing"}, "closing")
     \/ \E os \in SUBSET Object :
          \/ StatesMove(os, {"closing"}, "closed")
          \/ StatesMove(os, Living, "forgetting")
          \/ StatesMove(os, {"forgetting"}, "closed")
          \/ StatesMove(os, State, "forgotten")
          \/ StatesMove(os, Living, "closed")
          \/ {"denial", "timeout"} \cap Faulted # {} /\ StatesMove(os, {"forgotten"}, "closed")

Opening ==
  \E o \in Object, c \in Call :
    /\ st[o] = "closed" /\ Outcome[c] = "none"
    /\ st' = [st EXCEPT ![o] = "opening"] /\ openBy' = [openBy EXCEPT ![o] = c]
    /\ Outcome' = [Outcome EXCEPT ![c] = "pending"]

Ending ==
  \E o \in Object, c \in Call, res \in {"ok", "failed"} :
    /\ Outcome[c] = "pending" /\ Outcome' = [Outcome EXCEPT ![c] = res] /\ openBy' = LetGo(openBy, c)
    /\ res = "ok" => st[o] = "opening"
    /\ st' = IF st[o] = "opening" THEN [st EXCEPT ![o] = IF res = "ok" THEN "opened" ELSE "closed"] ELSE st
    /\ st[o] = "opening" => openBy[o] = c \/ "loss" \in Faulted
    /\ \A m \in Object : openBy[m] = c => m = o

LEMMA OutcomesStay ==
  ASSUME DOMAIN calls' = DOMAIN calls,
         \A b \in DOMAIN calls : calls'[b].k = calls[b].k /\ (calls[b].k = "open" => calls'[b].res = calls[b].res)
  PROVE  Outcome' = Outcome
BY DEF Outcome

LEMMA NothingMoves ==
  ASSUME UNCHANGED <<st, openBy, calls>>
  PROVE  Moving
BY DEF Moving, Outcome

\* A call that does not end an open leaves the outcomes.
LEMMA OutcomeSame ==
  ASSUME PageInv, NEW c \in Known, NEW at, NEW res, NEW todo, Becomes(c, at, res, todo),
         calls[c].k = "open" => res = calls[c].res
  PROVE  Outcome' = Outcome
<1>1. /\ DOMAIN calls = Known /\ DOMAIN calls' = Known
  BY CallFacts, LenProperties DEF PageInv, Becomes, Known
<1>2. \A b \in Known : calls'[b].k = calls[b].k /\ (calls[b].k = "open" => calls'[b].res = calls[b].res)
  BY DEF Becomes
<1> QED
  BY <1>1, <1>2, OutcomesStay

LEMMA OutcomeEnds ==
  ASSUME PageInv, NEW c \in Known, NEW at, NEW res, NEW todo, Becomes(c, at, res, todo), calls[c].k = "open", ~Done(c)
  PROVE  /\ Outcome[c] = "pending" /\ Outcome' = [Outcome EXCEPT ![c] = res] /\ c \in Call
         /\ \A m \in Object : openBy[m] = c => m = calls[c].o
<1>1. /\ DOMAIN calls = Known /\ DOMAIN calls' = Known /\ Known \subseteq Call /\ None \notin Known
  BY CallFacts, LenProperties DEF PageInv, Becomes, Known
<1>2. \A b \in Known : calls'[b].k = calls[b].k /\ (b # c => calls'[b] = calls[b])
  BY DEF Becomes
<1>3. Outcome[c] = "pending"
  BY <1>1 DEF Outcome, Done
<1>4. Outcome' = [Outcome EXCEPT ![c] = res]
  BY <1>1, <1>2 DEF Outcome, Becomes
<1>5. \A m \in Object : openBy[m] = c => m = calls[c].o
  BY <1>1 DEF PageInv, Promises, Holds
<1> QED
  BY <1>1, <1>3, <1>4, <1>5

LEMMA OpenEnds ==
  ASSUME PageInv, NEW c \in Known, calls[c].k = "open", ~Done(c), NEW res \in {"ok", "failed"},
         calls' = Settle(c, res), openBy' = LetGo(openBy, c), res = "ok" => st[calls[c].o] = "opening",
         st' = IF st[calls[c].o] = "opening"
               THEN [st EXCEPT ![calls[c].o] = IF res = "ok" THEN "opened" ELSE "closed"] ELSE st
  PROVE  Ending
<1>0. PageTypes /\ calls[c].o \in Object
  BY Stages DEF PageInv
<1>a. PICK o \in Object : o = calls[c].o
  BY <1>0
<1>b. PICK todo : todo = calls[c].todo
  OBVIOUS
<1>1. o = calls[c].o /\ todo = calls[c].todo
  BY <1>a, <1>b
<1>2. Becomes(c, "done", res, todo)
  BY <1>0, <1>1, SettleBecomes DEF Becomes
<1>3. Outcome[c] = "pending" /\ Outcome' = [Outcome EXCEPT ![c] = res] /\ c \in Call /\ \A m \in Object : openBy[m] = c => m = o
  BY <1>1, <1>2, OutcomeEnds
<1>4. openBy[o] = c \/ "loss" \in Faulted
  <2>1. spent["loss"] \in Nat
    BY <1>0 DEF PageTypes, Faults
  <2>2. CASE spent["loss"] = 0
    BY <1>1, <2>2, KeptNow DEF Keeps, OpenKeeps
  <2> QED
    BY <2>1, <2>2 DEF Faulted
<1> QED
  BY <1>1, <1>3, <1>4 DEF Ending

LEMMA OpenStays ==
  ASSUME PageInv, NEW c \in Known, NEW at \in Stage, calls' = [calls EXCEPT ![c].at = at], UNCHANGED <<st, openBy>>
  PROVE  Moving
<1>1. Becomes(c, at, calls[c].res, calls[c].todo)
  BY StageBecomes DEF PageInv
<1>2. PICK res, todo : res = calls[c].res /\ todo = calls[c].todo
  OBVIOUS
<1>3. Becomes(c, at, res, todo)
  BY <1>1, <1>2 DEF Becomes
<1>4. Outcome' = Outcome
  BY <1>2, <1>3, OutcomeSame
<1> QED
  BY <1>4 DEF Moving

LEMMA OpenHearsMoves ==
  ASSUME PageInv, NEW c \in Known, NEW ok \in BOOLEAN,
         \/ calls[c].at = "asked" /\ OpenHeard(c, ok)
         \/ calls[c].at = "waiting" /\ ReadyHeard(c, ok)
         \/ calls[c].at = "undoing" /\ calls[c].k = "open" /\ UndoHeard(c)
  PROVE  Moving \/ Ending
<1>1. calls[c].k = "open" /\ ~Done(c) /\ {"undoing", "waiting"} \subseteq Stage
  BY Stages DEF Stage
<1>2. ASSUME NEW b \in BOOLEAN, OpenFails(c, b)
      PROVE  Moving \/ Ending
  <2>1. CASE b /\ st[calls[c].o] # "closing"
    <3>1. calls' = [calls EXCEPT ![c].at = "undoing"] /\ UNCHANGED <<st, openBy>>
      BY <1>2, <2>1 DEF OpenFails
    <3> QED
      BY <1>1, <3>1, OpenStays
  <2>2. CASE ~(b /\ st[calls[c].o] # "closing")
    <3>1. /\ st' = IF st[calls[c].o] = "opening" THEN [st EXCEPT ![calls[c].o] = "closed"] ELSE st
          /\ calls' = Settle(c, "failed") /\ openBy' = LetGo(openBy, c)
      BY <1>2, <2>2 DEF OpenFails
    <3> QED
      BY <1>1, <3>1, OpenEnds
  <2> QED
    BY <2>1, <2>2
<1>3. CASE calls[c].at = "asked" /\ OpenHeard(c, ok)
  <2>1. CASE ok /\ st[calls[c].o] = "opening"
    <3>1. calls' = [calls EXCEPT ![c].at = "waiting"] /\ UNCHANGED <<st, openBy>>
      BY <1>3, <2>1 DEF OpenHeard
    <3> QED
      BY <1>1, <3>1, OpenStays
  <2>2. CASE ~(ok /\ st[calls[c].o] = "opening")
    BY <1>2, <1>3, <2>2 DEF OpenHeard
  <2> QED
    BY <2>1, <2>2
<1>4. CASE calls[c].at = "waiting" /\ ReadyHeard(c, ok)
  <2>1. CASE ok /\ st[calls[c].o] = "opening"
    <3>1. /\ st' = [st EXCEPT ![calls[c].o] = "opened"] /\ calls' = Settle(c, "ok") /\ openBy' = LetGo(openBy, c)
      BY <1>4, <2>1 DEF ReadyHeard
    <3> QED
      BY <1>1, <2>1, <3>1, OpenEnds
  <2>2. CASE ~(ok /\ st[calls[c].o] = "opening")
    BY <1>2, <1>4, <2>2 DEF ReadyHeard
  <2> QED
    BY <2>1, <2>2
<1>5. CASE calls[c].at = "undoing" /\ calls[c].k = "open" /\ UndoHeard(c)
  <2>1. /\ st' = IF st[calls[c].o] = "opening" THEN [st EXCEPT ![calls[c].o] = "closed"] ELSE st
        /\ calls' = Settle(c, "failed") /\ openBy' = LetGo(openBy, c)
    BY <1>5 DEF UndoHeard
  <2> QED
    BY <1>1, <2>1, OpenEnds
<1> QED
  BY <1>3, <1>4, <1>5

\* A close or a forget that settles
LEMMA OtherSettles ==
  ASSUME PageInv, NEW c \in Known, NEW res \in {"ok", "failed"}, calls' = Settle(c, res), calls[c].k # "open"
  PROVE  Outcome' = Outcome
<1>1. PICK todo : todo = calls[c].todo
  OBVIOUS
<1>2. Becomes(c, "done", res, todo)
  BY <1>1, SettleBecomes DEF Becomes, PageInv
<1> QED
  BY <1>2, OutcomeSame

LEMMA OtherHearsMoves ==
  ASSUME PageInv, NEW c \in Known, NEW ok \in BOOLEAN, UNCHANGED openBy,
         \/ calls[c].at = "closing" /\ CloseHeard(c, ok)
         \/ calls[c].at = "unpairing" /\ UnpairHeard(c, ok)
         \/ calls[c].at = "undoing" /\ calls[c].k = "forget" /\ MemberUndone(c)
  PROVE  Moving
<1>0. PageTypes /\ calls[c].o \in Object /\ calls[c].group \in SUBSET Object /\ st \in [Object -> State]
  BY Stages DEF PageInv, PageTypes
<1>1. CASE calls[c].at = "closing" /\ CloseHeard(c, ok)
  <2>1. calls[c].k = "close"
    BY <1>1, Stages
  <2>2. PICK res \in {"ok", "failed"} : res = IF ok THEN "ok" ELSE "failed"
    OBVIOUS
  <2>3. Outcome' = Outcome
    BY <1>1, <2>1, <2>2, OtherSettles DEF CloseHeard
  <2>4. UNCHANGED st \/ StatesMove({calls[c].o}, {"closing"}, "closed")
    BY <1>0, <1>1 DEF CloseHeard, Reconcile, With, StatesMove
  <2>5. {calls[c].o} \in SUBSET Object
    BY <1>0
  <2> QED
    BY <2>3, <2>4, <2>5 DEF Moving
<1>2. CASE calls[c].at = "unpairing" /\ UnpairHeard(c, ok)
  <2>1. calls[c].k = "forget"
    BY <1>2, Stages
  <2>2. CASE ok
    <3>1. Outcome' = Outcome
      BY <1>2, <2>1, <2>2, OtherSettles DEF UnpairHeard
    <3>2. StatesMove(calls[c].group, State, "forgotten")
      BY <1>0, <1>2, <2>2 DEF UnpairHeard, Reconcile, With, StatesMove
    <3> QED
      BY <1>0, <3>1, <3>2 DEF Moving
  <2>3. CASE ~ok
    <3>1. PICK todo : todo = Sorted(calls[c].group)
      OBVIOUS
    <3>2. todo \in Seq(Object) /\ "undo" \in Stage
      BY <1>0, <3>1, InOrder DEF Stage
    <3>3. calls' = [calls EXCEPT ![c].at = "undo", ![c].todo = todo] /\ UNCHANGED st
      BY <1>2, <2>3, <3>1 DEF UnpairHeard
    <3>4. PICK res : res = calls[c].res
      OBVIOUS
    <3>5. Becomes(c, "undo", res, todo)
      BY <1>0, <3>2, <3>3, <3>4, TodoBecomes, ZenonT(40) DEF Becomes
    <3> QED
      BY <2>1, <3>3, <3>5, OutcomeSame DEF Moving
  <2> QED
    BY <2>2, <2>3
<1>3. CASE calls[c].at = "undoing" /\ calls[c].k = "forget" /\ MemberUndone(c)
  <2>1. calls[c].todo \in Seq(Object) /\ calls[c].todo # <<>>
    BY <1>3, Stages
  <2>2. PICK head, left, res : head = Head(calls[c].todo) /\ left = Tail(calls[c].todo) /\ res = calls[c].res
    OBVIOUS
  <2>3. head \in Object /\ left \in Seq(Object) /\ "undo" \in Stage
    BY <2>1, <2>2, Popped DEF Stage
  <2>4. calls' = [calls EXCEPT ![c].at = "undo", ![c].todo = left] /\ st' = [st EXCEPT ![head] = "closed"]
    BY <1>0, <1>3, <2>2, CallFacts DEF MemberUndone, CallType
  <2>5. Becomes(c, "undo", res, left)
    <3>1. Becomes(c, "undo", calls[c].res, left)
      BY <1>0, <2>3, <2>4, TodoBecomes
    <3> QED
      BY <2>2, <3>1 DEF Becomes
  <2>6. Outcome' = Outcome
    BY <1>3, <2>5, OutcomeSame
  <2>7. {"denial", "timeout"} \cap Faulted # {}
    <3>1. spent["denial"] + spent["timeout"] > 0 /\ spent["denial"] \in Nat /\ spent["timeout"] \in Nat
      BY <1>0, <1>3 DEF PageInv, Denied, PageTypes, Faults
    <3> QED
      BY <3>1 DEF Faulted
  <2>8. StatesMove({head}, Living, "closed") \/ StatesMove({head}, {"forgotten"}, "closed")
    BY <1>0, <2>3, <2>4 DEF StatesMove, Living
  <2>9. {head} \in SUBSET Object
    BY <2>3
  <2> QED
    BY <2>6, <2>7, <2>8, <2>9 DEF Moving
<1> QED
  BY <1>1, <1>2, <1>3

LEMMA UndoMoves ==
  ASSUME PageInv, NEW c \in Known, UndoForget(c)
  PROVE  Moving
<1>0. PageTypes /\ calls[c].k = "forget" /\ calls[c].at = "undo" /\ calls[c].todo \in Seq(Object) /\ UNCHANGED openBy
      /\ st \in [Object -> State] /\ {"undo", "undoing"} \subseteq Stage
  BY Stages DEF PageInv, PageTypes, UndoForget, Stage
<1>1. CASE calls[c].todo = <<>>
  BY <1>0, <1>1, OtherSettles DEF UndoForget, Moving
<1>2. CASE calls[c].todo # <<>> /\ st[Head(calls[c].todo)] = "forgetting" /\ Head(calls[c].todo) \in calls[c].opened
  BY <1>0, <1>2, OpenStays DEF UndoForget
<1>3. CASE calls[c].todo # <<>> /\ ~(st[Head(calls[c].todo)] = "forgetting" /\ Head(calls[c].todo) \in calls[c].opened)
  <2>1. PICK head, left, res : head = Head(calls[c].todo) /\ left = Tail(calls[c].todo) /\ res = calls[c].res
    OBVIOUS
  <2>2. head \in Object /\ left \in Seq(Object)
    BY <1>0, <1>3, <2>1, Popped
  <2>3. /\ calls' = [calls EXCEPT ![c].todo = left]
        /\ UNCHANGED st \/ (st[head] = "forgetting" /\ st' = [st EXCEPT ![head] = "closed"])
    BY <1>3, <2>1 DEF UndoForget
  <2>4. Becomes(c, "undo", res, left)
    <3>1. Becomes(c, "undo", calls[c].res, left)
      BY <1>0, <2>2, <2>3, TodoBecomes
    <3> QED
      BY <2>1, <3>1 DEF Becomes
  <2>5. Outcome' = Outcome
    BY <1>0, <2>4, OutcomeSame
  <2>6. UNCHANGED st \/ StatesMove({head}, {"forgetting"}, "closed")
    BY <1>0, <2>2, <2>3 DEF StatesMove
  <2>7. {head} \in SUBSET Object
    BY <2>2
  <2> QED
    BY <1>0, <2>5, <2>6, <2>7 DEF Moving
<1> QED
  BY <1>1, <1>2, <1>3

LEMMA CallsMove ==
  ASSUME PageInv, NEW o \in Made, Open(o) \/ Close(o) \/ Forget(o) \/ SendReport(o) \/ ReportResult(o)
  PROVE  Moving \/ Opening
<1>0. /\ PageTypes /\ Entries /\ o \in Object /\ st \in [Object -> State] /\ calls \in Seq(CallType)
      /\ Made \subseteq Object
  BY CallFacts DEF PageInv, PageTypes
<1>1. ASSUME NEW x, Next1 <= bound.calls, calls' = Append(calls, x), x.k \in {"open", "close", "forget"}, x.res = "pending"
      PROVE  /\ Next1 \in Call /\ Outcome[Next1] = "none"
             /\ x.k # "open" => Outcome' = Outcome
             /\ x.k = "open" => \A n : n = Next1 => Outcome' = [Outcome EXCEPT ![n] = "pending"]
  <2>1. Next1 \in Call /\ Len(calls) \in Nat
    BY <1>0, <1>1, LenProperties DEF PageTypes, Scenario, Next1, Call
  <2>2. PICK n : n = Next1
    OBVIOUS
  <2>3. /\ DOMAIN calls = 1..Len(calls) /\ DOMAIN calls' = 1..(Len(calls) + 1) /\ n = Len(calls) + 1
        /\ calls'[n] = x /\ \A b \in 1..Len(calls) : calls'[b] = calls[b]
    <3>1. calls \in Seq(CallType \cup {x}) /\ x \in CallType \cup {x}
      BY <1>0, SeqGrows
    <3> QED
      BY <1>1, <2>2, <3>1, Appended DEF Next1
  <2>4. DOMAIN calls' = DOMAIN calls \cup {n} /\ n \notin DOMAIN calls /\ n \in Call
        /\ \A b \in DOMAIN calls : calls'[b] = calls[b]
    BY <2>1, <2>2, <2>3
  <2>5. Outcome[n] = "none"
    BY <2>4 DEF Outcome
  <2>6. x.k # "open" => Outcome' = Outcome
    BY <2>3, <2>4 DEF Outcome
  <2>7. x.k = "open" => Outcome' = [Outcome EXCEPT ![n] = "pending"]
    BY <1>1, <2>3, <2>4 DEF Outcome
  <2> QED
    BY <2>1, <2>2, <2>5, <2>6, <2>7
<1>2. CASE Open(o)
  <2>1. PICK x : x = NewCall("open", o, "asked")
    OBVIOUS
  <2>2. /\ Next1 <= bound.calls /\ calls' = Append(calls, x) /\ x.k = "open" /\ x.res = "pending"
        /\ st[o] = "closed" /\ st' = [st EXCEPT ![o] = "opening"] /\ openBy' = [openBy EXCEPT ![o] = Next1]
    BY <1>2, <2>1 DEF Open, NewCall
  <2>3. PICK n \in Call : n = Next1
    BY <1>1, <2>2
  <2>4. Outcome[n] = "none" /\ Outcome' = [Outcome EXCEPT ![n] = "pending"]
    BY <1>1, <2>2, <2>3
  <2> QED
    BY <1>0, <2>2, <2>3, <2>4 DEF Opening
<1>3. CASE Close(o)
  <2>1. PICK x : x = [NewCall("close", o, "await") EXCEPT !.on = {openBy[o]} \ {None}]
    OBVIOUS
  <2>2. /\ Next1 <= bound.calls /\ calls' = Append(calls, x) /\ x.k = "close" /\ x.res = "pending"
        /\ st[o] \in {"opening", "opened", "closing"} /\ st' = [st EXCEPT ![o] = "closing"] /\ openBy' = openBy
    BY <1>3, <2>1 DEF Close, NewCall
  <2>3. Outcome' = Outcome
    BY <1>1, <2>2
  <2>4. StatesMove({o}, {"opening", "opened", "closing"}, "closing")
    BY <1>0, <2>2 DEF StatesMove
  <2> QED
    BY <1>0, <2>2, <2>3, <2>4 DEF Moving
<1>4. CASE Forget(o)
  <2>1. PICK x : x = [NewCall("forget", o, "await") EXCEPT
              !.on = ({openBy[m] : m \in Group(o)} \cup {closeBy[m] : m \in Group(o)}) \ {None},
              !.group = Group(o),
              !.opened = {m \in Group(o) : st[m] \in {"opened", "closing"}}]
    OBVIOUS
  <2>2. /\ Next1 <= bound.calls /\ calls' = Append(calls, x) /\ x.k = "forget" /\ x.res = "pending"
        /\ st[o] # "forgotten" /\ st' = With(st, Group(o), "forgetting") /\ openBy' = openBy
    BY <1>4, <2>1 DEF Forget, NewCall
  <2>3. Outcome' = Outcome
    BY <1>1, <2>2
  <2>4. Group(o) \in SUBSET Object /\ \A m \in Group(o) : st[m] \in Living
    BY <1>0, <2>2, GroupMade DEF Living
  <2>5. StatesMove(Group(o), Living, "forgetting")
    BY <2>2, <2>4 DEF StatesMove, With
  <2> QED
    BY <2>2, <2>3, <2>4, <2>5 DEF Moving
<1>5. CASE SendReport(o) \/ ReportResult(o)
  BY <1>5, NothingMoves DEF SendReport, ReportResult, promiseVars
<1> QED
  BY <1>2, <1>3, <1>4, <1>5

\* No step of the code changes the state of objects in another way.
LEMMA HidMoves ==
  ASSUME HidInv, [Next]_vars
  PROVE  Moving \/ Opening \/ Ending
<1>0. PageInv /\ PageTypes /\ NetTypes /\ Entries /\ DOMAIN calls = Known /\ st \in [Object -> State] /\ Made \subseteq Object
  BY CallFacts DEF HidInv, PageInv, PageTypes
<1>1. ASSUME NEW c \in Known, NEW ok \in BOOLEAN, Heard(c, ok)
      PROVE  Moving \/ Ending
  <2>1. CASE \/ calls[c].at = "asked" /\ OpenHeard(c, ok)
             \/ calls[c].at = "waiting" /\ ReadyHeard(c, ok)
             \/ calls[c].at = "undoing" /\ calls[c].k = "open" /\ UndoHeard(c)
    BY <1>0, <2>1, OpenHearsMoves
  <2>2. CASE \/ calls[c].at = "closing" /\ CloseHeard(c, ok) /\ UNCHANGED openBy
             \/ calls[c].at = "unpairing" /\ UnpairHeard(c, ok) /\ UNCHANGED openBy
             \/ calls[c].at = "undoing" /\ calls[c].k = "forget" /\ MemberUndone(c) /\ UNCHANGED promiseVars
    BY <1>0, <2>2, OtherHearsMoves DEF promiseVars
  <2> QED
    BY <1>1, <2>1, <2>2 DEF Heard
<1>2. ASSUME NEW c \in Known, Resumes(c) \/ UndoForget(c) PROVE Moving
  <2>1. CASE Resumes(c)
    <3>1. UNCHANGED <<st, openBy>> /\ {"closing", "unpairing"} \subseteq Stage
      BY <2>1 DEF Resumes, objVars, promiseVars, Stage
    <3>2. calls' = [calls EXCEPT ![c].at = "closing"] \/ calls' = [calls EXCEPT ![c].at = "unpairing"]
      BY <2>1 DEF Resumes
    <3> QED
      BY <1>0, <3>1, <3>2, OpenStays
  <2>2. CASE UndoForget(c)
    BY <1>0, <2>2, UndoMoves
  <2> QED
    BY <1>2, <2>1, <2>2
<1>3. CASE PageHears
  <2>1. PICK m \in Messages : m = Head(inbox)
    BY <1>0, <1>3, Popped DEF PageHears, NetTypes
  <2>2. CASE m.k = "answer" /\ Heeded(m.r)
    <3>1. m.r.c \in Known /\ m.ok \in BOOLEAN
      BY <2>2 DEF Messages, Answers, Events, Requests
    <3>2. Heard(m.r.c, m.ok)
      BY <1>3, <2>1, <2>2 DEF PageHears, ResponseArrives, DispatchDeviceEvent
    <3> QED
      BY <1>1, <3>1, <3>2
  <2>3. CASE m.k = "answer" /\ ~Heeded(m.r)
    BY <1>3, <2>1, <2>3, NothingMoves DEF PageHears, ResponseArrives, DispatchDeviceEvent, promiseVars
  <2>4. CASE m.k \in {"revoked", "disconnect"}
    <3>1. m.d \in Device
      BY <2>4 DEF Messages, Answers, Events
    <3>2. UNCHANGED <<promiseVars, calls>>
      BY <1>3, <2>1, <2>4 DEF PageHears, ResponseArrives, DispatchDeviceEvent
    <3>3. CASE registry[m.d] = None
      BY <1>3, <2>1, <2>4, <3>2, <3>3, NothingMoves DEF PageHears, ResponseArrives, DispatchDeviceEvent, promiseVars
    <3>4. CASE registry[m.d] # None
      <4>1. PICK o \in Object : o = registry[m.d] /\ st[o] \in Living
        BY <1>0, <3>1, <3>4 DEF Entries, Living
      <4>2. st' = With(st, {o}, "forgotten") \/ st' = With(st, {o}, "closed")
        BY <1>3, <2>1, <2>4, <3>4, <4>1 DEF PageHears, ResponseArrives, DispatchDeviceEvent, Reconcile
      <4>3. StatesMove({o}, State, "forgotten") \/ StatesMove({o}, Living, "closed")
        BY <1>0, <4>1, <4>2 DEF StatesMove, With
      <4>4. {o} \in SUBSET Object /\ Outcome' = Outcome
        BY <3>2 DEF Outcome
      <4> QED
        BY <3>2, <4>3, <4>4 DEF Moving, promiseVars
    <3> QED
      BY <3>3, <3>4
  <2> QED
    BY <2>2, <2>3, <2>4 DEF Messages, Answers, Events
<1>4. ASSUME NEW d \in Device, GetOrCreateDevice(d) PROVE Moving
  BY <1>4, NothingMoves DEF GetOrCreateDevice, promiseVars
<1>5. ASSUME NEW c \in Known, RequestTimesOut(c) PROVE Moving \/ Ending
  BY <1>1, <1>5 DEF RequestTimesOut
<1>6. CASE \/ BridgeTakes \/ \E r \in reqs : OpenAllowed(r) \/ PlaneSpawned(r) \/ PlaneReady(r) \/ CloseReplies(r)
           \/ BridgeHears
           \/ DaemonOpens \/ BackgroundOpens \/ BackgroundDrops \/ BackgroundCloses
           \/ \E e \in events : EventPassed(e)
           \/ \E d \in Device : DeviceLost(d)
           \/ Revokes
  <2>1. UNCHANGED <<objVars, promiseVars, calls>>
    BY <1>6 DEF BridgeTakes, OpenAllowed, PlaneSpawned, PlaneReady, CloseReplies, BridgeHears, DaemonOpens, BackgroundOpens,
         BackgroundDrops, BackgroundCloses, BackgroundUnpairs, EventPassed, DeviceLost, Revokes,
         RevocationGoesOn, RevokedElsewhere, GrantRemoved, SessionRevoked, RevocationEnds, RevocationFails, OrphanRetried, backUnchanged
  <2> QED
    BY <2>1, NothingMoves DEF objVars, promiseVars
<1>7. CASE UNCHANGED vars
  BY <1>7, NothingMoves DEF vars, objVars, promiseVars
<1>8. CASE Next
  <2>1. \/ \E c \in Known : Resumes(c) \/ UndoForget(c)
        \/ PageHears
        \/ \E d \in Device : GetOrCreateDevice(d)
        \/ \E o \in Made : Open(o) \/ Close(o) \/ Forget(o) \/ SendReport(o) \/ ReportResult(o)
        \/ \E c \in Known : RequestTimesOut(c)
        \/ BridgeTakes \/ \E r \in reqs : OpenAllowed(r) \/ PlaneSpawned(r) \/ PlaneReady(r) \/ CloseReplies(r)
        \/ BridgeHears
        \/ DaemonOpens \/ BackgroundOpens \/ BackgroundDrops \/ BackgroundCloses
        \/ \E e \in events : EventPassed(e)
        \/ \E d \in Device : DeviceLost(d)
        \/ Revokes
    BY <1>0, <1>8, Zenon DEF Next, Progress, Revokes, RevocationGoesOn
  <2> QED
    BY <1>0, <1>2, <1>3, <1>4, <1>5, <1>6, <2>1, CallsMove
<1> QED
  BY <1>7, <1>8

\* While every request is answered and none denied, a forgotten object is never
\* anything else again: no late answer to an open, a close or a forget, and no
\* event, takes it back.
THEOREM ForgottenStays == Spec => ForgottenForGood
<1>1. ASSUME HidInv, [Next]_vars, spent["denial"] + spent["timeout"] = 0, NEW o \in Object, st[o] = "forgotten"
      PROVE  st'[o] = "forgotten"
  <2>1. spent["denial"] \in Nat /\ spent["timeout"] \in Nat /\ st \in [Object -> State]
    BY <1>1 DEF HidInv, PageInv, PageTypes, Faults
  <2>2. {"denial", "timeout"} \cap Faulted = {}
    BY <1>1, <2>1 DEF Faulted
  <2>3. Moving \/ Opening \/ Ending
    BY <1>1, HidMoves
  <2>4. CASE Moving
    BY <1>1, <2>2, <2>4 DEF Moving, StatesMove, Living
  <2>5. CASE Opening
    BY <1>1, <2>1, <2>5 DEF Opening
  <2>6. CASE Ending
    BY <1>1, <2>1, <2>6 DEF Ending
  <2> QED
    BY <2>3, <2>4, <2>5, <2>6
<1>2. HidInv /\ [Next]_vars =>
        [spent["denial"] + spent["timeout"] = 0 => \A o \in Object : st[o] = "forgotten" => st'[o] = "forgotten"]_st
  BY <1>1
<1> QED
  BY <1>2, HidInvariant, PTL DEF Spec, ForgottenForGood
-----------------------------------------------------------------------------
(* The calls and objects do what the interface promises *)

LEMMA MoreHappens ==
  ASSUME HidInv, [Next]_vars
  PROVE  Faulted \subseteq Faulted' /\ Faulted' \subseteq {"loss", "denial", "timeout"}
<1>1. spent \in [Faults -> Nat]
  BY DEF HidInv, PageInv, PageTypes
<1>2. \A f \in {"loss", "denial", "timeout"} : spent[f] > 0 => spent'[f] > 0
  <2>1. UNCHANGED spent \/ \E f \in Faults : Spend(f)
    BY DEF Next, Progress, Resumes, UndoForget, BridgeTakes, OpenAllowed, PlaneSpawned, PlaneReady, CloseReplies,
           BridgeHears, PageHears, DaemonOpens, BackgroundOpens, BackgroundDrops, BackgroundCloses, BackgroundUnpairs,
           EventPassed, GetOrCreateDevice, DeviceLost, Open, Close, Forget, SendReport, ReportResult, RequestTimesOut,
           RevokedElsewhere, GrantRemoved, SessionRevoked, RevocationEnds, RevocationFails, OrphanRetried,
           CloseForCleanup, vars, faultVars, Faults
  <2> QED
    BY <1>1, <2>1 DEF Spend, Faults
<1> QED
  BY <1>2 DEF Faulted

LEMMA InitRefines == Init => Lifecycle!Init
<1> SUFFICES ASSUME Init PROVE Lifecycle!Init
  OBVIOUS
<1>1. DOMAIN calls = {}
  BY DEF Init
<1> QED
  BY <1>1 DEF Init, Lifecycle!Init, Faults

LEMMA StepRefines == HidInv /\ [Next]_vars => [Lifecycle!Next]_Lifecycle!vars
<1> SUFFICES ASSUME HidInv, [Next]_vars PROVE Lifecycle!Next
  OBVIOUS
<1>0. st \in [Object -> State] /\ openBy \in [Object -> Known \cup {None}]
  BY DEF HidInv, PageInv, PageTypes
<1>1. Lifecycle!MoreFaults
  BY MoreHappens DEF Lifecycle!MoreFaults, Faulted
<1>2. Living = Lifecycle!NotForgotten /\ State = Lifecycle!NotForgotten \cup {"forgotten"}
  BY DEF Living, State, Lifecycle!NotForgotten
<1>3. ASSUME Moving
      PROVE  Lifecycle!Next
  <2>1. ASSUME NEW os, NEW from, NEW to, StatesMove(os, from, to)
        PROVE  Lifecycle!Moves(os, from, to)
    BY <1>1, <1>3, <2>1 DEF Moving, StatesMove, Lifecycle!Moves, Outcome
  <2>2. CASE UNCHANGED st
    BY <1>1, <1>3, <2>2 DEF Moving, Outcome, Lifecycle!Next
  <2>3. ASSUME NEW o \in Object, StatesMove({o}, {"opening", "opened", "closing"}, "closing")
        PROVE  Lifecycle!Close(o)
    <3>1. st[o] \in {"opening", "opened", "closing"} /\ st' = [st EXCEPT ![o] = "closing"]
      BY <1>0, <2>3 DEF StatesMove
    <3> QED
      BY <1>1, <1>3, <3>1 DEF Moving, Outcome, Lifecycle!Close
  <2>4. ASSUME NEW os \in SUBSET Object,
               \/ StatesMove(os, {"closing"}, "closed")
               \/ StatesMove(os, Living, "forgetting")
               \/ StatesMove(os, {"forgetting"}, "closed")
               \/ StatesMove(os, State, "forgotten")
               \/ StatesMove(os, Living, "closed")
               \/ {"denial", "timeout"} \cap Faulted # {} /\ StatesMove(os, {"forgotten"}, "closed")
        PROVE  Lifecycle!Next
    BY <1>2, <2>1, <2>4, Zenon DEF Lifecycle!Next, Faulted
  <2>5. \/ UNCHANGED st
        \/ \E o \in Object : StatesMove({o}, {"opening", "opened", "closing"}, "closing")
        \/ \E os \in SUBSET Object :
             \/ StatesMove(os, {"closing"}, "closed")
             \/ StatesMove(os, Living, "forgetting")
             \/ StatesMove(os, {"forgetting"}, "closed")
             \/ StatesMove(os, State, "forgotten")
             \/ StatesMove(os, Living, "closed")
             \/ {"denial", "timeout"} \cap Faulted # {} /\ StatesMove(os, {"forgotten"}, "closed")
    BY <1>3, Zenon DEF Moving
  <2> QED
    BY <2>2, <2>3, <2>4, <2>5, Zenon DEF Lifecycle!Next
<1>4. ASSUME Opening
      PROVE  Lifecycle!Next
  <2>1. PICK o \in Object, c \in Call :
          /\ st[o] = "closed" /\ Outcome[c] = "none"
          /\ st' = [st EXCEPT ![o] = "opening"] /\ openBy' = [openBy EXCEPT ![o] = c]
          /\ Outcome' = [Outcome EXCEPT ![c] = "pending"]
    BY <1>4 DEF Opening
  <2>2. Lifecycle!Open(o, c)
    BY <1>1, <2>1 DEF Lifecycle!Open, Outcome
  <2> QED
    BY <2>2, Zenon DEF Lifecycle!Next
<1>5. ASSUME Ending
      PROVE  Lifecycle!Next
  <2>1. PICK o \in Object, c \in Call, res \in {"ok", "failed"} :
          /\ Outcome[c] = "pending" /\ Outcome' = [Outcome EXCEPT ![c] = res] /\ openBy' = LetGo(openBy, c)
          /\ res = "ok" => st[o] = "opening"
          /\ st' = IF st[o] = "opening" THEN [st EXCEPT ![o] = IF res = "ok" THEN "opened" ELSE "closed"] ELSE st
          /\ st[o] = "opening" => openBy[o] = c \/ "loss" \in Faulted
          /\ \A m \in Object : openBy[m] = c => m = o
    BY <1>5 DEF Ending
  <2>2. Lifecycle!Release(c)
    BY <2>1 DEF Lifecycle!Release, LetGo
  <2>3. st[o] = "opening" => Lifecycle!Own(o, c)
    BY <2>1 DEF Lifecycle!Own, Faulted
  <2>4. CASE res = "ok"
    <3>1. Lifecycle!Opened(o, c)
      BY <1>1, <2>1, <2>2, <2>3, <2>4 DEF Lifecycle!Opened, Outcome
    <3> QED
      BY <3>1, Zenon DEF Lifecycle!Next
  <2>5. CASE res = "failed"
    <3> DEFINE os == {x \in {o} : st[x] = "opening"}
    <3>1. os \in SUBSET {x \in Object : Lifecycle!Own(x, c)}
      BY <2>3
    <3>2. \A x \in Object : st[x] = "opening" /\ openBy[x] = c => x \in os
      BY <2>1
    <3>3. st' = [x \in Object |-> IF x \in os THEN "closed" ELSE st[x]]
      BY <1>0, <2>1, <2>5
    <3>4. Lifecycle!OpenFails(c)
      <4> HIDE DEF os
      <4>1. Outcome[c] = "pending" /\ Outcome' = [Outcome EXCEPT ![c] = "failed"]
        BY <2>1, <2>5
      <4> QED
        BY <1>1, <2>2, <3>1, <3>2, <3>3, <4>1 DEF Lifecycle!OpenFails, Outcome
    <3> QED
      BY <3>4, Zenon DEF Lifecycle!Next
  <2> QED
    BY <2>1, <2>4, <2>5
<1> QED
  BY <1>3, <1>4, <1>5, HidMoves

\* Every behaviour of page, bridge and background is one the interface allows
\* (docs/SPECIFICATION.md, B7 to B13 and B64): an object leaves "opening" by its
\* own open(), by a close, a forget or a loss; an open() resolves only when it
\* makes its object opened; a forgotten object stays forgotten.  Only a lost
\* device, a denial or a timeout makes the exceptions that DeviceLifecycle names.
THEOREM Refines == Spec => ImplementsLifecycle
<1>1. Spec => Lifecycle!Init /\ [][Lifecycle!Next]_Lifecycle!vars
  BY InitRefines, StepRefines, HidInvariant, PTL DEF Spec
<1> QED
  BY <1>1 DEF ImplementsLifecycle, Lifecycle!Spec
===============================================================================
