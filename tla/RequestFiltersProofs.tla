------------------------ MODULE RequestFiltersProofs ------------------------
(***************************************************************************)
(* What the background's listeners on requests guarantee, for any number   *)
(* of frames, navigations, hops, chunks and spawns: a document is told of  *)
(* its own policies and of all of them (CspInfoRight), a script passes     *)
(* unharmed and a worker of the polyfill gets its bundle (ScriptsRight).   *)
(***************************************************************************)
EXTENDS MCRequestFilters, SequenceTheorems, FiniteSetTheorems, WellFoundedInduction, TLAPS

-----------------------------------------------------------------------------
(* The policies: what is stored, and by whom *)

Status == {"sent", "headers", "untracked", "storing", "open", "delivered"}
Pending == {"sent", "headers", "storing"}

NavType ==
  [frame : Frame, origin : Origin, policy : Policy, seen : BOOLEAN, st : Status, gen : Nat, doc : Nat]

OpType ==
  [kind : {"clear", "store", "meta", "read", "purge"}, n : Nat, frame : Frame, by : Nat, got : BOOLEAN]

EntryType == [gen : Nat, doc : Nat, header : Nat, meta : Nat]

CspTypes ==
  /\ navs \in Seq(NavType)
  /\ current \in [Frame -> Nat]
  /\ queue \in Seq(OpType)
  /\ session \in [Frame \X Origin -> SUBSET EntryType]
  /\ tab \in [doc : [Frame -> Nat], closed : BOOLEAN]
  /\ reads \in [count : Int, last : [by : Nat, of : Nat, header : Nat, meta : Nat]]
  /\ browser \in [ids : BOOLEAN, failed : Nat]

\* The response of n knows its document and its generation.
Named(n) == navs[n].gen > 0 /\ (browser.ids => navs[n].doc = n)

\* The tracked navigation of a frame is one of it, the latest that began.
Tracked ==
  /\ \A f \in Frame : current[f] # 0 =>
       current[f] \in C!Navigation /\ navs[current[f]].frame = f /\ navs[current[f]].gen > 0
  /\ ~tab.closed => \A n \in C!Navigation :
       navs[n].seen \/ navs[n].st # "sent" => n <= current[navs[n].frame]

\* What a navigation is given as it proceeds
Begun ==
  \A n \in C!Navigation :
    /\ n = 1 \/ navs[n].seen
    /\ navs[n].gen > 0 => navs[n].seen \/ navs[n].st # "sent"
    /\ navs[n].doc \in {0, n}
    /\ navs[n].st \in {"headers", "storing"} => Named(n)
    /\ navs[n].st # "sent" /\ C!Found(n) => navs[n].st # "untracked" /\ Named(n)

\* Generations of a frame tell its navigations apart.
Generations ==
  \A m, n \in C!Navigation :
    m < n /\ navs[m].frame = navs[n].frame /\ navs[m].gen > 0 /\ navs[n].gen > 0
      => navs[m].gen < navs[n].gen

\* The documents of a tab, until it is closed
Documents ==
  /\ tab.closed => \A f \in Frame : current[f] = 0 /\ tab.doc[f] = 0
  /\ \A f \in Frame : tab.doc[f] # 0 =>
       /\ tab.doc[f] \in C!Navigation /\ tab.doc[f] <= current[f]
       /\ navs[tab.doc[f]].frame = f /\ navs[tab.doc[f]].st = "delivered"

\* What an operation in the queue is for
OpFits(q) ==
  /\ q.kind = "purge" => tab.closed
  /\ q.kind # "purge" => q.n \in C!Navigation /\ q.frame = navs[q.n].frame
  /\ q.kind = "clear" /\ C!Found(q.n) => navs[q.n].st \in Pending
  /\ q.kind = "store" => navs[q.n].st = "storing"
  /\ q.kind = "meta" => navs[q.n].st = "delivered" /\ navs[q.n].seen /\ "meta" \in navs[q.n].policy
  /\ q.kind = "read" =>
       /\ q.by \in C!Navigation /\ q.by <= q.n
       /\ navs[q.by].frame = q.frame /\ navs[q.by].st = "delivered"
       /\ q.n <= current[q.frame] \/ current[q.frame] = 0

Ops == \A i \in DOMAIN queue : OpFits(queue[i]) /\ (i > 1 => ~queue[i].got)

\* One store and one merge of a navigation; its entries are cleared before it
\* stores, and its document does not ask before the merge was queued.
InTurn(p, q, i, j) ==
  /\ p.kind = q.kind /\ p.kind \in {"store", "meta"} /\ p.n = q.n => i = j
  /\ p.kind = "clear" /\ q.kind = "store" /\ p.n = q.n => i < j
  /\ p.kind = "meta" /\ q.kind = "read" /\ p.n = q.by => i < j

Turns == \A i, j \in DOMAIN queue : InTurn(queue[i], queue[j], i, j)

\* A store that runs after its navigation was replaced finds the next one
\* waiting for its own.
LateStore ==
  queue # <<>> /\ queue[1].got /\ queue[1].kind = "store" =>
    LET k == current[queue[1].frame] IN k \notin {0, queue[1].n} => navs[k].st \in Pending

\* An entry is of one response of its frame.
Owns(k, f, o, e) ==
  /\ navs[k].frame = f /\ navs[k].origin = o /\ navs[k].st \notin {"sent", "headers", "untracked"}
  /\ e.gen = navs[k].gen /\ e.doc = navs[k].doc /\ Named(k)
  /\ e.header \in {0, k} /\ e.meta \in {0, k}

Entries ==
  \A f \in Frame, o \in Origin : \A e \in session[<<f, o>>] : \E k \in C!Navigation : Owns(k, f, o, e)

\* What is stored of the current response of a frame
HeaderOf(k) == IF "header" \in navs[k].policy THEN k ELSE 0
Merged(k) ==
  /\ navs[k].st = "delivered" /\ "meta" \in navs[k].policy /\ navs[k].seen
  /\ \A i \in DOMAIN queue : ~(queue[i].kind = "meta" /\ queue[i].n = k)
Stored(k) ==
  session[<<navs[k].frame, navs[k].origin>>] =
    IF Merged(k) THEN C!Entry(k, HeaderOf(k), k)
    ELSE IF HeaderOf(k) # 0 THEN C!Entry(k, k, 0) ELSE {}

Complete ==
  browser.failed = 0 =>
    \A k \in C!Navigation : C!Found(k) /\ navs[k].st \in {"open", "delivered"} => Stored(k)

Purged ==
  tab.closed /\ browser.failed = 0 /\ (\A i \in DOMAIN queue : queue[i].kind # "purge") =>
    /\ \A k \in DOMAIN session : session[k] = {}
    /\ queue # <<>> => ~queue[1].got

Answered == reads.last.by <= Len(navs) /\ C!OwnInfo /\ C!WholeInfo

CspInv ==
  /\ CspTypes /\ Tracked /\ Begun /\ Generations /\ Documents /\ Ops /\ Turns /\ LateStore
  /\ Entries /\ Complete /\ Purged /\ Answered

-----------------------------------------------------------------------------
(* Lists of operations *)

LEMMA Appended ==
  ASSUME NEW S, NEW s \in Seq(S), NEW e \in S
  PROVE  /\ Append(s, e) \in Seq(S) /\ Len(Append(s, e)) = Len(s) + 1
         /\ DOMAIN s = 1..Len(s) /\ DOMAIN Append(s, e) = 1..(Len(s) + 1) /\ Len(s) \in Nat
         /\ \A i \in 1..Len(s) : Append(s, e)[i] = s[i]
         /\ Append(s, e)[Len(s) + 1] = e
  BY AppendProperties, LenProperties

LEMMA Popped ==
  ASSUME NEW S, NEW s \in Seq(S), s # <<>>
  PROVE  /\ Tail(s) \in Seq(S) /\ Len(s) \in Nat \ {0} /\ Head(s) = s[1] /\ s[1] \in S
         /\ DOMAIN s = 1..Len(s) /\ DOMAIN Tail(s) = 1..(Len(s) - 1)
         /\ \A i \in 1..(Len(s) - 1) : Tail(s)[i] = s[i + 1]
  <1>1. Len(s) \in Nat \ {0} /\ DOMAIN s = 1..Len(s)
    BY EmptySeq, LenProperties
  <1> QED BY <1>1, HeadTailProperties, ElementOfSeq

\* The queue grows by an operation that fits, and what stood in it still fits.
LEMMA QueueGrows ==
  ASSUME CspInv, NEW Q, Q = queue, NEW q \in OpType, queue' = Append(Q, q), ~q.got
  PROVE  /\ queue' \in Seq(OpType)
         /\ (\A i \in DOMAIN Q : OpFits(Q[i])') /\ OpFits(q)' => Ops'
         /\ (\A i \in DOMAIN Q : InTurn(Q[i], q, i, Len(Q) + 1) /\ InTurn(q, Q[i], Len(Q) + 1, i)) => Turns'
         /\ DOMAIN queue' = 1..(Len(Q) + 1) /\ DOMAIN Q = 1..Len(Q) /\ Len(Q) \in Nat
         /\ \A i \in 1..Len(Q) : queue'[i] = Q[i] /\ Q[i] \in OpType
         /\ queue'[Len(Q) + 1] = q
         /\ queue' # <<>> /\ (Q # <<>> => queue'[1] = Q[1]) /\ (Q = <<>> => queue'[1] = q)
  <1>1. /\ queue' \in Seq(OpType) /\ Len(queue') = Len(Q) + 1 /\ Len(Q) \in Nat
        /\ DOMAIN Q = 1..Len(Q) /\ DOMAIN queue' = 1..(Len(Q) + 1)
        /\ \A i \in 1..Len(Q) : queue'[i] = Q[i] /\ Q[i] \in OpType
        /\ queue'[Len(Q) + 1] = q
    BY Appended, ElementOfSeq DEF CspInv, CspTypes
  <1>2. ASSUME \A i \in DOMAIN Q : OpFits(Q[i])', OpFits(q)' PROVE Ops'
    <2> SUFFICES ASSUME NEW i \in DOMAIN queue' PROVE OpFits(queue[i])' /\ (i > 1 => ~queue'[i].got)
      BY DEF Ops
    <2>1. CASE i \in DOMAIN Q
      <3>1. OpFits(Q[i])' /\ Q[i] = queue'[i] /\ (i > 1 => ~Q[i].got)
        BY <2>1, <1>1, <1>2 DEF CspInv, Ops
      <3> QED BY <3>1 DEF OpFits
    <2>2. CASE i = Len(Q) + 1
      <3>1. OpFits(q)' /\ q = queue'[i]
        BY <2>2, <1>1, <1>2
      <3> QED BY <3>1 DEF OpFits
    <2> QED BY <2>1, <2>2, <1>1
  <1>3. ASSUME \A i \in DOMAIN Q : InTurn(Q[i], q, i, Len(Q) + 1) /\ InTurn(q, Q[i], Len(Q) + 1, i)
        PROVE  Turns'
    <2> SUFFICES ASSUME NEW i \in DOMAIN queue', NEW j \in DOMAIN queue' PROVE InTurn(queue'[i], queue'[j], i, j)
      BY DEF Turns, InTurn
    <2>1. CASE i \in DOMAIN Q /\ j \in DOMAIN Q
      BY <2>1, <1>1 DEF CspInv, Turns
    <2>2. CASE i = Len(Q) + 1 /\ j = i
      BY <2>2, <1>1 DEF InTurn, OpType
    <2>3. CASE i = Len(Q) + 1 /\ j \in DOMAIN Q
      BY <2>3, <1>1, <1>3
    <2>4. CASE i \in DOMAIN Q /\ j = Len(Q) + 1
      BY <2>4, <1>1, <1>3
    <2> QED BY <2>1, <2>2, <2>3, <2>4, <1>1
  <1>4. queue' # <<>> /\ (Q # <<>> => queue'[1] = Q[1]) /\ (Q = <<>> => queue'[1] = q)
    BY <1>1, EmptySeq
  <1> QED BY <1>1, <1>2, <1>3, <1>4

\* The queue loses its first operation.
LEMMA QueueShrinks ==
  ASSUME CspInv, NEW Q, Q = queue, Q # <<>>, queue' = Tail(Q)
  PROVE  /\ queue' \in Seq(OpType)
         /\ (\A i \in DOMAIN Q : i > 1 => OpFits(Q[i])') => Ops'
         /\ Turns' /\ LateStore'
         /\ \A i \in DOMAIN queue' : i + 1 \in DOMAIN Q /\ i + 1 > 1 /\ queue'[i] = Q[i + 1]
         /\ \A i \in DOMAIN Q : i > 1 => i - 1 \in DOMAIN queue' /\ queue'[i - 1] = Q[i]
         /\ \A i \in DOMAIN Q : i \in Nat /\ i >= 1 /\ Q[i] \in OpType
         /\ 1 \in DOMAIN Q
         /\ queue' # <<>> => ~queue'[1].got
  <1>1. /\ queue' \in Seq(OpType) /\ Len(Q) \in Nat \ {0}
        /\ DOMAIN Q = 1..Len(Q) /\ DOMAIN queue' = 1..(Len(Q) - 1)
        /\ \A i \in 1..(Len(Q) - 1) : queue'[i] = Q[i + 1]
        /\ \A i \in 1..Len(Q) : Q[i] \in OpType
    BY Popped, ElementOfSeq DEF CspInv, CspTypes
  <1>2. \A i \in DOMAIN queue' : i + 1 \in DOMAIN Q /\ i + 1 > 1 /\ i \in Nat /\ i > 0 /\ queue'[i] = Q[i + 1]
    BY <1>1
  <1>3. ASSUME \A i \in DOMAIN Q : i > 1 => OpFits(Q[i])' PROVE Ops'
    <2> SUFFICES ASSUME NEW i \in DOMAIN queue' PROVE OpFits(queue[i])' /\ (i > 1 => ~queue'[i].got)
      BY DEF Ops
    <2>1. OpFits(Q[i + 1])' /\ ~Q[i + 1].got
      BY <1>2, <1>3 DEF CspInv, Ops
    <2>2. Q[i + 1] = queue'[i]
      BY <1>2
    <2> QED BY <2>1, <2>2 DEF OpFits
  <1>4. Turns'
    <2> SUFFICES ASSUME NEW i \in DOMAIN queue', NEW j \in DOMAIN queue' PROVE InTurn(queue'[i], queue'[j], i, j)
      BY DEF Turns, InTurn
    <2>1. InTurn(Q[i + 1], Q[j + 1], i + 1, j + 1)
      BY <1>2 DEF CspInv, Turns
    <2> QED BY <2>1, <1>2 DEF InTurn
  <1>5. queue' # <<>> => ~queue'[1].got
    <2> SUFFICES ASSUME queue' # <<>> PROVE ~queue'[1].got
      OBVIOUS
    <2>1. 1 \in DOMAIN queue'
      BY <1>1, EmptySeq, LenProperties
    <2> QED BY <2>1, <1>2 DEF CspInv, Ops
  <1>6. \A i \in DOMAIN Q : i > 1 => i - 1 \in DOMAIN queue' /\ queue'[i - 1] = Q[i]
    BY <1>1
  <1> QED BY <1>1, <1>2, <1>3, <1>4, <1>5, <1>6 DEF LateStore

\* The first operation starts.
Started(Q) ==
  \A i \in DOMAIN Q : /\ Q[i] \in OpType
                      /\ queue'[i].kind = Q[i].kind /\ queue'[i].n = Q[i].n
                      /\ queue'[i].by = Q[i].by /\ queue'[i].frame = Q[i].frame
                      /\ i > 1 => queue'[i].got = Q[i].got

LEMMA QueueStarts ==
  ASSUME CspInv, NEW Q, Q = queue, Q # <<>>, queue' = [Q EXCEPT ![1].got = TRUE]
  PROVE  /\ queue' \in Seq(OpType)
         /\ (\A i \in DOMAIN Q : OpFits(Q[i])') => Ops'
         /\ Turns'
         /\ DOMAIN queue' = DOMAIN Q /\ 1 \in DOMAIN Q /\ queue' # <<>>
         /\ Started(Q)
  <1>1. /\ Len(Q) \in Nat \ {0} /\ DOMAIN Q = 1..Len(Q) /\ Q[1] \in OpType
        /\ \A i \in DOMAIN Q : Q[i] \in OpType
    BY Popped, ElementOfSeq DEF CspInv, CspTypes
  <1>2. [Q[1] EXCEPT !.got = TRUE] \in OpType
    BY <1>1 DEF OpType
  <1>3. queue' \in Seq(OpType) /\ DOMAIN queue' = DOMAIN Q
    <2>1. queue' = [Q EXCEPT ![1] = [Q[1] EXCEPT !.got = TRUE]] /\ Q \in Seq(OpType)
      BY <1>1 DEF CspInv, CspTypes
    <2> QED BY <2>1, <1>1, <1>2, ExceptSeq
  <1>4. \A i \in DOMAIN Q : /\ Q[i] \in OpType
                            /\ queue'[i] = IF i = 1 THEN [Q[1] EXCEPT !.got = TRUE] ELSE Q[i]
    BY <1>1, <1>2
  <1>5. \A i \in DOMAIN Q : /\ queue'[i].kind = Q[i].kind /\ queue'[i].n = Q[i].n
                            /\ queue'[i].by = Q[i].by /\ queue'[i].frame = Q[i].frame
                            /\ i > 1 => queue'[i].got = Q[i].got
    <2>1. \A r \in OpType : LET s == [r EXCEPT !.got = TRUE] IN
            s.kind = r.kind /\ s.n = r.n /\ s.by = r.by /\ s.frame = r.frame
      BY DEF OpType
    <2> SUFFICES ASSUME NEW i \in DOMAIN Q
                 PROVE  /\ queue'[i].kind = Q[i].kind /\ queue'[i].n = Q[i].n
                        /\ queue'[i].by = Q[i].by /\ queue'[i].frame = Q[i].frame
                        /\ i > 1 => queue'[i].got = Q[i].got
      OBVIOUS
    <2>2. CASE i = 1
      <3>1. queue'[1] = [Q[1] EXCEPT !.got = TRUE]
        BY <1>4, <2>2
      <3>2. /\ queue'[1].kind = Q[1].kind /\ queue'[1].n = Q[1].n
            /\ queue'[1].by = Q[1].by /\ queue'[1].frame = Q[1].frame
        BY <1>1, <2>1, <3>1, ZenonT(30)
      <3>3. ~(i > 1)
        BY <2>2
      <3> QED BY <2>2, <3>2, <3>3, Zenon
    <2>3. CASE i # 1
      BY <1>4, <2>3
    <2> QED BY <2>2, <2>3
  <1>6. ASSUME \A i \in DOMAIN Q : OpFits(Q[i])' PROVE Ops'
    <2> SUFFICES ASSUME NEW i \in DOMAIN queue' PROVE OpFits(queue[i])' /\ (i > 1 => ~queue'[i].got)
      BY DEF Ops
    <2>1. OpFits(Q[i])' /\ (i > 1 => ~Q[i].got)
      BY <1>3, <1>6 DEF CspInv, Ops
    <2>2. OpFits(queue[i])'
      BY <2>1, <1>3, <1>5 DEF OpFits
    <2> QED BY <2>1, <2>2, <1>3, <1>5
  <1>7. Turns'
    <2> SUFFICES ASSUME NEW i \in DOMAIN queue', NEW j \in DOMAIN queue' PROVE InTurn(queue'[i], queue'[j], i, j)
      BY DEF Turns, InTurn
    <2>1. InTurn(Q[i], Q[j], i, j)
      BY <1>3 DEF CspInv, Turns
    <2> QED BY <2>1, <1>3, <1>5 DEF InTurn
  <1>8. 1 \in DOMAIN Q /\ queue' # <<>>
    BY <1>1, <1>3, EmptySeq, LenProperties
  <1> QED BY <1>1, <1>3, <1>5, <1>6, <1>7, <1>8 DEF Started

-----------------------------------------------------------------------------
(* Responses that proceed *)

\* Nothing of a response changes but how far it is.
Moved ==
  /\ navs' \in Seq(NavType) /\ Len(navs') = Len(navs)
  /\ \A n \in C!Navigation :
       /\ navs'[n].frame = navs[n].frame /\ navs'[n].origin = navs[n].origin
       /\ navs'[n].policy = navs[n].policy /\ navs'[n].seen = navs[n].seen
       /\ navs'[n].gen = navs[n].gen /\ navs'[n].doc = navs[n].doc
       /\ \/ navs'[n].st = navs[n].st
          \/ navs[n].st = "headers" /\ navs'[n].st = "storing"
          \/ navs[n].st \in {"untracked", "storing"} /\ navs'[n].st = "open"
          \/ navs[n].st = "open" /\ navs'[n].st = "delivered"

SamePlace == current' = current /\ tab'.closed = tab.closed /\ browser'.ids = browser.ids

LEMMA NavFacts ==
  ASSUME CspTypes
  PROVE  /\ Len(navs) \in Nat /\ C!Navigation = 1..Len(navs) /\ DOMAIN navs = 1..Len(navs)
         /\ \A n \in C!Navigation :
              /\ n \in Nat /\ n > 0 /\ navs[n] \in NavType
              /\ navs[n].frame \in Frame /\ navs[n].origin \in Origin /\ navs[n].seen \in BOOLEAN
              /\ navs[n].st \in Status /\ navs[n].gen \in Nat /\ navs[n].doc \in Nat
              /\ current[navs[n].frame] \in Nat
  <1>1. /\ Len(navs) \in Nat /\ C!Navigation = 1..Len(navs) /\ DOMAIN navs = 1..Len(navs)
    BY LenProperties DEF CspTypes, C!Navigation
  <1>2. \A n \in C!Navigation : navs[n] \in NavType
    BY <1>1, ElementOfSeq DEF CspTypes
  <1>3. \A r \in NavType : /\ r.frame \in Frame /\ r.origin \in Origin /\ r.seen \in BOOLEAN
                           /\ r.st \in Status /\ r.gen \in Nat /\ r.doc \in Nat
    BY DEF NavType
  <1>4. \A n \in C!Navigation : navs[n].frame \in Frame /\ current[navs[n].frame] \in Nat /\ n \in Nat /\ n > 0
    BY <1>1, <1>2, <1>3 DEF CspTypes
  <1> QED BY <1>1, <1>2, <1>3, <1>4

LEMMA MovedNow ==
  ASSUME CspInv, NEW n \in C!Navigation, NEW v \in Status, navs' = [navs EXCEPT ![n].st = v],
         \/ navs[n].st = "headers" /\ v = "storing"
         \/ navs[n].st \in {"untracked", "storing"} /\ v = "open"
         \/ navs[n].st = "open" /\ v = "delivered"
  PROVE  Moved /\ \A m \in C!Navigation : navs'[m].st = IF m = n THEN v ELSE navs[m].st
  <1>1. CspTypes
    BY DEF CspInv
  <1>2. \A r \in NavType : LET s == [r EXCEPT !.st = v] IN
          /\ s \in NavType /\ s.frame = r.frame /\ s.origin = r.origin /\ s.policy = r.policy
          /\ s.seen = r.seen /\ s.gen = r.gen /\ s.doc = r.doc /\ s.st = v
    BY DEF NavType
  <1>3. PICK s : s = [navs[n] EXCEPT !.st = v]
    OBVIOUS
  <1>4. /\ s \in NavType /\ s.frame = navs[n].frame /\ s.origin = navs[n].origin
        /\ s.policy = navs[n].policy /\ s.seen = navs[n].seen /\ s.gen = navs[n].gen
        /\ s.doc = navs[n].doc /\ s.st = v
    BY <1>1, <1>2, <1>3, NavFacts, Zenon
  <1>5. navs' = [navs EXCEPT ![n] = s]
    BY <1>1, <1>3
  <1>6. navs' \in Seq(NavType) /\ Len(navs') = Len(navs)
    <2>1. navs \in Seq(NavType) /\ n \in 1..Len(navs)
      BY <1>1, NavFacts DEF CspTypes
    <2> QED BY <2>1, <1>4, <1>5, ExceptSeq, SMTT(30)
  <1>7. \A m \in C!Navigation : navs'[m] = IF m = n THEN s ELSE navs[m]
    BY <1>1, <1>5, NavFacts
  <1> QED BY <1>4, <1>6, <1>7 DEF Moved

LEMMA MovedKeeps ==
  ASSUME CspInv, Moved, SamePlace
  PROVE  /\ Tracked' /\ Begun' /\ Generations' /\ (tab' = tab => Documents')
         /\ \A k \in C!Navigation, f \in Frame, o \in Origin, e \in EntryType :
              Owns(k, f, o, e) => Owns(k, f, o, e)'
         /\ C!Navigation' = C!Navigation /\ Len(navs') = Len(navs)
  <1>1. CspTypes
    BY DEF CspInv
  <1>2. C!Navigation' = C!Navigation /\ Len(navs') = Len(navs)
    BY DEF Moved, C!Navigation
  <1>3. Tracked'
    <2>1. \A f \in Frame : current[f] # 0 =>
            current[f] \in C!Navigation /\ navs'[current[f]].frame = f /\ navs'[current[f]].gen > 0
      BY DEF CspInv, Tracked, Moved
    <2>2. ~tab.closed => \A n \in C!Navigation :
            navs'[n].seen \/ navs'[n].st # "sent" => n <= current[navs'[n].frame]
      BY DEF CspInv, Tracked, Moved
    <2> QED BY <1>2, <2>1, <2>2 DEF Tracked, SamePlace
  <1>4. Begun'
    <2> SUFFICES ASSUME NEW n \in C!Navigation
                 PROVE  /\ n = 1 \/ navs'[n].seen
                        /\ navs'[n].gen > 0 => navs'[n].seen \/ navs'[n].st # "sent"
                        /\ navs'[n].doc \in {0, n}
                        /\ navs'[n].st \in {"headers", "storing"} => Named(n)'
                        /\ navs'[n].st # "sent" /\ C!Found(n)' => navs'[n].st # "untracked" /\ Named(n)'
      BY <1>2 DEF Begun
    <2>1. Named(n)' <=> Named(n)
      BY DEF Named, Moved, SamePlace
    <2>2. C!Found(n)' <=> C!Found(n)
      BY DEF C!Found, Moved, SamePlace
    <2> QED BY <2>1, <2>2, <1>1, NavFacts DEF CspInv, Begun, Moved
  <1>5. Generations'
    BY <1>2 DEF CspInv, Generations, Moved
  <1>6. ASSUME tab' = tab PROVE Documents'
    BY <1>2, <1>6 DEF CspInv, Documents, Moved, SamePlace
  <1>7. \A k \in C!Navigation, f \in Frame, o \in Origin, e \in EntryType :
          Owns(k, f, o, e) => Owns(k, f, o, e)'
    BY DEF Owns, Named, Moved, SamePlace
  <1> QED BY <1>2, <1>3, <1>4, <1>5, <1>6, <1>7

LEMMA FitsMoved ==
  ASSUME CspInv, Moved, SamePlace, NEW r \in OpType, OpFits(r),
         r.kind \in {"clear", "store"} => ~(navs[r.n].st = "storing" /\ navs'[r.n].st = "open")
  PROVE  OpFits(r)'
  <1>1. CspTypes
    BY DEF CspInv
  <1>2. C!Navigation' = C!Navigation
    BY DEF Moved, C!Navigation
  <1>3. r.kind # "purge" => (C!Found(r.n)' <=> C!Found(r.n))
    BY DEF C!Found, Moved, SamePlace, OpFits
  <1>4. r.kind = "clear" /\ C!Found(r.n)' => navs'[r.n].st \in Pending
    BY <1>3 DEF OpFits, Moved, Pending
  <1>5. r.kind = "store" => navs'[r.n].st = "storing"
    BY DEF OpFits, Moved
  <1>6. r.kind = "meta" => navs'[r.n].st = "delivered" /\ navs'[r.n].seen /\ "meta" \in navs'[r.n].policy
    BY DEF OpFits, Moved
  <1>7. r.kind = "read" =>
          /\ r.by \in C!Navigation /\ r.by <= r.n
          /\ navs'[r.by].frame = r.frame /\ navs'[r.by].st = "delivered"
          /\ r.n <= current'[r.frame] \/ current'[r.frame] = 0
    BY DEF OpFits, Moved, SamePlace
  <1>8. (r.kind = "purge" => tab'.closed)
        /\ (r.kind # "purge" => r.n \in C!Navigation /\ r.frame = navs'[r.n].frame)
    BY DEF OpFits, Moved, SamePlace
  <1> QED BY <1>2, <1>4, <1>5, <1>6, <1>7, <1>8 DEF OpFits

\* A complete entry stays complete when the operations before and after do
\* not concern it.
LEMMA StoredKept ==
  ASSUME Moved, NEW k \in C!Navigation,
         Stored(k), Merged(k)' <=> Merged(k), C!Found(k), CspInv,
         session'[<<navs[k].frame, navs[k].origin>>] = session[<<navs[k].frame, navs[k].origin>>]
  PROVE  Stored(k)'
  BY DEF Stored, Moved, HeaderOf, C!Entry

\* What a document was told stays right.
LEMMA AnsweredKept ==
  ASSUME CspInv, Moved, SamePlace, reads'.last = reads.last, browser'.failed >= browser.failed
  PROVE  Answered'
  <1>1. CspTypes /\ Answered
    BY DEF CspInv
  <1>2. reads'.last.by <= Len(navs') /\ C!OwnInfo'
    BY <1>1 DEF Answered, C!OwnInfo, Moved, SamePlace
  <1>3. C!WholeInfo'
    <2>1. browser'.failed = 0 => browser.failed = 0
      BY <1>1 DEF CspTypes
    <2>2. reads.last.by # 0 => reads.last.by \in C!Navigation
      BY <1>1, NavFacts DEF Answered, CspTypes
    <2> QED BY <1>1, <2>1, <2>2 DEF Answered, C!WholeInfo, Moved
  <1> QED BY <1>2, <1>3 DEF Answered

-----------------------------------------------------------------------------
(* Steps that leave the queue alone, add to it, or take its first operation *)

ReadsType == reads' \in [count : Int, last : [by : Nat, of : Nat, header : Nat, meta : Nat]]
TabType == tab' \in [doc : [Frame -> Nat], closed : BOOLEAN]

LEMMA TypesNow ==
  ASSUME CspInv, Moved, SamePlace, queue' \in Seq(OpType), ReadsType, TabType,
         session' \in [Frame \X Origin -> SUBSET EntryType],
         browser' \in [ids : BOOLEAN, failed : Nat]
  PROVE  CspTypes'
  BY DEF CspInv, CspTypes, Moved, SamePlace, ReadsType, TabType

\* What the frames have stored stays theirs if nothing is added to it.
LEMMA EntriesKept ==
  ASSUME CspInv, Moved, SamePlace,
         session' \in [Frame \X Origin -> SUBSET EntryType],
         \A f \in Frame, o \in Origin : session'[<<f, o>>] \subseteq session[<<f, o>>]
  PROVE  Entries'
  <1> SUFFICES ASSUME NEW f \in Frame, NEW o \in Origin, NEW e \in session'[<<f, o>>]
               PROVE  \E k \in C!Navigation' : Owns(k, f, o, e)'
    BY DEF Entries
  <1>1. e \in session[<<f, o>>] /\ e \in EntryType
    BY DEF CspInv, CspTypes
  <1>2. PICK k \in C!Navigation : Owns(k, f, o, e)
    BY <1>1 DEF CspInv, Entries
  <1> QED BY <1>1, <1>2, MovedKeeps

\* Who stores goes on storing; whose head was read and had a policy queues it.
Unhurried(q) ==
  \A k \in C!Navigation :
    /\ navs[k].st = "storing" => navs'[k].st = "storing"
    /\ navs[k].st = "open" /\ navs'[k].st = "delivered" /\ "meta" \in navs[k].policy /\ navs[k].seen
         => q.kind = "meta" /\ q.n = k

NoOp == [kind |-> "none", n |-> 0]

LEMMA QuietStep ==
  ASSUME CspInv, Moved, SamePlace, queue' = queue, session' = session, browser' = browser,
         Documents', Answered', ReadsType, TabType, Unhurried(NoOp)
  PROVE  CspInv'
  <1>1. CspTypes
    BY DEF CspInv
  <1>2. CspTypes'
    BY <1>1, TypesNow DEF CspTypes
  <1>3. Tracked' /\ Begun' /\ Generations' /\ Entries' /\ C!Navigation' = C!Navigation
    BY <1>1, MovedKeeps, EntriesKept DEF CspTypes
  <1>4. Ops'
    <2> PICK Q : Q = queue
      OBVIOUS
    <2>1. ASSUME NEW i \in DOMAIN Q PROVE OpFits(Q[i])'
      <3>1. Q[i] \in OpType /\ OpFits(Q[i])
        BY <1>1, ElementOfSeq, LenProperties DEF CspInv, Ops, CspTypes
      <3>2. Q[i].kind \in {"clear", "store"} => Q[i].n \in C!Navigation
        BY <3>1 DEF OpFits
      <3> QED BY <3>1, <3>2, FitsMoved DEF Unhurried
    <2> SUFFICES ASSUME NEW i \in DOMAIN queue' PROVE OpFits(queue[i])' /\ (i > 1 => ~queue'[i].got)
      BY DEF Ops
    <2>2. OpFits(Q[i])' /\ Q[i] = queue'[i]
      BY <2>1
    <2> QED BY <2>2 DEF OpFits, CspInv, Ops
  <1>5. Turns'
    BY DEF CspInv, Turns, InTurn
  <1>6. LateStore'
    <2> SUFFICES ASSUME queue # <<>>, queue[1].got, queue[1].kind = "store",
                        NEW k, k = current[queue[1].frame], k \notin {0, queue[1].n}
                 PROVE  navs'[k].st \in Pending
      BY DEF LateStore, SamePlace
    <2>1. navs[k].st \in Pending
      BY DEF CspInv, LateStore
    <2>2. queue[1] \in OpType
      BY <1>1, Popped DEF CspTypes
    <2>3. k \in C!Navigation
      BY <2>2 DEF CspInv, Tracked, OpType
    <2> QED BY <2>1, <2>3 DEF Moved, Unhurried, Pending
  <1>7. Complete'
    <2> SUFFICES ASSUME browser.failed = 0, NEW k \in C!Navigation, C!Found(k)', navs'[k].st \in {"open", "delivered"}
                 PROVE  Stored(k)'
      BY <1>3 DEF Complete
    <2>1. C!Found(k)
      BY DEF C!Found, Moved, SamePlace
    <2>2. navs[k].st \in {"open", "delivered"}
      BY <2>1 DEF CspInv, Begun, Moved, Unhurried
    <2>3. Merged(k)' <=> Merged(k)
      BY <2>2 DEF Merged, Moved, Unhurried, NoOp
    <2> QED BY <2>1, <2>2, <2>3, StoredKept DEF CspInv, Complete
  <1>8. Purged'
    BY DEF CspInv, Purged, SamePlace
  <1> QED BY <1>2, <1>3, <1>4, <1>5, <1>6, <1>7, <1>8 DEF CspInv

LEMMA AppendStep ==
  ASSUME CspInv, Moved, SamePlace, NEW q \in OpType, ~q.got, q.kind # "purge",
         queue' = Append(queue, q), session' = session, browser' = browser,
         OpFits(q)',
         q.kind = "meta" => navs[q.n].st = "open",
         \A i \in DOMAIN queue : InTurn(queue[i], q, i, Len(queue) + 1) /\ InTurn(q, queue[i], Len(queue) + 1, i),
         Documents', Answered', ReadsType, TabType, Unhurried(q)
  PROVE  CspInv'
  <1>1. CspTypes
    BY DEF CspInv
  <1> PICK Q : Q = queue
    OBVIOUS
  <1>2. ASSUME NEW i \in DOMAIN Q PROVE OpFits(Q[i])'
    <2>1. Q[i] \in OpType /\ OpFits(Q[i])
      BY <1>1, ElementOfSeq, LenProperties DEF CspInv, Ops, CspTypes
    <2>2. Q[i].kind \in {"clear", "store"} => Q[i].n \in C!Navigation
      BY <2>1 DEF OpFits
    <2> QED BY <2>1, <2>2, FitsMoved DEF Unhurried
  <1>3. \A i \in DOMAIN Q : InTurn(Q[i], q, i, Len(Q) + 1) /\ InTurn(q, Q[i], Len(Q) + 1, i)
    OBVIOUS
  <1>4. /\ queue' \in Seq(OpType) /\ Ops' /\ Turns'
        /\ DOMAIN queue' = 1..(Len(Q) + 1) /\ DOMAIN Q = 1..Len(Q) /\ Len(Q) \in Nat
        /\ \A i \in 1..Len(Q) : queue'[i] = Q[i] /\ Q[i] \in OpType
        /\ queue'[Len(Q) + 1] = q
        /\ queue' # <<>> /\ (Q # <<>> => queue'[1] = Q[1]) /\ (Q = <<>> => queue'[1] = q)
    BY <1>2, <1>3, QueueGrows
  <1>5. CspTypes'
    BY <1>1, <1>4, TypesNow DEF CspTypes
  <1>6. Tracked' /\ Begun' /\ Generations' /\ Entries' /\ C!Navigation' = C!Navigation
    BY <1>1, MovedKeeps, EntriesKept DEF CspTypes
  <1>7. LateStore'
    <2> SUFFICES ASSUME queue'[1].got, queue'[1].kind = "store",
                        NEW k, k = current[queue'[1].frame], k \notin {0, queue'[1].n}
                 PROVE  navs'[k].st \in Pending
      BY DEF LateStore, SamePlace
    <2>1. Q # <<>> /\ queue'[1] = Q[1]
      BY <1>4
    <2>2. navs[k].st \in Pending
      BY <2>1 DEF CspInv, LateStore
    <2>3. Q[1] \in OpType
      BY <1>1, <2>1, Popped DEF CspTypes
    <2>4. k \in C!Navigation
      BY <2>1, <2>3 DEF CspInv, Tracked, OpType
    <2> QED BY <2>2, <2>4 DEF Moved, Unhurried, Pending
  <1>8. Complete'
    <2> SUFFICES ASSUME browser.failed = 0, NEW k \in C!Navigation, C!Found(k)', navs'[k].st \in {"open", "delivered"}
                 PROVE  Stored(k)'
      BY <1>6 DEF Complete
    <2>1. C!Found(k)
      BY DEF C!Found, Moved, SamePlace
    <2>2. navs[k].st \in {"open", "delivered"}
      BY <2>1 DEF CspInv, Begun, Moved, Unhurried
    <2>3. Merged(k)' <=> Merged(k)
      <3>1. CASE q.kind = "meta" /\ q.n = k
        BY <3>1, <1>4 DEF Merged
      <3>2. CASE ~(q.kind = "meta" /\ q.n = k)
        <4>1. (\A i \in DOMAIN queue' : ~(queue'[i].kind = "meta" /\ queue'[i].n = k))
                <=> (\A i \in DOMAIN Q : ~(Q[i].kind = "meta" /\ Q[i].n = k))
          BY <1>4, <3>2
        <4>2. navs[k].st = "open" /\ navs'[k].st = "delivered" => ~("meta" \in navs[k].policy /\ navs[k].seen)
          BY <3>2 DEF Unhurried
        <4> QED BY <4>1, <4>2, <2>2 DEF Merged, Moved
      <3> QED BY <3>1, <3>2
    <2> QED BY <2>1, <2>2, <2>3, StoredKept DEF CspInv, Complete
  <1>9. Purged'
    <2> SUFFICES ASSUME tab'.closed, browser.failed = 0, \A i \in DOMAIN queue' : queue'[i].kind # "purge"
                 PROVE  (\A k \in DOMAIN session : session[k] = {}) /\ ~queue'[1].got
      BY DEF Purged
    <2>1. \A i \in DOMAIN Q : Q[i].kind # "purge"
      BY <1>4
    <2> QED BY <2>1, <1>4 DEF CspInv, Purged, SamePlace
  <1> QED BY <1>4, <1>5, <1>6, <1>7, <1>8, <1>9 DEF CspInv

\* Only the first operation opens a response that waits for it.
Releases(q) ==
  \A n \in C!Navigation : navs[n].st = "storing" /\ navs'[n].st = "open" => q.kind = "store" /\ n = q.n

LEMMA TailStep ==
  ASSUME CspInv, Moved, SamePlace, queue # <<>>, queue' = Tail(queue), Releases(queue[1]), tab' = tab,
         browser' \in [ids : BOOLEAN, failed : Nat], ReadsType,
         session' \in [Frame \X Origin -> SUBSET EntryType],
         Entries', Complete', Purged', Answered'
  PROVE  CspInv'
  <1>1. CspTypes
    BY DEF CspInv
  <1> PICK Q : Q = queue
    OBVIOUS
  <1>2. /\ queue' \in Seq(OpType)
        /\ (\A i \in DOMAIN Q : i > 1 => OpFits(Q[i])') => Ops'
        /\ Turns' /\ LateStore'
        /\ \A i \in DOMAIN Q : i \in Nat /\ i >= 1 /\ Q[i] \in OpType
        /\ 1 \in DOMAIN Q
    BY QueueShrinks
  <1>3. ASSUME NEW i \in DOMAIN Q, i > 1 PROVE OpFits(Q[i])'
    <2>1. Q[i] \in OpType /\ OpFits(Q[i])
      BY <1>2 DEF CspInv, Ops
    <2>2. Q[i].kind \in {"clear", "store"} => Q[i].n \in C!Navigation
      BY <2>1 DEF OpFits
    <2>3. InTurn(Q[1], Q[i], 1, i) /\ InTurn(Q[i], Q[1], i, 1)
      BY <1>2 DEF CspInv, Turns
    <2>4. Q[i].kind \in {"clear", "store"} => ~(Q[1].kind = "store" /\ Q[i].n = Q[1].n)
      BY <2>3, <1>2, <1>3 DEF InTurn
    <2> QED BY <2>1, <2>2, <2>4, FitsMoved DEF Releases
  <1>4. CspTypes'
    BY <1>1, <1>2, TypesNow DEF CspTypes, TabType
  <1>5. Tracked' /\ Begun' /\ Generations' /\ Documents'
    BY MovedKeeps
  <1> QED BY <1>2, <1>3, <1>4, <1>5 DEF CspInv

-----------------------------------------------------------------------------
(* Each operation *)

LEMMA NewOpType ==
  ASSUME CspInv, NEW kind \in {"clear", "store", "meta", "read", "purge"}, NEW n \in Nat, NEW f \in Frame
  PROVE  [kind |-> kind, n |-> n, frame |-> f, by |-> tab.doc[f], got |-> FALSE] \in OpType
  BY DEF CspInv, CspTypes, OpType

LEMMA Still ==
  ASSUME CspInv, navs' = navs
  PROVE  Moved /\ Unhurried(NoOp) /\ \A q : Unhurried(q) /\ Releases(q)
  BY DEF CspInv, CspTypes, Moved, Unhurried, Releases

LastType == [by : Nat, of : Nat, header : Nat, meta : Nat]

LEMMA ReadsMove ==
  ASSUME NEW r \in [count : Int, last : LastType], NEW l \in LastType
  PROVE  /\ [r EXCEPT !.count = @ + 1] \in [count : Int, last : LastType]
         /\ [r EXCEPT !.count = @ + 1].last = r.last
         /\ [r EXCEPT !.last = l] \in [count : Int, last : LastType]
         /\ [r EXCEPT !.last = l].last = l
  OBVIOUS

LEMMA SameReads ==
  ASSUME CspInv
  PROVE  (reads' = reads => ReadsType) /\ (tab' = tab => TabType)
  BY DEF CspInv, CspTypes, ReadsType, TabType

LEMMA ModeResolvedKeeps ==
  ASSUME CspInv, NEW n \in C!Navigation, C!ModeResolved(n)
  PROVE  CspInv'
  <1>1. CspTypes /\ n \in Nat /\ navs[n].frame \in Frame
    BY NavFacts DEF CspInv
  <1>2. SamePlace /\ tab' = tab /\ session' = session /\ browser' = browser /\ reads' = reads
    BY DEF C!ModeResolved, SamePlace
  <1>3. ReadsType /\ TabType /\ browser'.failed >= browser.failed
    BY <1>1, <1>2, SameReads DEF CspTypes
  <1>4. CASE navs[n].st = "headers" /\ navs' = [navs EXCEPT ![n].st = "storing"] /\ C!Enqueue("store", n, navs[n].frame)
    <2>1. Moved /\ \A m \in C!Navigation : navs'[m].st = IF m = n THEN "storing" ELSE navs[m].st
      BY <1>4, MovedNow DEF Status
    <2> DEFINE q == [kind |-> "store", n |-> n, frame |-> navs[n].frame, by |-> tab.doc[navs[n].frame], got |-> FALSE]
    <2>2. q \in OpType
      BY <1>1, NewOpType
    <2>3. queue' = Append(queue, q)
      BY <1>4 DEF C!Enqueue, C!Enqueued
    <2> PICK r \in OpType : r = q
      BY <2>2
    <2>4. r.kind = "store" /\ r.n = n /\ r.frame = navs[n].frame /\ ~r.got
      OBVIOUS
    <2> HIDE DEF q
    <2>5. OpFits(r)'
      BY <2>1, <2>4 DEF OpFits, Moved, C!Navigation
    <2>6. ASSUME NEW i \in DOMAIN queue
          PROVE  InTurn(queue[i], r, i, Len(queue) + 1) /\ InTurn(r, queue[i], Len(queue) + 1, i)
      <3>1. OpFits(queue[i]) /\ i < Len(queue) + 1
        BY <1>1, LenProperties DEF CspInv, Ops, CspTypes
      <3>2. ~(queue[i].kind = "store" /\ queue[i].n = n)
        BY <3>1, <1>4 DEF OpFits
      <3> QED BY <3>1, <3>2, <2>4 DEF InTurn
    <2>7. Unhurried(r)
      BY <2>1, <1>4 DEF Unhurried
    <2>8. Answered' /\ Documents'
      BY <2>1, <1>2, <1>3, AnsweredKept, MovedKeeps
    <2> QED BY <2>1, <2>3, <2>4, <2>5, <2>6, <2>7, <2>8, <1>2, <1>3, AppendStep
  <1>5. CASE navs[n].st = "untracked" /\ navs' = [navs EXCEPT ![n].st = "open"] /\ UNCHANGED queue
    <2>1. Moved /\ \A m \in C!Navigation : navs'[m].st = IF m = n THEN "open" ELSE navs[m].st
      BY <1>5, MovedNow DEF Status
    <2>2. Unhurried(NoOp)
      BY <2>1, <1>5 DEF Unhurried
    <2>3. Answered' /\ Documents'
      BY <2>1, <1>2, <1>3, AnsweredKept, MovedKeeps
    <2> QED BY <2>1, <2>2, <2>3, <1>5, <1>2, <1>3, QuietStep
  <1> QED BY <1>4, <1>5 DEF C!ModeResolved

LEMMA ProcessHeadKeeps ==
  ASSUME CspInv, NEW n \in C!Navigation, C!ProcessHead(n)
  PROVE  CspInv'
  <1>1. CspTypes /\ n \in Nat /\ navs[n].frame \in Frame
    BY NavFacts DEF CspInv
  <1>2. SamePlace /\ tab' = tab /\ session' = session /\ browser' = browser /\ reads' = reads
        /\ navs[n].st = "open" /\ navs' = [navs EXCEPT ![n].st = "delivered"]
    BY DEF C!ProcessHead, SamePlace
  <1>3. ReadsType /\ TabType /\ browser'.failed >= browser.failed
    BY <1>1, <1>2, SameReads DEF CspTypes
  <1>4. Moved /\ \A m \in C!Navigation : navs'[m].st = IF m = n THEN "delivered" ELSE navs[m].st
    BY <1>2, MovedNow DEF Status
  <1>5. Answered' /\ Documents'
    BY <1>2, <1>3, <1>4, AnsweredKept, MovedKeeps
  <1>6. CASE navs[n].seen /\ "meta" \in navs[n].policy
    <2> DEFINE q == [kind |-> "meta", n |-> n, frame |-> navs[n].frame, by |-> tab.doc[navs[n].frame], got |-> FALSE]
    <2>1. q \in OpType
      BY <1>1, NewOpType
    <2>2. queue' = Append(queue, q)
      BY <1>6 DEF C!ProcessHead, C!Enqueue, C!Enqueued
    <2> PICK r \in OpType : r = q
      BY <2>1
    <2>3. r.kind = "meta" /\ r.n = n /\ r.frame = navs[n].frame /\ ~r.got
      OBVIOUS
    <2> HIDE DEF q
    <2>4. OpFits(r)'
      BY <1>4, <1>6, <2>3 DEF OpFits, Moved, C!Navigation
    <2>5. ASSUME NEW i \in DOMAIN queue
          PROVE  InTurn(queue[i], r, i, Len(queue) + 1) /\ InTurn(r, queue[i], Len(queue) + 1, i)
      <3>1. OpFits(queue[i])
        BY DEF CspInv, Ops
      <3>2. ~(queue[i].kind = "meta" /\ queue[i].n = n) /\ ~(queue[i].kind = "read" /\ queue[i].by = n)
        BY <3>1, <1>2 DEF OpFits
      <3> QED BY <3>2, <2>3 DEF InTurn
    <2>6. Unhurried(r)
      BY <1>2, <1>4, <2>3 DEF Unhurried
    <2> QED BY <1>2, <1>3, <1>4, <1>5, <2>2, <2>3, <2>4, <2>5, <2>6, AppendStep
  <1>7. CASE ~(navs[n].seen /\ "meta" \in navs[n].policy)
    <2>1. queue' = queue /\ Unhurried(NoOp)
      BY <1>2, <1>4, <1>7 DEF C!ProcessHead, Unhurried
    <2> QED BY <2>1, <1>2, <1>3, <1>4, <1>5, QuietStep
  <1> QED BY <1>6, <1>7

LEMMA CommitKeeps ==
  ASSUME CspInv, NEW n \in C!Navigation, C!Commit(n)
  PROVE  CspInv'
  <1>1. CspTypes /\ n \in Nat /\ n > 0 /\ navs[n].frame \in Frame
    BY NavFacts DEF CspInv
  <1>2. /\ navs' = navs /\ current' = current /\ queue' = queue /\ session' = session /\ browser' = browser
        /\ reads' = reads /\ ~tab.closed /\ navs[n].st = "delivered"
        /\ tab' = [tab EXCEPT !.doc[navs[n].frame] = n]
    BY DEF C!Commit
  <1>3. /\ TabType /\ tab'.closed = tab.closed
        /\ \A f \in Frame : tab'.doc[f] = IF f = navs[n].frame THEN n ELSE tab.doc[f]
    <2>1. PICK d \in [Frame -> Nat] : d = [tab.doc EXCEPT ![navs[n].frame] = n]
      BY <1>1 DEF CspTypes
    <2>2. tab' = [tab EXCEPT !.doc = d]
      BY <1>2, <2>1
    <2>3. tab'.doc = d /\ tab'.closed = tab.closed /\ TabType
      BY <1>1, <2>2 DEF CspTypes, TabType
    <2> QED BY <2>1, <2>3, <1>1 DEF CspTypes
  <1>4. Moved /\ Unhurried(NoOp) /\ SamePlace
    BY <1>2, <1>3, Still DEF SamePlace
  <1>5. ReadsType /\ browser'.failed >= browser.failed
    BY <1>1, <1>2, SameReads DEF CspTypes
  <1>6. Documents'
    <2>1. n <= current[navs[n].frame]
      BY <1>2 DEF CspInv, Tracked
    <2> QED BY <1>2, <1>3, <2>1 DEF CspInv, Documents, C!Navigation
  <1>7. Answered'
    BY <1>2, <1>4, <1>5, AnsweredKept
  <1> QED BY <1>2, <1>3, <1>4, <1>5, <1>6, <1>7, QuietStep

\* A document that asks is of a navigation that began no later than the
\* tracked one.
LEMMA HandleGetCspInfoKeeps ==
  ASSUME CspInv, NEW f \in Frame, C!HandleGetCspInfo(f)
  PROVE  CspInv'
  <1> DEFINE n == tab.doc[f]
             c == current[f]
  <1>1. CspTypes /\ n \in Nat /\ c \in Nat
    BY DEF CspInv, CspTypes
  <1>2. /\ navs' = navs /\ current' = current /\ session' = session /\ browser' = browser
        /\ tab' = tab /\ n # 0
    BY DEF C!HandleGetCspInfo
  <1>3. /\ n \in C!Navigation /\ n <= c /\ navs[n].frame = f /\ navs[n].st = "delivered"
        /\ c # 0 /\ c \in C!Navigation /\ navs[c].frame = f
    BY <1>1, <1>2, NavFacts DEF CspInv, Documents, Tracked
  <1>4. Moved /\ SamePlace /\ TabType /\ browser'.failed >= browser.failed
    BY <1>1, <1>2, Still, SameReads DEF SamePlace, CspTypes
  <1>5. Documents'
    BY <1>2, <1>4, MovedKeeps
  <1>6. CASE browser.ids /\ c # 0 /\ navs[c].doc \notin {0, n}
    <2>1. reads' = [[reads EXCEPT !.count = @ + 1] EXCEPT !.last = [by |-> n, of |-> c, header |-> 0, meta |-> 0]]
          /\ queue' = queue
      BY <1>6 DEF C!HandleGetCspInfo
    <2>2. ReadsType /\ reads'.last = [by |-> n, of |-> c, header |-> 0, meta |-> 0]
      <3>1. [by |-> n, of |-> c, header |-> 0, meta |-> 0] \in LastType
        BY <1>1 DEF LastType
      <3>2. reads \in [count : Int, last : LastType]
        BY <1>1 DEF CspTypes, LastType
      <3> HIDE DEF n, c
      <3> QED BY <2>1, <3>1, <3>2, ReadsMove, Zenon DEF ReadsType, LastType
    <2>3. navs[c].doc \in {0, c}
      BY <1>3 DEF CspInv, Begun
    <2>4. Answered'
      <3>1. n <= Len(navs')
        BY <1>2, <1>3, <1>1, NavFacts
      <3>2. n # c
        BY <1>6, <2>3
      <3> QED BY <2>2, <3>1, <3>2 DEF Answered, C!OwnInfo, C!WholeInfo
    <2> QED BY <1>2, <1>4, <1>5, <2>1, <2>2, <2>4, Still, QuietStep
  <1>7. CASE ~(browser.ids /\ c # 0 /\ navs[c].doc \notin {0, n})
    <2> DEFINE q == [kind |-> "read", n |-> c, frame |-> f, by |-> n, got |-> FALSE]
    <2>1. reads' = [reads EXCEPT !.count = @ + 1] /\ queue' = Append(queue, q)
      BY <1>7 DEF C!HandleGetCspInfo, C!Enqueue, C!Enqueued
    <2>2. ReadsType /\ reads'.last = reads.last
      <3>1. reads \in [count : Int, last : LastType] /\ reads.last \in LastType
        BY <1>1 DEF CspTypes, LastType
      <3> QED BY <2>1, <3>1, ReadsMove, Zenon DEF ReadsType, LastType
    <2> PICK r \in OpType : r = q
      BY <1>1, NewOpType
    <2>3. r.kind = "read" /\ r.n = c /\ r.frame = f /\ r.by = n /\ ~r.got
      OBVIOUS
    <2>9. queue' = Append(queue, r)
      BY <2>1
    <2> HIDE DEF q
    <2>4. OpFits(r)'
      BY <1>1, <1>2, <1>3, <2>3 DEF OpFits, C!Navigation
    <2>5. ASSUME NEW i \in DOMAIN queue
          PROVE  InTurn(queue[i], r, i, Len(queue) + 1) /\ InTurn(r, queue[i], Len(queue) + 1, i)
      <3>1. i < Len(queue) + 1
        BY <1>1, LenProperties DEF CspTypes
      <3> QED BY <3>1, <2>3 DEF InTurn
    <2>6. Answered'
      BY <1>4, <2>2, AnsweredKept
    <2>7. Unhurried(r)
      BY <1>2, Still
    <2>8. r.kind # "purge" /\ r.kind # "meta"
      BY <2>3
    <2> QED BY <1>2, <1>4, <1>5, <2>9, <2>2, <2>3, <2>4, <2>5, <2>6, <2>7, <2>8, AppendStep
  <1> QED BY <1>6, <1>7

LEMMA QueueStays ==
  ASSUME CspInv, NEW Q, Q = queue, queue' = Q, \A i \in DOMAIN Q : OpFits(Q[i])'
  PROVE  Ops' /\ Turns' /\ queue' \in Seq(OpType)
  <1>1. Ops'
    <2> SUFFICES ASSUME NEW i \in DOMAIN queue' PROVE OpFits(queue[i])' /\ (i > 1 => ~queue'[i].got)
      BY DEF Ops
    <2>1. OpFits(Q[i])' /\ Q[i] = queue'[i]
      OBVIOUS
    <2> QED BY <2>1 DEF OpFits, CspInv, Ops
  <1> QED BY <1>1 DEF CspInv, CspTypes, Turns, InTurn

LEMMA Queued ==
  ASSUME CspInv
  PROVE  /\ Len(queue) \in Nat /\ DOMAIN queue = 1..Len(queue)
         /\ \A i \in DOMAIN queue : i \in Nat /\ i >= 1 /\ i <= Len(queue) /\ queue[i] \in OpType /\ OpFits(queue[i])
         /\ queue # <<>> => 1 \in DOMAIN queue
  <1>1. Len(queue) \in Nat /\ DOMAIN queue = 1..Len(queue) /\ (queue # <<>> => Len(queue) # 0)
    BY LenProperties, EmptySeq DEF CspInv, CspTypes
  <1>2. \A i \in 1..Len(queue) : queue[i] \in OpType
    BY ElementOfSeq DEF CspInv, CspTypes
  <1> QED BY <1>1, <1>2 DEF CspInv, Ops

\* A navigation begins: its generation follows those of its frame.
LEMMA BeginNavigationKeeps ==
  ASSUME CspInv, NEW f \in Frame, NEW o \in Origin, NEW p \in Policy, C!BeginNavigation(f, o, p)
  PROVE  CspInv'
  <1>1. CspTypes /\ Len(navs) \in Nat /\ C!Navigation = 1..Len(navs)
    BY NavFacts DEF CspInv
  <1> PICK N : N = Len(navs) + 1
    OBVIOUS
  <1>2. /\ ~tab.closed /\ current' = [current EXCEPT ![f] = N]
        /\ queue' = Append(queue, [kind |-> "clear", n |-> N, frame |-> f, by |-> tab.doc[f], got |-> FALSE])
        /\ session' = session /\ tab' = tab /\ reads' = reads /\ browser' = browser
        /\ navs' = Append(navs, [C!Request(f, o, p, TRUE, "sent") EXCEPT !.gen = C!Generation(f)])
    BY DEF C!BeginNavigation, C!Enqueue, C!Enqueued
  <1>3. C!Generation(f) \in Nat /\ C!Generation(f) > 0
    BY <1>1, NavFacts, SMTT(30) DEF C!Generation, CspInv, CspTypes, Tracked
  <1> PICK r : r = [C!Request(f, o, p, TRUE, "sent") EXCEPT !.gen = C!Generation(f)]
    OBVIOUS
  <1>4. /\ r \in NavType /\ r.frame = f /\ r.origin = o /\ r.policy = p /\ r.seen = TRUE /\ r.st = "sent"
        /\ r.gen = C!Generation(f) /\ r.doc = 0
    BY <1>3 DEF C!Request, NavType, Status
  <1>5. /\ navs' \in Seq(NavType) /\ Len(navs') = N /\ C!Navigation' = C!Navigation \cup {N}
        /\ \A m \in C!Navigation : navs'[m] = navs[m] /\ m < N /\ m \in Nat /\ m >= 1
        /\ navs'[N] = r /\ N \in Nat /\ N > 0 /\ N \notin C!Navigation
    BY <1>1, <1>2, <1>4, Appended DEF C!Navigation, CspTypes
  <1>6. /\ current' \in [Frame -> Nat] /\ \A g \in Frame : current'[g] = IF g = f THEN N ELSE current[g]
    BY <1>1, <1>2, <1>5 DEF CspTypes
  <1>7. \A m \in C!Navigation : C!Found(m)' => C!Found(m) /\ navs[m].frame # f
    <2> SUFFICES ASSUME NEW m \in C!Navigation, C!Found(m)' PROVE C!Found(m) /\ navs[m].frame # f
      OBVIOUS
    <2>1. current'[navs[m].frame] = m /\ m # N /\ navs[m].frame \in Frame
      BY <1>1, <1>5, NavFacts DEF C!Found
    <2> QED BY <2>1, <1>6 DEF C!Found
  <1>8. Tracked'
    <2>1. \A g \in Frame : current'[g] # 0 =>
            current'[g] \in C!Navigation' /\ navs'[current'[g]].frame = g /\ navs'[current'[g]].gen > 0
      <3> SUFFICES ASSUME NEW g \in Frame, current'[g] # 0
                   PROVE  current'[g] \in C!Navigation' /\ navs'[current'[g]].frame = g /\ navs'[current'[g]].gen > 0
        OBVIOUS
      <3>1. CASE g = f
        <4>1. current'[g] = N /\ N \in C!Navigation' /\ navs'[N] = r /\ r.frame = f /\ r.gen > 0
          BY <3>1, <1>3, <1>4, <1>5, <1>6
        <4> QED BY <4>1, <3>1
      <3>2. CASE g # f
        <4>1. current'[g] = current[g] /\ current[g] \in C!Navigation
              /\ navs[current[g]].frame = g /\ navs[current[g]].gen > 0
          BY <3>2, <1>6 DEF CspInv, Tracked
        <4> QED BY <4>1, <1>5
      <3> QED BY <3>1, <3>2
    <2>2. \A m \in C!Navigation' : navs'[m].seen \/ navs'[m].st # "sent" => m <= current'[navs'[m].frame]
      <3> SUFFICES ASSUME NEW m \in C!Navigation', navs'[m].seen \/ navs'[m].st # "sent"
                   PROVE  m <= current'[navs'[m].frame]
        OBVIOUS
      <3>1. CASE m = N
        <4>1. current'[f] = N /\ navs'[N].frame = f
          BY <1>4, <1>5, <1>6
        <4>2. current'[navs'[m].frame] = N
          BY <4>1, <3>1, Zenon
        <4> QED BY <4>2, <3>1, <1>5
      <3>2. CASE m \in C!Navigation
        <4>1. navs'[m] = navs[m] /\ navs[m].frame \in Frame /\ m < N /\ m \in Nat
          BY <3>2, <1>1, <1>5, NavFacts
        <4>2. m <= current[navs[m].frame]
          BY <4>1, <3>2, <1>2 DEF CspInv, Tracked
        <4> QED BY <4>1, <4>2, <1>5, <1>6
      <3> QED BY <3>1, <3>2, <1>5
    <2> QED BY <2>1, <2>2 DEF Tracked
  <1>9. Begun'
    <2>1. \A m \in C!Navigation : Named(m)' <=> Named(m)
      BY <1>2, <1>5 DEF Named
    <2> SUFFICES ASSUME NEW n \in C!Navigation'
                 PROVE  /\ n = 1 \/ navs'[n].seen
                        /\ navs'[n].gen > 0 => navs'[n].seen \/ navs'[n].st # "sent"
                        /\ navs'[n].doc \in {0, n}
                        /\ navs'[n].st \in {"headers", "storing"} => Named(n)'
                        /\ navs'[n].st # "sent" /\ C!Found(n)' => navs'[n].st # "untracked" /\ Named(n)'
      BY DEF Begun
    <2>2. CASE n \in C!Navigation
      BY <2>1, <2>2, <1>5, <1>7 DEF CspInv, Begun
    <2>3. CASE n = N
      BY <2>3, <1>4, <1>5
    <2> QED BY <2>2, <2>3, <1>5
  <1>10. Generations'
    <2>1. ASSUME NEW m \in C!Navigation, navs[m].frame = f, navs[m].gen > 0 PROVE navs[m].gen < r.gen
      <3>1. m <= current[f] /\ current[f] # 0 /\ current[f] \in C!Navigation
            /\ navs[current[f]].frame = f /\ navs[current[f]].gen > 0
        BY <1>1, <1>2, <1>5, <2>1, NavFacts DEF CspInv, Begun, Tracked
      <3>2. ASSUME NEW k \in C!Navigation, m <= k, navs[k].frame = f, navs[k].gen > 0
            PROVE  navs[m].gen <= navs[k].gen
        <4>1. m \in Nat /\ k \in Nat /\ navs[m].gen \in Nat /\ navs[k].gen \in Nat
          BY <1>1, <2>1, <3>2, NavFacts
        <4>2. CASE m = k
          BY <4>1, <4>2
        <4>3. CASE m # k
          <5>1. m < k
            BY <3>2, <4>1, <4>3
          <5>2. navs[m].gen < navs[k].gen
            BY <2>1, <3>2, <5>1 DEF CspInv, Generations
          <5> QED BY <4>1, <5>2
        <4> QED BY <4>2, <4>3
      <3>3. navs[m].gen <= navs[current[f]].gen
        BY <3>1, <3>2
      <3> QED BY <1>1, <1>4, <3>1, <3>3, NavFacts DEF C!Generation
    <2> SUFFICES ASSUME NEW m \in C!Navigation', NEW n \in C!Navigation', m < n,
                        navs'[m].frame = navs'[n].frame, navs'[m].gen > 0, navs'[n].gen > 0
                 PROVE  navs'[m].gen < navs'[n].gen
      BY DEF Generations
    <2>2. m \in C!Navigation
      BY <1>5, <1>1
    <2>3. CASE n \in C!Navigation
      BY <2>2, <2>3, <1>5 DEF CspInv, Generations
    <2>4. CASE n = N
      BY <2>1, <2>2, <2>4, <1>4, <1>5, ZenonT(40)
    <2> QED BY <2>3, <2>4, <1>5
  <1>11. Documents'
    <2> SUFFICES ASSUME NEW g \in Frame, tab.doc[g] # 0
                 PROVE  /\ tab.doc[g] \in C!Navigation' /\ tab.doc[g] <= current'[g]
                        /\ navs'[tab.doc[g]].frame = g /\ navs'[tab.doc[g]].st = "delivered"
      BY <1>2 DEF Documents
    <2>1. /\ tab.doc[g] \in C!Navigation /\ tab.doc[g] <= current[g]
          /\ navs[tab.doc[g]].frame = g /\ navs[tab.doc[g]].st = "delivered"
      BY DEF CspInv, Documents
    <2> QED BY <2>1, <1>5, <1>6
  <1> PICK Q : Q = queue
    OBVIOUS
  <1> PICK q \in OpType : q = [kind |-> "clear", n |-> N, frame |-> f, by |-> tab.doc[f], got |-> FALSE]
    BY <1>5, NewOpType
  <1>12. q.kind = "clear" /\ q.n = N /\ q.frame = f /\ ~q.got /\ queue' = Append(Q, q)
    BY <1>2
  <1>13. \A i \in DOMAIN Q : OpFits(Q[i])'
    <2> SUFFICES ASSUME NEW s \in OpType, OpFits(s) PROVE OpFits(s)'
      BY Queued
    <2>1. /\ s.kind = "clear" /\ C!Found(s.n)' => navs'[s.n].st \in Pending
          /\ s.kind = "store" => navs'[s.n].st = "storing"
          /\ s.kind = "meta" => navs'[s.n].st = "delivered" /\ navs'[s.n].seen /\ "meta" \in navs'[s.n].policy
      BY <1>5, <1>7 DEF OpFits
    <2>2. s.kind = "read" =>
            /\ s.by \in C!Navigation' /\ s.by <= s.n
            /\ navs'[s.by].frame = s.frame /\ navs'[s.by].st = "delivered"
            /\ s.n <= current'[s.frame] \/ current'[s.frame] = 0
      <3>1. s.frame \in Frame
        BY DEF OpType
      <3> QED BY <1>5, <1>6, <3>1, SMTT(30) DEF OpFits
    <2>3. (s.kind = "purge" => tab'.closed)
          /\ (s.kind # "purge" => s.n \in C!Navigation' /\ s.frame = navs'[s.n].frame)
      BY <1>2, <1>5 DEF OpFits
    <2> QED BY <2>1, <2>2, <2>3 DEF OpFits
  <1>14. OpFits(q)'
    BY <1>4, <1>5, <1>12 DEF OpFits, Pending
  <1>15. \A i \in DOMAIN Q : InTurn(Q[i], q, i, Len(Q) + 1) /\ InTurn(q, Q[i], Len(Q) + 1, i)
    <2> SUFFICES ASSUME NEW i \in DOMAIN Q PROVE InTurn(Q[i], q, i, Len(Q) + 1) /\ InTurn(q, Q[i], Len(Q) + 1, i)
      OBVIOUS
    <2>1. Q[i].kind = "store" => Q[i].n # N
      BY Queued, <1>5 DEF OpFits
    <2> QED BY <2>1, <1>12 DEF InTurn
  <1>16. /\ queue' \in Seq(OpType) /\ Ops' /\ Turns'
         /\ DOMAIN queue' = 1..(Len(Q) + 1) /\ DOMAIN Q = 1..Len(Q) /\ Len(Q) \in Nat
         /\ \A i \in 1..Len(Q) : queue'[i] = Q[i] /\ Q[i] \in OpType
         /\ queue'[Len(Q) + 1] = q
         /\ queue' # <<>> /\ (Q # <<>> => queue'[1] = Q[1]) /\ (Q = <<>> => queue'[1] = q)
    <2>1. queue' \in Seq(OpType) /\ Ops' /\ Turns'
      BY <1>12, <1>13, <1>14, <1>15, QueueGrows
    <2>2. /\ DOMAIN queue' = 1..(Len(Q) + 1) /\ DOMAIN Q = 1..Len(Q) /\ Len(Q) \in Nat
          /\ queue'[Len(Q) + 1] = q
          /\ queue' # <<>> /\ (Q # <<>> => queue'[1] = Q[1]) /\ (Q = <<>> => queue'[1] = q)
      BY <1>12, QueueGrows
    <2>3. \A i \in 1..Len(Q) : queue'[i] = Q[i] /\ Q[i] \in OpType
      BY <1>12, QueueGrows
    <2> QED BY <2>1, <2>2, <2>3
  <1>17. CspTypes'
    BY <1>1, <1>2, <1>5, <1>6, <1>16 DEF CspTypes
  <1>18. LateStore'
    <2> SUFFICES ASSUME queue'[1].got, queue'[1].kind = "store",
                        NEW k, k = current'[queue'[1].frame], k \notin {0, queue'[1].n}
                 PROVE  navs'[k].st \in Pending
      BY DEF LateStore
    <2>1. Q # <<>> /\ queue'[1] = Q[1] /\ Q[1] \in OpType
      BY <1>12, <1>16, Queued
    <2>2. CASE Q[1].frame = f
      <3>1. k = N /\ navs'[N] = r /\ r.st = "sent"
        BY <2>1, <2>2, <1>4, <1>5, <1>6
      <3> QED BY <3>1 DEF Pending
    <2>3. CASE Q[1].frame # f
      <3>1. Q[1].frame \in Frame /\ k = current[Q[1].frame]
        BY <2>1, <2>3, <1>6 DEF OpType
      <3>2. navs[k].st \in Pending /\ k \in C!Navigation
        BY <2>1, <3>1 DEF CspInv, LateStore, Tracked
      <3> QED BY <3>2, <1>5
    <2> QED BY <2>2, <2>3
  <1>19. Entries'
    <2> SUFFICES ASSUME NEW g \in Frame, NEW b \in Origin, NEW e \in session[<<g, b>>]
                 PROVE  \E k \in C!Navigation' : Owns(k, g, b, e)'
      BY <1>2 DEF Entries
    <2>1. PICK k \in C!Navigation : Owns(k, g, b, e)
      BY DEF CspInv, Entries
    <2> QED BY <2>1, <1>2, <1>5 DEF Owns, Named
  <1>20. Complete'
    <2> SUFFICES ASSUME browser.failed = 0, NEW k \in C!Navigation', C!Found(k)', navs'[k].st \in {"open", "delivered"}
                 PROVE  Stored(k)'
      BY <1>2 DEF Complete
    <2>1. k \in C!Navigation /\ C!Found(k) /\ navs'[k] = navs[k]
      BY <1>4, <1>5, <1>7
    <2>2. Stored(k)
      BY <2>1 DEF CspInv, Complete
    <2>3. Merged(k)' <=> Merged(k)
      BY <2>1, <1>12, <1>16 DEF Merged
    <2> QED BY <2>1, <2>2, <2>3, <1>2 DEF Stored, HeaderOf, C!Entry
  <1>21. Purged'
    BY <1>2 DEF Purged
  <1>22. Answered'
    <2>1. reads.last.by \in Nat /\ reads.last.by <= Len(navs) /\ C!OwnInfo /\ C!WholeInfo
      BY DEF CspInv, CspTypes, Answered
    <2>2. reads.last.by # 0 => reads.last.by \in C!Navigation /\ navs'[reads.last.by] = navs[reads.last.by]
      BY <2>1, <1>1, <1>5
    <2>3. reads.last.by <= Len(navs') /\ C!OwnInfo'
      BY <2>1, <1>1, <1>2, <1>5 DEF C!OwnInfo
    <2>4. C!WholeInfo'
      BY <2>1, <2>2, <1>2 DEF C!WholeInfo
    <2> QED BY <2>3, <2>4, <1>2 DEF Answered
  <1> QED BY <1>8, <1>9, <1>10, <1>11, <1>16, <1>17, <1>18, <1>19, <1>20, <1>21, <1>22 DEF CspInv

LEMMA TabRemovedKeeps ==
  ASSUME CspInv, C!TabRemoved
  PROVE  CspInv'
  <1>1. CspTypes
    BY DEF CspInv
  <1>2. /\ navs' = navs /\ session' = session /\ reads' = reads /\ browser' = browser
        /\ tab' = [doc |-> [f \in Frame |-> 0], closed |-> TRUE] /\ current' = [f \in Frame |-> 0]
    BY DEF C!TabRemoved
  <1>3. PICK g \in Frame : C!Enqueue("purge", 0, g)
    BY DEF C!TabRemoved
  <1> PICK Q : Q = queue
    OBVIOUS
  <1> PICK q \in OpType : q = [kind |-> "purge", n |-> 0, frame |-> g, by |-> tab.doc[g], got |-> FALSE]
    BY NewOpType
  <1>4. q.kind = "purge" /\ ~q.got /\ queue' = Append(Q, q)
    BY <1>3 DEF C!Enqueue, C!Enqueued
  <1>5. C!Navigation' = C!Navigation /\ \A m \in C!Navigation : m # 0 /\ ~C!Found(m)'
    BY <1>1, <1>2, NavFacts DEF C!Navigation, C!Found
  <1>6. ASSUME NEW s \in OpType, OpFits(s) PROVE OpFits(s)'
    <2>1. s.frame \in Frame
      BY DEF OpType
    <2> QED BY <1>2, <1>5, <1>6, <2>1 DEF OpFits
  <1>7. \A i \in DOMAIN Q : OpFits(Q[i])'
    BY <1>6, Queued
  <1>8. OpFits(q)'
    BY <1>2, <1>4 DEF OpFits
  <1>9. \A i \in DOMAIN Q : InTurn(Q[i], q, i, Len(Q) + 1) /\ InTurn(q, Q[i], Len(Q) + 1, i)
    BY <1>4 DEF InTurn
  <1>10. /\ queue' \in Seq(OpType) /\ Ops' /\ Turns'
         /\ DOMAIN queue' = 1..(Len(Q) + 1) /\ Len(Q) \in Nat
         /\ queue'[Len(Q) + 1] = q
         /\ queue' # <<>> /\ (Q # <<>> => queue'[1] = Q[1]) /\ (Q = <<>> => queue'[1] = q)
    BY <1>4, <1>7, <1>8, <1>9, QueueGrows
  <1>11. CspTypes'
    BY <1>1, <1>2, <1>10 DEF CspTypes
  <1>12. Tracked' /\ Documents' /\ Complete'
    BY <1>2, <1>5 DEF Tracked, Documents, Complete
  <1>13. Begun'
    BY <1>2, <1>5 DEF CspInv, Begun, Named
  <1>14. Generations' /\ Entries'
    BY <1>2, <1>5 DEF CspInv, Generations, Entries, Owns, Named
  <1>15. LateStore'
    <2>1. queue'[1] \in OpType
      BY <1>10, Queued
    <2> QED BY <2>1, <1>2 DEF LateStore, OpType
  <1>16. Purged'
    <2>1. Len(Q) + 1 \in DOMAIN queue'
      BY <1>10
    <2> QED BY <2>1, <1>4, <1>10 DEF Purged
  <1>17. Answered'
    BY <1>2 DEF CspInv, Answered, C!OwnInfo, C!WholeInfo
  <1> QED BY <1>10, <1>11, <1>12, <1>13, <1>14, <1>15, <1>16, <1>17 DEF CspInv

\* The headers of a response: it is tracked from here on, or not at all.
LEMMA HeadersReceivedKeeps ==
  ASSUME CspInv, NEW n \in C!Navigation, C!HeadersReceived(n)
  PROVE  CspInv'
  <1> PICK f \in Frame : f = navs[n].frame
    BY NavFacts DEF CspInv
  <1>1. /\ CspTypes /\ Len(navs) \in Nat /\ C!Navigation = 1..Len(navs) /\ n \in Nat /\ n > 0
        /\ current[f] \in Nat
    BY NavFacts DEF CspInv
  <1>2. /\ ~tab.closed /\ navs[n].st = "sent"
        /\ session' = session /\ tab' = tab /\ reads' = reads /\ browser' = browser
        /\ navs' = [navs EXCEPT ![n] =
             [navs[n] EXCEPT !.st = IF C!Found(n) \/ C!Begins(n) THEN "headers" ELSE "untracked",
                       !.gen = IF C!Begins(n) THEN C!Generation(f) ELSE navs[n].gen,
                       !.doc = IF (C!Found(n) \/ C!Begins(n)) /\ browser.ids THEN n ELSE 0]]
        /\ current' = IF C!Begins(n) THEN [current EXCEPT ![f] = n] ELSE current
        /\ IF C!Begins(n)
           THEN queue' = Append(queue, [kind |-> "clear", n |-> n, frame |-> f, by |-> tab.doc[f], got |-> FALSE])
           ELSE queue' = queue
    <2>1. navs' = [navs EXCEPT ![n] =
             [navs[n] EXCEPT !.st = IF C!Found(n) \/ C!Begins(n) THEN "headers" ELSE "untracked",
                       !.gen = IF C!Begins(n) THEN C!Generation(f) ELSE navs[n].gen,
                       !.doc = IF (C!Found(n) \/ C!Begins(n)) /\ browser.ids THEN n ELSE 0]]
      BY Zenon DEF C!HeadersReceived
    <2> QED BY <2>1 DEF C!HeadersReceived, C!Enqueue, C!Enqueued
  <1>3. /\ C!Found(n) <=> current[f] = n
        /\ C!Begins(n) <=> current[f] = 0
    BY DEF C!Found, C!Begins
  <1> PICK tracked : tracked = (C!Found(n) \/ C!Begins(n))
    OBVIOUS
  <1> PICK r : r = [navs[n] EXCEPT
             !.st = IF C!Found(n) \/ C!Begins(n) THEN "headers" ELSE "untracked",
             !.gen = IF C!Begins(n) THEN C!Generation(f) ELSE navs[n].gen,
             !.doc = IF (C!Found(n) \/ C!Begins(n)) /\ browser.ids THEN n ELSE 0]
    OBVIOUS
  <1>4. navs[n] \in NavType
    BY <1>1, NavFacts
  <1>5. /\ r \in NavType /\ r.frame = f /\ r.origin = navs[n].origin /\ r.policy = navs[n].policy
        /\ r.seen = navs[n].seen
        /\ r.st = IF tracked THEN "headers" ELSE "untracked"
        /\ r.gen = IF C!Begins(n) THEN 1 ELSE navs[n].gen
        /\ r.doc = IF tracked /\ browser.ids THEN n ELSE 0
    <2>1. C!Begins(n) => C!Generation(f) = 1
      BY <1>3 DEF C!Generation
    <2>2. PICK st \in Status : st = IF tracked THEN "headers" ELSE "untracked"
      BY DEF Status
    <2>3. PICK gen \in Nat : gen = IF C!Begins(n) THEN 1 ELSE navs[n].gen
      BY <1>4 DEF NavType
    <2>4. PICK doc \in Nat : doc = IF tracked /\ browser.ids THEN n ELSE 0
      BY <1>1
    <2>5. r = [navs[n] EXCEPT !.st = st, !.gen = gen, !.doc = doc]
      BY <2>1, <2>2, <2>3, <2>4
    <2>6. \A v \in NavType : LET s == [v EXCEPT !.st = st, !.gen = gen, !.doc = doc] IN
            /\ s \in NavType /\ s.frame = v.frame /\ s.origin = v.origin /\ s.policy = v.policy
            /\ s.seen = v.seen /\ s.st = st /\ s.gen = gen /\ s.doc = doc
      BY DEF NavType
    <2>7. /\ r \in NavType /\ r.frame = navs[n].frame /\ r.origin = navs[n].origin /\ r.policy = navs[n].policy
          /\ r.seen = navs[n].seen /\ r.st = st /\ r.gen = gen /\ r.doc = doc
      <3>1. LET s == [navs[n] EXCEPT !.st = st, !.gen = gen, !.doc = doc] IN
              /\ s \in NavType /\ s.frame = navs[n].frame /\ s.origin = navs[n].origin /\ s.policy = navs[n].policy
              /\ s.seen = navs[n].seen /\ s.st = st /\ s.gen = gen /\ s.doc = doc
        BY <1>4, <2>6, Zenon
      <3> QED BY <3>1, <2>5, Zenon
    <2> QED BY <2>2, <2>3, <2>4, <2>7
  <1>6. /\ navs' \in Seq(NavType) /\ Len(navs') = Len(navs) /\ C!Navigation' = C!Navigation
        /\ \A m \in C!Navigation : navs'[m] = IF m = n THEN r ELSE navs[m]
        /\ \A m \in C!Navigation : m \in Nat /\ m > 0 /\ m <= Len(navs) /\ navs[m].frame \in Frame
    <2>0. navs' = [navs EXCEPT ![n] = r]
      BY <1>2, Zenon
    <2>1. navs' = [navs EXCEPT ![n] = r] /\ navs \in Seq(NavType) /\ n \in 1..Len(navs)
      BY <2>0, <1>1 DEF CspTypes
    <2>2. navs' \in Seq(NavType) /\ Len(navs') = Len(navs)
      BY <2>1, <1>5, ExceptSeq
    <2>3. \A m \in C!Navigation : navs'[m] = IF m = n THEN r ELSE navs[m]
      BY <2>1, <1>1, NavFacts
    <2> QED BY <1>1, <2>2, <2>3, NavFacts DEF C!Navigation
  <1>7. /\ current' \in [Frame -> Nat]
        /\ \A g \in Frame : current'[g] = IF g = f /\ C!Begins(n) THEN n ELSE current[g]
    BY <1>1, <1>2 DEF CspTypes
  <1>8. \A m \in C!Navigation : C!Found(m)' => IF m = n THEN tracked ELSE C!Found(m)
    <2> SUFFICES ASSUME NEW m \in C!Navigation, C!Found(m)' PROVE IF m = n THEN tracked ELSE C!Found(m)
      OBVIOUS
    <2>1. current'[navs'[m].frame] = m
      BY DEF C!Found
    <2>2. CASE m = n
      <3>1. navs'[n] = r /\ r.frame = f
        BY <1>5, <1>6
      <3>2. current'[f] = n
        BY <2>1, <2>2, <3>1, Zenon
      <3> QED BY <2>2, <3>2, <1>3, <1>7
    <2>3. CASE m # n
      BY <2>1, <2>3, <1>6, <1>7 DEF C!Found
    <2> QED BY <2>2, <2>3
  <1>9. \* nobody of the frame was tracked before the first one is
        C!Begins(n) => \A m \in C!Navigation : navs[m].frame = f => ~navs[m].seen /\ navs[m].st = "sent" /\ navs[m].gen = 0
    <2> SUFFICES ASSUME C!Begins(n), NEW m \in C!Navigation, navs[m].frame = f
                 PROVE  ~navs[m].seen /\ navs[m].st = "sent" /\ navs[m].gen = 0
      OBVIOUS
    <2>1. ~navs[m].seen /\ navs[m].st = "sent"
      BY <1>2, <1>3, <1>6 DEF CspInv, Tracked
    <2> QED BY <2>1, <1>1, NavFacts DEF CspInv, Begun
  <1>10. ~tracked => n <= current[f]
    <2> SUFFICES ASSUME ~tracked PROVE n <= current[f]
      OBVIOUS
    <2>1. current[f] # 0
      BY <1>3
    <2>2. n = 1 \/ navs[n].seen
      BY DEF CspInv, Begun
    <2> QED BY <2>1, <2>2, <1>1, <1>2 DEF CspInv, Tracked
  <1>11. Tracked'
    <2>1. \A g \in Frame : current'[g] # 0 =>
            current'[g] \in C!Navigation' /\ navs'[current'[g]].frame = g /\ navs'[current'[g]].gen > 0
      <3> SUFFICES ASSUME NEW g \in Frame, current'[g] # 0
                   PROVE  current'[g] \in C!Navigation /\ navs'[current'[g]].frame = g /\ navs'[current'[g]].gen > 0
        BY <1>6
      <3>1. CASE g = f /\ C!Begins(n)
        <4>1. current'[g] = n /\ navs'[n] = r /\ r.gen = 1 /\ r.frame = f
          BY <3>1, <1>5, <1>6, <1>7
        <4> QED BY <4>1, <3>1
      <3>2. CASE ~(g = f /\ C!Begins(n))
        <4>1. current'[g] = current[g] /\ current[g] \in C!Navigation
              /\ navs[current[g]].frame = g /\ navs[current[g]].gen > 0
          BY <3>2, <1>7 DEF CspInv, Tracked
        <4>2. current[g] = n => ~C!Begins(n)
          BY <4>1, <3>2
        <4>3. navs'[current[g]].frame = navs[current[g]].frame /\ navs'[current[g]].gen = navs[current[g]].gen
          BY <4>1, <4>2, <1>5, <1>6
        <4> QED BY <4>1, <4>3
      <3> QED BY <3>1, <3>2
    <2>2. \A m \in C!Navigation' : navs'[m].seen \/ navs'[m].st # "sent" => m <= current'[navs'[m].frame]
      <3> SUFFICES ASSUME NEW m \in C!Navigation, navs'[m].seen \/ navs'[m].st # "sent"
                   PROVE  m <= current'[navs'[m].frame]
        BY <1>6
      <3>1. CASE m = n
        <4>1. navs'[m].frame = f
          BY <3>1, <1>5, <1>6
        <4>2. n <= current'[f]
          <5>1. CASE C!Begins(n)
            BY <5>1, <1>1, <1>7
          <5>2. CASE ~C!Begins(n) /\ C!Found(n)
            BY <5>2, <1>1, <1>3, <1>7
          <5>3. CASE ~C!Begins(n) /\ ~C!Found(n)
            BY <5>3, <1>7, <1>10
          <5> QED BY <5>1, <5>2, <5>3
        <4> QED BY <4>1, <4>2, <3>1
      <3>2. CASE m # n
        <4>1. navs'[m] = navs[m] /\ m <= current[navs[m].frame] /\ m > 0 /\ m \in Nat
          BY <3>2, <1>2, <1>6 DEF CspInv, Tracked
        <4>2. current'[navs[m].frame] = current[navs[m].frame]
          BY <4>1, <1>3, <1>6, <1>7
        <4> QED BY <4>1, <4>2
      <3> QED BY <3>1, <3>2
    <2> QED BY <2>1, <2>2 DEF Tracked
  <1>12. Begun'
    <2> SUFFICES ASSUME NEW m \in C!Navigation
                 PROVE  /\ m = 1 \/ navs'[m].seen
                        /\ navs'[m].gen > 0 => navs'[m].seen \/ navs'[m].st # "sent"
                        /\ navs'[m].doc \in {0, m}
                        /\ navs'[m].st \in {"headers", "storing"} => Named(m)'
                        /\ navs'[m].st # "sent" /\ C!Found(m)' => navs'[m].st # "untracked" /\ Named(m)'
      BY <1>6 DEF Begun
    <2>1. CASE m = n
      <3>1. navs'[m] = r /\ r.st # "sent" /\ r.doc \in {0, m}
        BY <2>1, <1>5, <1>6
      <3>2. m = 1 \/ r.seen
        BY <2>1, <1>5 DEF CspInv, Begun
      <3>3. tracked => r.gen > 0
        <4>1. current[f] = n => navs[n].gen > 0
          BY <1>1 DEF CspInv, Tracked
        <4> QED BY <4>1, <1>3, <1>5
      <3>4. tracked => Named(m)'
        BY <3>1, <3>3, <2>1, <1>2, <1>5 DEF Named
      <3>5. r.st \in {"headers", "storing"} => tracked
        BY <1>5
      <3>6. C!Found(m)' => tracked /\ r.st # "untracked"
        BY <2>1, <1>5, <1>8
      <3> QED BY <3>1, <3>2, <3>4, <3>5, <3>6
    <2>2. CASE m # n
      <3>1. navs'[m] = navs[m] /\ (C!Found(m)' => C!Found(m)) /\ (Named(m)' <=> Named(m))
        BY <2>2, <1>2, <1>6, <1>8 DEF Named
      <3> QED BY <3>1 DEF CspInv, Begun
    <2> QED BY <2>1, <2>2
  <1>13. Generations'
    <2> SUFFICES ASSUME NEW a \in C!Navigation, NEW b \in C!Navigation, a < b,
                        navs'[a].frame = navs'[b].frame, navs'[a].gen > 0, navs'[b].gen > 0
                 PROVE  navs'[a].gen < navs'[b].gen
      BY <1>6 DEF Generations
    <2>1. navs'[a].frame = navs[a].frame /\ navs'[b].frame = navs[b].frame
      BY <1>5, <1>6
    <2>2. CASE ~C!Begins(n)
      <3>1. navs'[a].gen = navs[a].gen /\ navs'[b].gen = navs[b].gen
        BY <2>2, <1>5, <1>6
      <3> QED BY <2>1, <3>1 DEF CspInv, Generations
    <2>3. CASE C!Begins(n) /\ a # n /\ b # n
      BY <2>1, <2>3, <1>6 DEF CspInv, Generations
    <2>4. CASE C!Begins(n) /\ a = n /\ b # n
      <3>1. navs'[b] = navs[b] /\ navs[b].frame = f
        BY <2>1, <2>4, <1>6
      <3> QED BY <2>4, <3>1, <1>9
    <2>5. CASE C!Begins(n) /\ b = n /\ a # n
      BY <2>1, <2>5, <1>6, <1>9
    <2>6. a # n \/ b # n
      BY <1>6
    <2> QED BY <2>2, <2>3, <2>4, <2>5, <2>6
  <1>14. Documents'
    <2> SUFFICES ASSUME NEW g \in Frame, tab.doc[g] # 0
                 PROVE  /\ tab.doc[g] \in C!Navigation' /\ tab.doc[g] <= current'[g]
                        /\ navs'[tab.doc[g]].frame = g /\ navs'[tab.doc[g]].st = "delivered"
      BY <1>2 DEF Documents
    <2>1. /\ tab.doc[g] \in C!Navigation /\ tab.doc[g] <= current[g]
          /\ navs[tab.doc[g]].frame = g /\ navs[tab.doc[g]].st = "delivered"
      BY DEF CspInv, Documents
    <2>2. ~(g = f /\ C!Begins(n)) /\ tab.doc[g] # n
      BY <2>1, <1>2, <1>9
    <2> QED BY <2>1, <2>2, <1>6, <1>7
  <1> PICK Q : Q = queue
    OBVIOUS
  <1>15. \A i \in DOMAIN Q : OpFits(Q[i])'
    <2> SUFFICES ASSUME NEW s \in OpType, OpFits(s) PROVE OpFits(s)'
      BY Queued
    <2>1. s.kind = "clear" /\ C!Found(s.n)' => navs'[s.n].st \in Pending
      <3> SUFFICES ASSUME s.kind = "clear", C!Found(s.n)' PROVE navs'[s.n].st \in Pending
        OBVIOUS
      <3>1. s.n \in C!Navigation
        BY DEF OpFits
      <3>2. CASE s.n = n
        BY <3>1, <3>2, <1>5, <1>6, <1>8 DEF Pending
      <3>3. CASE s.n # n
        BY <3>1, <3>3, <1>6, <1>8 DEF OpFits
      <3> QED BY <3>2, <3>3
    <2>2. /\ s.kind = "store" => navs'[s.n].st = "storing"
          /\ s.kind = "meta" => navs'[s.n].st = "delivered" /\ navs'[s.n].seen /\ "meta" \in navs'[s.n].policy
      BY <1>2, <1>6 DEF OpFits
    <2>3. s.kind = "read" =>
            /\ s.by \in C!Navigation' /\ s.by <= s.n
            /\ navs'[s.by].frame = s.frame /\ navs'[s.by].st = "delivered"
            /\ s.n <= current'[s.frame] \/ current'[s.frame] = 0
      <3> SUFFICES ASSUME s.kind = "read"
                   PROVE  /\ s.by \in C!Navigation' /\ s.by <= s.n
                          /\ navs'[s.by].frame = s.frame /\ navs'[s.by].st = "delivered"
                          /\ s.n <= current'[s.frame] \/ current'[s.frame] = 0
        OBVIOUS
      <3>1. /\ s.by \in C!Navigation /\ s.by <= s.n /\ navs[s.by].frame = s.frame
            /\ navs[s.by].st = "delivered" /\ (s.n <= current[s.frame] \/ current[s.frame] = 0)
            /\ s.frame \in Frame
        BY DEF OpFits, OpType
      <3>2. s.by # n /\ ~(s.frame = f /\ C!Begins(n))
        BY <3>1, <1>2, <1>9
      <3> QED BY <3>1, <3>2, <1>6, <1>7
    <2>4. (s.kind = "purge" => tab'.closed)
          /\ (s.kind # "purge" => s.n \in C!Navigation' /\ s.frame = navs'[s.n].frame)
      BY <1>2, <1>5, <1>6 DEF OpFits
    <2> QED BY <2>1, <2>2, <2>3, <2>4 DEF OpFits
  <1>16. /\ queue' \in Seq(OpType) /\ Ops' /\ Turns' /\ LateStore'
         /\ \A k : (\A i \in DOMAIN queue' : ~(queue'[i].kind = "meta" /\ queue'[i].n = k))
                     <=> (\A i \in DOMAIN Q : ~(Q[i].kind = "meta" /\ Q[i].n = k))
    <2>1. ASSUME queue' # <<>>, queue # <<>>, queue'[1] = queue[1] PROVE LateStore'
      <3> SUFFICES ASSUME queue'[1].got, queue'[1].kind = "store",
                          NEW k, k = current'[queue'[1].frame], k \notin {0, queue'[1].n}
                   PROVE  navs'[k].st \in Pending
        BY DEF LateStore
      <3>1. queue[1] \in OpType /\ OpFits(queue[1]) /\ queue[1].frame \in Frame
        BY <2>1, Queued DEF OpType
      <3>2. navs[queue[1].n].st = "storing" /\ queue[1].n \in C!Navigation
            /\ navs[queue[1].n].frame = queue[1].frame
        BY <2>1, <3>1 DEF OpFits
      <3>3. ~(queue[1].frame = f /\ C!Begins(n))
        BY <3>2, <1>9
      <3>4. k = current[queue[1].frame] /\ k \in C!Navigation /\ navs[k].frame = queue[1].frame
        BY <2>1, <3>1, <3>3, <1>7 DEF CspInv, Tracked
      <3>5. navs[k].st \in Pending
        BY <2>1, <3>4 DEF CspInv, LateStore
      <3>6. k = n => tracked
        BY <3>4, <1>3
      <3> QED BY <3>4, <3>5, <3>6, <1>5, <1>6, ZenonT(40) DEF Pending
    <2>2. CASE ~C!Begins(n)
      <3>1. queue' = Q
        BY <2>2, <1>2
      <3>2. queue' \in Seq(OpType) /\ Ops' /\ Turns'
        BY <3>1, <1>15, QueueStays
      <3>3. LateStore'
        BY <2>1, <3>1 DEF LateStore
      <3> QED BY <3>1, <3>2, <3>3
    <2>3. CASE C!Begins(n)
      <3> PICK q \in OpType : q = [kind |-> "clear", n |-> n, frame |-> f, by |-> tab.doc[f], got |-> FALSE]
        BY <1>1, NewOpType
      <3>1. q.kind = "clear" /\ q.n = n /\ q.frame = f /\ ~q.got /\ queue' = Append(Q, q)
        BY <1>2, <2>3
      <3>2. OpFits(q)'
        <4>1. navs'[n].st \in Pending /\ navs'[n].frame = f
          BY <2>3, <1>5, <1>6 DEF Pending
        <4> QED BY <4>1, <3>1, <1>6 DEF OpFits
      <3>3. \A i \in DOMAIN Q : InTurn(Q[i], q, i, Len(Q) + 1) /\ InTurn(q, Q[i], Len(Q) + 1, i)
        <4> SUFFICES ASSUME NEW i \in DOMAIN Q PROVE InTurn(Q[i], q, i, Len(Q) + 1) /\ InTurn(q, Q[i], Len(Q) + 1, i)
          OBVIOUS
        <4>1. Q[i].kind = "store" => Q[i].n # n
          BY Queued, <1>2 DEF OpFits
        <4> QED BY <4>1, <3>1 DEF InTurn
      <3>4. queue' \in Seq(OpType) /\ Ops' /\ Turns'
        BY <3>1, <3>2, <3>3, <1>15, QueueGrows
      <3>5. /\ DOMAIN queue' = 1..(Len(Q) + 1) /\ DOMAIN Q = 1..Len(Q) /\ Len(Q) \in Nat
            /\ queue'[Len(Q) + 1] = q
            /\ queue' # <<>> /\ (Q # <<>> => queue'[1] = Q[1]) /\ (Q = <<>> => queue'[1] = q)
        <4>1. /\ DOMAIN queue' = 1..(Len(Q) + 1) /\ DOMAIN Q = 1..Len(Q) /\ Len(Q) \in Nat
              /\ queue'[Len(Q) + 1] = q
          BY <3>1, <1>1, Appended DEF CspTypes
        <4>2. queue' # <<>> /\ (Q # <<>> => queue'[1] = Q[1]) /\ (Q = <<>> => queue'[1] = q)
          BY <3>1, QueueGrows
        <4> QED BY <4>1, <4>2
      <3>6. \A i \in 1..Len(Q) : queue'[i] = Q[i]
        BY <3>1, <1>1, Appended DEF CspTypes
      <3>7. LateStore'
        <4>1. CASE Q = <<>>
          BY <4>1, <3>1, <3>5 DEF LateStore
        <4>2. CASE Q # <<>>
          BY <4>2, <3>5, <2>1
        <4> QED BY <4>1, <4>2
      <3>8. \A k : (\A i \in DOMAIN queue' : ~(queue'[i].kind = "meta" /\ queue'[i].n = k))
                     <=> (\A i \in DOMAIN Q : ~(Q[i].kind = "meta" /\ Q[i].n = k))
        BY <3>1, <3>5, <3>6
      <3> QED BY <3>4, <3>7, <3>8
    <2> QED BY <2>2, <2>3
  <1>17. CspTypes'
    BY <1>1, <1>2, <1>6, <1>7, <1>16 DEF CspTypes
  <1>18. Entries'
    <2> SUFFICES ASSUME NEW g \in Frame, NEW b \in Origin, NEW e \in session[<<g, b>>]
                 PROVE  \E k \in C!Navigation' : Owns(k, g, b, e)'
      BY <1>2 DEF Entries
    <2>1. PICK k \in C!Navigation : Owns(k, g, b, e)
      BY DEF CspInv, Entries
    <2>2. k # n
      BY <2>1, <1>2 DEF Owns
    <2> QED BY <2>1, <2>2, <1>2, <1>6 DEF Owns, Named
  <1>19. Complete'
    <2> SUFFICES ASSUME browser.failed = 0, NEW k \in C!Navigation, C!Found(k)', navs'[k].st \in {"open", "delivered"}
                 PROVE  Stored(k)'
      BY <1>2, <1>6 DEF Complete
    <2>1. k # n
      <3>1. r.st \notin {"open", "delivered"} /\ navs'[n] = r
        BY <1>5, <1>6
      <3> QED BY <3>1
    <2>2. C!Found(k) /\ navs'[k] = navs[k]
      BY <2>1, <1>6, <1>8
    <2>3. Stored(k)
      BY <2>2 DEF CspInv, Complete
    <2>4. Merged(k)' <=> Merged(k)
      BY <2>2, <1>16 DEF Merged
    <2> QED BY <2>2, <2>3, <2>4, <1>2 DEF Stored, HeaderOf, C!Entry
  <1>20. Purged'
    BY <1>2 DEF Purged
  <1>21. Answered'
    <2>1. reads.last.by \in Nat /\ reads.last.by <= Len(navs) /\ C!OwnInfo /\ C!WholeInfo
      BY DEF CspInv, CspTypes, Answered
    <2>2. reads.last.by # 0 => /\ navs'[reads.last.by].policy = navs[reads.last.by].policy
                               /\ navs'[reads.last.by].seen = navs[reads.last.by].seen
      <3>1. \A m \in C!Navigation : navs'[m].policy = navs[m].policy /\ navs'[m].seen = navs[m].seen
        BY <1>5, <1>6
      <3> QED BY <3>1, <2>1, <1>1
    <2>3. reads.last.by <= Len(navs') /\ C!OwnInfo'
      BY <2>1, <1>2, <1>6 DEF C!OwnInfo
    <2>4. C!WholeInfo'
      BY <2>1, <2>2, <1>2 DEF C!WholeInfo
    <2> QED BY <2>3, <2>4, <1>2 DEF Answered
  <1> QED BY <1>11, <1>12, <1>13, <1>14, <1>16, <1>17, <1>18, <1>19, <1>20, <1>21 DEF CspInv

-----------------------------------------------------------------------------
(* The first operation of the queue *)

\* What is known of it
LEMMA First ==
  ASSUME CspInv, queue # <<>>
  PROVE  /\ C!op = queue[1] /\ queue[1] \in OpType /\ OpFits(queue[1]) /\ 1 \in DOMAIN queue
         /\ queue[1].kind \in {"clear", "store", "meta", "read", "purge"}
         /\ queue[1].frame \in Frame /\ queue[1].n \in Nat /\ queue[1].by \in Nat
         /\ current[queue[1].frame] \in Nat
         /\ queue[1].kind # "purge" =>
              /\ queue[1].n \in C!Navigation /\ queue[1].n > 0 /\ queue[1].frame = navs[queue[1].n].frame
              /\ C!IsCurrent(queue[1].n) <=> current[queue[1].frame] = queue[1].n
  <1>1. queue[1] \in OpType /\ OpFits(queue[1]) /\ 1 \in DOMAIN queue
    BY Queued
  <1>2. C!op = queue[1]
    BY Popped DEF C!op, CspInv, CspTypes
  <1>3. queue[1].kind \in {"clear", "store", "meta", "read", "purge"}
        /\ queue[1].frame \in Frame /\ queue[1].n \in Nat /\ queue[1].by \in Nat
    BY <1>1 DEF OpType
  <1>4. current[queue[1].frame] \in Nat
    BY <1>3 DEF CspInv, CspTypes
  <1>5. queue[1].kind # "purge" =>
          queue[1].n \in C!Navigation /\ queue[1].n > 0 /\ queue[1].frame = navs[queue[1].n].frame
    BY <1>1, NavFacts DEF OpFits, CspInv
  <1>6. queue[1].kind # "purge" => (C!IsCurrent(queue[1].n) <=> current[queue[1].frame] = queue[1].n)
    BY <1>5 DEF C!IsCurrent, C!Found
  <1> QED BY <1>1, <1>2, <1>3, <1>4, <1>5, <1>6

\* In a closed tab nothing but its purge starts.
LEMMA ClosedRests ==
  ASSUME CspInv, queue # <<>>, C!Proceeds, tab.closed
  PROVE  queue[1].kind = "purge"
  BY First DEF C!Proceeds, CspInv, Documents

LEMMA PurgeProceeds ==
  ASSUME CspInv, queue # <<>>, queue[1].kind = "purge"
  PROVE  C!Proceeds /\ tab.closed /\ ~C!HasCurrentFrames
  <1>1. tab.closed
    BY First DEF OpFits
  <1>2. ~C!HasCurrentFrames
    BY <1>1 DEF CspInv, Documents, C!HasCurrentFrames
  <1>3. C!op.kind = "purge"
    BY First
  <1> QED BY <1>1, <1>2, <1>3 DEF C!Proceeds

\* Merges of others that end change nothing for k.
LEMMA MergedKept ==
  ASSUME CspInv, Moved, queue # <<>>, queue' = Tail(queue), NEW k \in C!Navigation,
         ~(queue[1].kind = "meta" /\ queue[1].n = k), navs'[k].st = navs[k].st
  PROVE  Merged(k)' <=> Merged(k)
  <1> PICK Q : Q = queue
    OBVIOUS
  <1>1. /\ \A i \in DOMAIN queue' : i + 1 \in DOMAIN Q /\ i + 1 > 1 /\ queue'[i] = Q[i + 1]
        /\ \A i \in DOMAIN Q : i > 1 => i - 1 \in DOMAIN queue' /\ queue'[i - 1] = Q[i]
        /\ \A i \in DOMAIN Q : i \in Nat /\ i >= 1
    BY QueueShrinks
  <1>2. (\A i \in DOMAIN queue' : ~(queue'[i].kind = "meta" /\ queue'[i].n = k))
          <=> (\A i \in DOMAIN Q : ~(Q[i].kind = "meta" /\ Q[i].n = k))
    <2>1. ASSUME \A i \in DOMAIN queue' : ~(queue'[i].kind = "meta" /\ queue'[i].n = k), NEW i \in DOMAIN Q
          PROVE  ~(Q[i].kind = "meta" /\ Q[i].n = k)
      <3>1. CASE i = 1
        BY <3>1
      <3>2. CASE i > 1
        <4>1. i - 1 \in DOMAIN queue' /\ queue'[i - 1] = Q[i]
          BY <3>2, <1>1
        <4>2. ~(queue'[i - 1].kind = "meta" /\ queue'[i - 1].n = k)
          BY <4>1, <2>1
        <4> QED BY <4>1, <4>2, Zenon
      <3> QED BY <3>1, <3>2, <1>1
    <2>2. ASSUME \A i \in DOMAIN Q : ~(Q[i].kind = "meta" /\ Q[i].n = k), NEW i \in DOMAIN queue'
          PROVE  ~(queue'[i].kind = "meta" /\ queue'[i].n = k)
      BY <2>2, <1>1
    <2> QED BY <2>1, <2>2
  <1> QED BY <1>2 DEF Merged, Moved

\* No purge is left and nothing of a closed tab runs: an operation that runs
\* and is not the purge has it still behind.
LEMMA PurgedBehind ==
  ASSUME CspInv, queue # <<>>, queue' = Tail(queue), queue[1].kind # "purge",
         tab'.closed = tab.closed, browser'.failed = browser.failed,
         queue[1].got \/ session' = session
  PROVE  Purged'
  <1> PICK Q : Q = queue
    OBVIOUS
  <1>1. /\ \A i \in DOMAIN Q : i > 1 => i - 1 \in DOMAIN queue' /\ queue'[i - 1] = Q[i]
        /\ \A i \in DOMAIN Q : i \in Nat /\ i >= 1
        /\ queue' # <<>> => ~queue'[1].got
    BY QueueShrinks
  <1> SUFFICES ASSUME tab.closed, browser.failed = 0, \A i \in DOMAIN queue' : queue'[i].kind # "purge"
               PROVE  (\A k \in DOMAIN session' : session'[k] = {}) /\ (queue' # <<>> => ~queue'[1].got)
    BY DEF Purged
  <1>2. ASSUME NEW i \in DOMAIN Q PROVE Q[i].kind # "purge"
    <2>1. CASE i = 1
      BY <2>1
    <2>2. CASE i > 1
      <3>1. i - 1 \in DOMAIN queue' /\ queue'[i - 1] = Q[i]
        BY <2>2, <1>1
      <3> QED BY <3>1
    <2> QED BY <2>1, <2>2, <1>1
  <1>3. (\A k \in DOMAIN session : session[k] = {}) /\ ~Q[1].got
    BY <1>2 DEF CspInv, Purged
  <1> QED BY <1>1, <1>3

\* An operation that ends without its effect
LEMMA DropMoves ==
  ASSUME CspInv, queue # <<>>, C!Released
  PROVE  /\ Moved /\ Releases(queue[1])
         /\ \A m \in C!Navigation : navs'[m].st = IF queue[1].kind = "store" /\ m = queue[1].n THEN "open" ELSE navs[m].st
  <1>1. CASE queue[1].kind = "store"
    <2>1. navs' = [navs EXCEPT ![queue[1].n].st = "open"]
      BY <1>1, First DEF C!Released
    <2>2. queue[1].n \in C!Navigation /\ navs[queue[1].n].st = "storing"
      BY <1>1, First DEF OpFits
    <2>3. Moved /\ \A m \in C!Navigation : navs'[m].st = IF m = queue[1].n THEN "open" ELSE navs[m].st
      BY <2>1, <2>2, MovedNow DEF Status
    <2> QED BY <2>3, <1>1 DEF Releases
  <1>2. CASE queue[1].kind # "store"
    <2>1. navs' = navs
      BY <1>2, First DEF C!Released
    <2> QED BY <2>1, <1>2, Still
  <1> QED BY <1>1, <1>2

\* What document by is told is of its frame now.
LEMMA ToldType ==
  ASSUME CspInv, queue # <<>>, NEW h \in Nat, NEW m \in Nat,
         reads' = [reads EXCEPT !.last =
                     [by |-> queue[1].by, of |-> current[queue[1].frame], header |-> h, meta |-> m]]
  PROVE  /\ ReadsType
         /\ reads'.last.by = queue[1].by /\ reads'.last.of = current[queue[1].frame]
         /\ reads'.last.header = h /\ reads'.last.meta = m
  <1> PICK l \in LastType : l = [by |-> queue[1].by, of |-> current[queue[1].frame], header |-> h, meta |-> m]
    BY First DEF LastType
  <1>1. reads \in [count : Int, last : LastType]
    BY DEF CspInv, CspTypes, LastType
  <1>2. reads' \in [count : Int, last : LastType] /\ reads'.last = l
    BY <1>1, ReadsMove
  <1>3. l.by = queue[1].by /\ l.of = current[queue[1].frame] /\ l.header = h /\ l.meta = m
    OBVIOUS
  <1> QED BY <1>2, <1>3 DEF ReadsType, LastType

LEMMA ToldNothing ==
  ASSUME CspInv, Moved, SamePlace, queue # <<>>, queue[1].kind = "read",
         C!Told(queue[1].by, queue[1].frame, C!Nothing),
         current[queue[1].frame] # queue[1].n \/ browser'.failed > 0
  PROVE  ReadsType /\ Answered'
  <1>1. /\ ReadsType
        /\ reads'.last.by = queue[1].by /\ reads'.last.of = current[queue[1].frame]
        /\ reads'.last.header = 0 /\ reads'.last.meta = 0
    <2>1. reads' = [reads EXCEPT !.last =
                     [by |-> queue[1].by, of |-> current[queue[1].frame], header |-> 0, meta |-> 0]]
      BY DEF C!Told, C!Nothing
    <2> QED BY <2>1, ToldType
  <1>2. queue[1].by \in C!Navigation /\ queue[1].by <= queue[1].n
        /\ (queue[1].n <= current[queue[1].frame] \/ current[queue[1].frame] = 0)
    BY First DEF OpFits
  <1>3. queue[1].by \in Nat /\ queue[1].by > 0 /\ queue[1].by <= Len(navs')
    BY <1>2, NavFacts DEF CspInv, Moved
  <1>4. reads'.last.by # reads'.last.of \/ browser'.failed > 0
    BY <1>1, <1>2, <1>3, First
  <1>5. C!OwnInfo'
    BY <1>1 DEF C!OwnInfo
  <1>6. C!WholeInfo'
    BY <1>4 DEF C!WholeInfo
  <1> QED BY <1>1, <1>3, <1>5, <1>6 DEF Answered

LEMMA StartKeeps ==
  ASSUME CspInv, C!Start
  PROVE  CspInv'
  <1>1. CspTypes
    BY DEF CspInv
  <1>2. queue # <<>> /\ current' = current /\ tab' = tab /\ browser' = browser /\ session' = session
    BY DEF C!Start, C!Drop
  <1>3. C!op = queue[1] /\ TabType /\ SamePlace /\ browser' \in [ids : BOOLEAN, failed : Nat]
        /\ browser'.failed >= browser.failed /\ session' \in [Frame \X Origin -> SUBSET EntryType]
    BY <1>1, <1>2, First, SameReads DEF SamePlace, CspTypes
  <1>4. CASE C!Proceeds
    <2>1. queue' = [queue EXCEPT ![1].got = TRUE] /\ navs' = navs /\ reads' = reads
      BY <1>4 DEF C!Start
    <2> PICK Q : Q = queue
      OBVIOUS
    <2>2. Moved /\ (\A k \in C!Navigation : navs'[k].st = navs[k].st) /\ ReadsType /\ Unhurried(NoOp)
      BY <2>1, Still, SameReads
    <2>3. \A i \in DOMAIN Q : OpFits(Q[i])'
      <3> SUFFICES ASSUME NEW i \in DOMAIN Q PROVE OpFits(Q[i])'
        OBVIOUS
      <3>1. Q[i] \in OpType /\ OpFits(Q[i])
        BY Queued
      <3>2. ~(navs[Q[i].n].st = "storing" /\ navs'[Q[i].n].st = "open")
        BY <2>1
      <3> QED BY <3>1, <3>2, <1>3, <2>2, FitsMoved
    <2>4. /\ queue' \in Seq(OpType)
          /\ (\A i \in DOMAIN Q : OpFits(Q[i])') => Ops'
          /\ Turns'
          /\ DOMAIN queue' = DOMAIN Q /\ 1 \in DOMAIN Q /\ queue' # <<>>
          /\ \A i \in DOMAIN Q : /\ Q[i] \in OpType
                                 /\ queue'[i].kind = Q[i].kind /\ queue'[i].n = Q[i].n
                                 /\ queue'[i].by = Q[i].by /\ queue'[i].frame = Q[i].frame
                                 /\ i > 1 => queue'[i].got = Q[i].got
      <3>1. queue' = [Q EXCEPT ![1].got = TRUE] /\ Q # <<>>
        BY <1>2, <2>1
      <3>2. queue' \in Seq(OpType) /\ ((\A i \in DOMAIN Q : OpFits(Q[i])') => Ops') /\ Turns'
            /\ DOMAIN queue' = DOMAIN Q /\ 1 \in DOMAIN Q /\ queue' # <<>>
        BY <3>1, QueueStarts
      <3>3. Started(Q)
        BY <3>1, QueueStarts
      <3> QED BY <3>2, <3>3 DEF Started
    <2>5. LateStore'
      <3>1. Q[1].kind = "store" => current[Q[1].frame] = Q[1].n
        BY <1>2, <1>4, First DEF C!Proceeds
      <3>2. queue'[1].kind = Q[1].kind /\ queue'[1].n = Q[1].n /\ queue'[1].frame = Q[1].frame
        BY <2>4
      <3> QED BY <1>2, <3>1, <3>2 DEF LateStore
    <2>6. Purged'
      <3> SUFFICES ASSUME tab.closed, \A i \in DOMAIN queue' : queue'[i].kind # "purge" PROVE FALSE
        BY <1>2 DEF Purged
      <3>1. Q[1].kind = "purge"
        BY <1>2, <1>4, ClosedRests
      <3> QED BY <3>1, <2>4
    <2>7. Complete'
      <3> SUFFICES ASSUME browser.failed = 0, NEW k \in C!Navigation, C!Found(k)', navs'[k].st \in {"open", "delivered"}
                   PROVE  Stored(k)'
        BY <1>2, <2>2, <1>3, MovedKeeps DEF Complete
      <3>1. C!Found(k)
        BY <1>2, <2>1 DEF C!Found
      <3>2. Stored(k)
        BY <3>1, <2>1 DEF CspInv, Complete
      <3>3. Merged(k)' <=> Merged(k)
        BY <2>1, <2>4 DEF Merged
      <3> QED BY <1>2, <2>2, <3>1, <3>2, <3>3, StoredKept
    <2>8. Answered' /\ Entries' /\ CspTypes'
      BY <1>2, <1>3, <2>1, <2>2, <2>4, AnsweredKept, EntriesKept, TypesNow
    <2>9. Tracked' /\ Begun' /\ Generations' /\ Documents'
      BY <1>2, <1>3, <2>2, MovedKeeps
    <2> QED BY <2>3, <2>4, <2>5, <2>6, <2>7, <2>8, <2>9 DEF CspInv
  <1>5. CASE ~C!Proceeds
    <2>1. queue[1].kind # "purge"
      BY <1>2, <1>5, PurgeProceeds
    <2>2. current[queue[1].frame] # queue[1].n
      BY <1>2, <1>5, <2>1, First DEF C!Proceeds
    <2>3. /\ queue' = Tail(queue) /\ C!Released
          /\ \/ queue[1].kind = "read" /\ C!Told(queue[1].by, queue[1].frame, C!Nothing)
             \/ queue[1].kind # "read" /\ reads' = reads
      BY <1>2, <1>3, <1>5 DEF C!Start, C!Drop, C!Done, C!Released
    <2>4. Moved /\ Releases(queue[1])
          /\ \A m \in C!Navigation : navs'[m].st = IF queue[1].kind = "store" /\ m = queue[1].n THEN "open" ELSE navs[m].st
      BY <1>2, <2>3, DropMoves
    <2>5. ReadsType /\ Answered'
      <3>1. CASE queue[1].kind = "read" /\ C!Told(queue[1].by, queue[1].frame, C!Nothing)
        BY <3>1, <1>2, <1>3, <2>2, <2>4, ToldNothing
      <3>2. CASE reads' = reads
        BY <3>2, <1>3, <2>4, SameReads, AnsweredKept
      <3> QED BY <2>3, <3>1, <3>2
    <2>6. Entries'
      BY <1>2, <1>3, <2>4, EntriesKept
    <2>7. Purged'
      BY <1>2, <2>1, <2>3, PurgedBehind
    <2>8. Complete'
      <3> SUFFICES ASSUME browser.failed = 0, NEW k \in C!Navigation, C!Found(k)', navs'[k].st \in {"open", "delivered"}
                   PROVE  Stored(k)'
        BY <1>2, <1>3, <2>4, MovedKeeps DEF Complete
      <3>1. C!Found(k)
        BY <1>2, <2>4 DEF C!Found, Moved
      <3>2. queue[1].n # k
        BY <1>2, <2>1, <2>2, <3>1, First DEF C!Found
      <3>3. Stored(k) /\ navs'[k].st = navs[k].st
        BY <3>1, <3>2, <2>4 DEF CspInv, Complete
      <3>4. Merged(k)' <=> Merged(k)
        BY <1>2, <2>3, <2>4, <3>2, <3>3, MergedKept
      <3> QED BY <1>2, <2>4, <3>1, <3>3, <3>4, StoredKept
    <2> QED BY <1>2, <1>3, <2>3, <2>4, <2>5, <2>6, <2>7, <2>8, TailStep
  <1> QED BY <1>4, <1>5

LEMMA StorageFailsKeeps ==
  ASSUME CspInv, C!StorageFails
  PROVE  CspInv'
  <1>1. CspTypes
    BY DEF CspInv
  <1>2. queue # <<>> /\ current' = current /\ tab' = tab /\ session' = session
        /\ browser' = [browser EXCEPT !.failed = @ + 1]
    BY DEF C!StorageFails, C!Drop
  <1>3. browser' \in [ids : BOOLEAN, failed : Nat] /\ browser'.failed > 0 /\ browser'.failed >= browser.failed
        /\ browser'.ids = browser.ids
    <2>1. \A b \in [ids : BOOLEAN, failed : Nat] : LET c == [b EXCEPT !.failed = @ + 1] IN
            c \in [ids : BOOLEAN, failed : Nat] /\ c.failed > 0 /\ c.failed >= b.failed /\ c.ids = b.ids
      OBVIOUS
    <2>2. browser \in [ids : BOOLEAN, failed : Nat]
      BY <1>1 DEF CspTypes
    <2> QED BY <1>2, <2>1, <2>2, Zenon
  <1>4. C!op = queue[1] /\ TabType /\ SamePlace /\ session' \in [Frame \X Origin -> SUBSET EntryType]
    BY <1>1, <1>2, <1>3, First, SameReads DEF SamePlace, CspTypes
  <1>5. /\ queue' = Tail(queue) /\ C!Released
        /\ \/ queue[1].kind = "read" /\ C!Told(queue[1].by, queue[1].frame, C!Nothing)
           \/ queue[1].kind # "read" /\ reads' = reads
    BY <1>2, <1>4 DEF C!StorageFails, C!Drop, C!Done, C!Released
  <1>6. Moved /\ Releases(queue[1])
    BY <1>2, <1>5, DropMoves
  <1>7. ReadsType /\ Answered'
    <2>1. CASE queue[1].kind = "read" /\ C!Told(queue[1].by, queue[1].frame, C!Nothing)
      BY <2>1, <1>2, <1>3, <1>4, <1>6, ToldNothing
    <2>2. CASE reads' = reads
      BY <2>2, <1>3, <1>4, <1>6, SameReads, AnsweredKept
    <2> QED BY <1>5, <2>1, <2>2
  <1>8. Entries'
    BY <1>2, <1>4, <1>6, EntriesKept
  <1>9. Complete' /\ Purged'
    BY <1>3 DEF Complete, Purged
  <1> QED BY <1>2, <1>3, <1>4, <1>5, <1>6, <1>7, <1>8, <1>9, TailStep

LEMMA ClearKeeps ==
  ASSUME CspInv, C!Act, C!Clear
  PROVE  CspInv'
  <1>1. CspTypes
    BY DEF CspInv
  <1>2. /\ queue # <<>> /\ current' = current /\ tab' = tab /\ browser' = browser /\ navs' = navs
        /\ reads' = reads /\ queue' = Tail(queue) /\ C!op = queue[1] /\ queue[1].got
        /\ queue[1].kind = "clear"
        /\ session' = IF C!IsCurrent(queue[1].n)
                      THEN [k \in DOMAIN session |-> IF k[1] = queue[1].frame THEN {} ELSE session[k]]
                      ELSE session
    BY First DEF C!Act, C!Clear, C!Done
  <1>3. Moved /\ Releases(queue[1]) /\ SamePlace /\ ReadsType
        /\ browser' \in [ids : BOOLEAN, failed : Nat] /\ browser'.failed >= browser.failed
    BY <1>1, <1>2, Still, SameReads DEF SamePlace, CspTypes
  <1>4. session' \in [Frame \X Origin -> SUBSET EntryType]
        /\ \A f \in Frame, o \in Origin :
             /\ session'[<<f, o>>] \subseteq session[<<f, o>>]
             /\ session'[<<f, o>>] # session[<<f, o>>] => C!IsCurrent(queue[1].n) /\ f = queue[1].frame
    <2>1. CASE C!IsCurrent(queue[1].n)
      <3>1. session' = [k \in Frame \X Origin |-> IF k[1] = queue[1].frame THEN {} ELSE session[k]]
        BY <1>1, <1>2, <2>1 DEF CspTypes
      <3>2. \A f \in Frame, o \in Origin :
              session'[<<f, o>>] = IF f = queue[1].frame THEN {} ELSE session[<<f, o>>]
        BY <3>1
      <3> QED BY <1>1, <2>1, <3>1, <3>2 DEF CspTypes
    <2>2. CASE ~C!IsCurrent(queue[1].n)
      BY <1>1, <1>2, <2>2 DEF CspTypes
    <2> QED BY <2>1, <2>2
  <1>5. Entries' /\ Answered' /\ Purged'
    BY <1>2, <1>3, <1>4, EntriesKept, AnsweredKept, PurgedBehind
  <1>6. Complete'
    <2> SUFFICES ASSUME browser.failed = 0, NEW k \in C!Navigation, C!Found(k)', navs'[k].st \in {"open", "delivered"}
                 PROVE  Stored(k)'
      BY <1>2, <1>3, MovedKeeps DEF Complete
    <2>1. C!Found(k) /\ navs[k].st \in {"open", "delivered"} /\ navs[k].frame \in Frame /\ navs[k].origin \in Origin
      BY <1>1, <1>2, NavFacts DEF C!Found
    <2>2. ~(C!IsCurrent(queue[1].n) /\ navs[k].frame = queue[1].frame)
      <3> SUFFICES ASSUME C!IsCurrent(queue[1].n), navs[k].frame = queue[1].frame PROVE FALSE
        OBVIOUS
      <3>1. k = queue[1].n /\ C!Found(queue[1].n)
        BY <1>2, <2>1, First DEF C!Found, C!IsCurrent
      <3>2. navs[queue[1].n].st \in Pending
        BY <1>2, <3>1, First DEF OpFits
      <3> QED BY <2>1, <3>1, <3>2 DEF Pending
    <2>3. session'[<<navs[k].frame, navs[k].origin>>] = session[<<navs[k].frame, navs[k].origin>>]
      BY <1>4, <2>1, <2>2
    <2>4. Stored(k) /\ (Merged(k)' <=> Merged(k))
      BY <1>2, <1>3, <2>1, MergedKept DEF CspInv, Complete
    <2> QED BY <1>3, <2>1, <2>3, <2>4, StoredKept
  <1> QED BY <1>2, <1>3, <1>4, <1>5, <1>6, TailStep

\* One entry takes the place of another.
LEMMA SessionSet ==
  ASSUME CspTypes, NEW n \in C!Navigation, NEW E \in SUBSET EntryType,
         session' = [session EXCEPT ![<<navs[n].frame, navs[n].origin>>] = E]
  PROVE  /\ session' \in [Frame \X Origin -> SUBSET EntryType]
         /\ \A f \in Frame, o \in Origin : session'[<<f, o>>] =
              IF f = navs[n].frame /\ o = navs[n].origin THEN E ELSE session[<<f, o>>]
  <1>1. navs[n].frame \in Frame /\ navs[n].origin \in Origin
    BY NavFacts
  <1> QED BY <1>1 DEF CspTypes

LEMMA EntryOf ==
  ASSUME CspTypes, NEW n \in C!Navigation, NEW h \in Nat, NEW m \in Nat
  PROVE  /\ C!Entry(n, h, m) \in SUBSET EntryType
         /\ \A e \in C!Entry(n, h, m) : e.gen = navs[n].gen /\ e.doc = navs[n].doc /\ e.header = h /\ e.meta = m
  BY NavFacts DEF C!Entry, EntryType

LEMMA StoreKeeps ==
  ASSUME CspInv, C!Act, C!StoreFrameCspInfo
  PROVE  CspInv'
  <1>1. CspTypes
    BY DEF CspInv
  <1> PICK n : n = queue[1].n
    OBVIOUS
  <1>2. /\ queue # <<>> /\ current' = current /\ tab' = tab /\ browser' = browser /\ C!Released
        /\ reads' = reads /\ queue' = Tail(queue) /\ C!op = queue[1] /\ queue[1].got
        /\ queue[1].kind = "store"
        /\ session' = [session EXCEPT ![<<navs[n].frame, navs[n].origin>>] =
                         IF "header" \in navs[n].policy THEN C!Entry(n, n, 0) ELSE {}]
    BY First DEF C!Act, C!StoreFrameCspInfo, C!Done, C!key
  <1>3. n \in C!Navigation /\ n \in Nat /\ n > 0 /\ navs[n].st = "storing" /\ navs[n].frame = queue[1].frame
        /\ navs[n].frame \in Frame /\ navs[n].origin \in Origin
    BY <1>1, <1>2, First, NavFacts DEF OpFits
  <1>4. Moved /\ Releases(queue[1])
        /\ \A m \in C!Navigation : navs'[m].st = IF m = n THEN "open" ELSE navs[m].st
    BY <1>2, DropMoves
  <1>5. SamePlace /\ ReadsType
        /\ browser' \in [ids : BOOLEAN, failed : Nat] /\ browser'.failed >= browser.failed
    BY <1>1, <1>2, SameReads DEF SamePlace, CspTypes
  <1> PICK E : E = IF "header" \in navs[n].policy THEN C!Entry(n, n, 0) ELSE {}
    OBVIOUS
  <1>6. E \in SUBSET EntryType /\ \A e \in E : e.gen = navs[n].gen /\ e.doc = navs[n].doc /\ e.header = n /\ e.meta = 0
    BY <1>1, <1>3, EntryOf
  <1>7. /\ session' \in [Frame \X Origin -> SUBSET EntryType]
        /\ \A f \in Frame, o \in Origin : session'[<<f, o>>] =
             IF f = navs[n].frame /\ o = navs[n].origin THEN E ELSE session[<<f, o>>]
    BY <1>1, <1>2, <1>3, <1>6, SessionSet
  <1>8. Answered' /\ Purged'
    BY <1>2, <1>4, <1>5, AnsweredKept, PurgedBehind
  <1>9. Entries'
    <2> SUFFICES ASSUME NEW f \in Frame, NEW o \in Origin, NEW e \in session'[<<f, o>>]
                 PROVE  \E k \in C!Navigation : Owns(k, f, o, e)'
      BY <1>4, <1>5, MovedKeeps DEF Entries
    <2>1. CASE f = navs[n].frame /\ o = navs[n].origin
      <3>1. e \in E
        BY <2>1, <1>7
      <3>2. Named(n) /\ (Named(n)' <=> Named(n))
        BY <1>3, <1>4, <1>5 DEF CspInv, Begun, Named, Moved, SamePlace
      <3>3. Owns(n, f, o, e)'
        BY <1>3, <1>4, <1>6, <2>1, <3>1, <3>2 DEF Owns, Moved
      <3> QED BY <1>3, <3>3
    <2>2. CASE ~(f = navs[n].frame /\ o = navs[n].origin)
      <3>1. e \in session[<<f, o>>] /\ e \in EntryType
        BY <1>1, <1>7, <2>2 DEF CspTypes
      <3>2. PICK k \in C!Navigation : Owns(k, f, o, e)
        BY <3>1 DEF CspInv, Entries
      <3> QED BY <1>4, <1>5, <3>1, <3>2, MovedKeeps
    <2> QED BY <2>1, <2>2
  <1>10. Complete'
    <2> SUFFICES ASSUME browser.failed = 0, NEW k \in C!Navigation, C!Found(k)', navs'[k].st \in {"open", "delivered"}
                 PROVE  Stored(k)'
      BY <1>2, <1>4, <1>5, MovedKeeps DEF Complete
    <2>1. C!Found(k) /\ navs[k].frame \in Frame /\ navs[k].origin \in Origin
      BY <1>1, <1>2, <1>4, NavFacts DEF C!Found, Moved
    <2>2. CASE k = n
      <3>1. ~Merged(k)'
        BY <2>2, <1>3, <1>4 DEF Merged
      <3>2. session'[<<navs[k].frame, navs[k].origin>>] = E
        BY <2>1, <2>2, <1>7
      <3>3. HeaderOf(k)' = HeaderOf(k) /\ C!Entry(k, k, 0)' = C!Entry(k, k, 0)
            /\ navs'[k].frame = navs[k].frame /\ navs'[k].origin = navs[k].origin
        BY <1>4 DEF HeaderOf, C!Entry, Moved
      <3>4. E = IF HeaderOf(k) # 0 THEN C!Entry(k, k, 0) ELSE {}
        BY <2>2, <1>3 DEF HeaderOf
      <3> QED BY <3>1, <3>2, <3>3, <3>4 DEF Stored
    <2>3. CASE k # n
      <3>1. navs'[k].st = navs[k].st /\ navs[k].st \in {"open", "delivered"}
        BY <2>3, <1>4
      <3>2. navs[k].frame # navs[n].frame
        <4> SUFFICES ASSUME navs[k].frame = navs[n].frame PROVE FALSE
          OBVIOUS
        <4>1. current[queue[1].frame] = k /\ k # 0
          BY <1>1, <1>3, <2>1, NavFacts DEF C!Found
        <4>2. navs[k].st \in Pending
          BY <1>2, <2>3, <4>1 DEF CspInv, LateStore
        <4> QED BY <3>1, <4>2 DEF Pending
      <3>3. session'[<<navs[k].frame, navs[k].origin>>] = session[<<navs[k].frame, navs[k].origin>>]
        BY <2>1, <3>2, <1>7
      <3>4. Stored(k) /\ (Merged(k)' <=> Merged(k))
        BY <1>2, <1>4, <2>1, <3>1, MergedKept DEF CspInv, Complete
      <3> QED BY <1>4, <2>1, <3>3, <3>4, StoredKept
    <2> QED BY <2>2, <2>3
  <1> QED BY <1>2, <1>4, <1>5, <1>7, <1>8, <1>9, <1>10, TailStep

LEMMA MergeKeeps ==
  ASSUME CspInv, C!Act, C!MergeMeta
  PROVE  CspInv'
  <1>1. CspTypes
    BY DEF CspInv
  <1>a. PICK n : n = queue[1].n
    OBVIOUS
  <1>b. PICK es : es = session[<<navs[n].frame, navs[n].origin>>]
    OBVIOUS
  <1>c. PICK same : same = {e \in es : e.gen = navs[n].gen /\ (navs[n].doc = 0 \/ e.doc = navs[n].doc)}
    OBVIOUS
  <1>d. PICK h : h = IF \E e \in same : e.header # 0 THEN (CHOOSE e \in same : TRUE).header ELSE 0
    OBVIOUS
  <1>2. /\ queue # <<>> /\ current' = current /\ tab' = tab /\ browser' = browser /\ navs' = navs
        /\ reads' = reads /\ queue' = Tail(queue) /\ C!op = queue[1] /\ queue[1].got
        /\ queue[1].kind = "meta"
        /\ session' = IF C!IsCurrent(n)
                      THEN [session EXCEPT ![<<navs[n].frame, navs[n].origin>>] = C!Entry(n, h, n)]
                      ELSE session
    <2>1. queue # <<>> /\ C!op = queue[1]
      BY First DEF C!Act
    <2>2. C!key = <<navs[n].frame, navs[n].origin>> /\ C!entries = es
      BY <2>1, <1>a, <1>b DEF C!key, C!entries
    <2>3. session' = IF C!IsCurrent(n)
                      THEN [session EXCEPT ![<<navs[n].frame, navs[n].origin>>] = C!Entry(n, h, n)]
                      ELSE session
      BY <2>1, <2>2, <1>a, <1>c, <1>d, Zenon DEF C!MergeMeta
    <2> QED BY <2>1, <2>3 DEF C!Act, C!MergeMeta, C!Done
  <1>3. /\ n \in C!Navigation /\ n \in Nat /\ n > 0 /\ navs[n].st = "delivered" /\ navs[n].seen
        /\ "meta" \in navs[n].policy /\ navs[n].frame = queue[1].frame
        /\ navs[n].frame \in Frame /\ navs[n].origin \in Origin
    BY <1>a, <1>1, <1>2, First, NavFacts DEF OpFits
  <1>4. Moved /\ Releases(queue[1]) /\ SamePlace /\ ReadsType
        /\ browser' \in [ids : BOOLEAN, failed : Nat] /\ browser'.failed >= browser.failed
    BY <1>1, <1>2, Still, SameReads, SMTT(30) DEF SamePlace, CspTypes
  <1>5. Answered' /\ Purged'
    BY <1>2, <1>4, AnsweredKept, PurgedBehind
  <1>6. CASE ~C!IsCurrent(n)
    <2>1. session' = session /\ session' \in [Frame \X Origin -> SUBSET EntryType] /\ Entries'
      BY <1>1, <1>2, <1>4, <1>6, EntriesKept DEF CspTypes
    <2>2. Complete'
      <3> SUFFICES ASSUME browser.failed = 0, NEW k \in C!Navigation, C!Found(k)', navs'[k].st \in {"open", "delivered"}
                   PROVE  Stored(k)'
        BY <1>2, <1>4, MovedKeeps DEF Complete
      <3>1. C!Found(k) /\ k # n
        BY <1>2, <1>3, <1>6 DEF C!Found, C!IsCurrent
      <3>2. Stored(k) /\ (Merged(k)' <=> Merged(k))
        BY <1>a, <1>2, <1>4, <3>1, MergedKept DEF CspInv, Complete
      <3> QED BY <1>4, <2>1, <3>1, <3>2, StoredKept
    <2> QED BY <1>2, <1>4, <1>5, <2>1, <2>2, TailStep
  <1>7. CASE C!IsCurrent(n)
    <2>1. C!Found(n) /\ Named(n)
      BY <1>3, <1>7 DEF C!IsCurrent, CspInv, Begun
    <2>2. \A e \in same : e.header \in {0, n} /\ e \in EntryType
      <3> SUFFICES ASSUME NEW e \in same PROVE e.header \in {0, n} /\ e \in EntryType
        OBVIOUS
      <3>1. e \in session[<<navs[n].frame, navs[n].origin>>] /\ e.gen = navs[n].gen /\ e \in EntryType
        BY <1>b, <1>c, <1>1, <1>3 DEF CspTypes
      <3>2. PICK k \in C!Navigation : Owns(k, navs[n].frame, navs[n].origin, e)
        BY <1>3, <3>1 DEF CspInv, Entries
      <3>3. navs[k].frame = navs[n].frame /\ navs[k].gen = navs[n].gen /\ navs[k].gen > 0 /\ navs[n].gen > 0
            /\ e.header \in {0, k}
        BY <2>1, <3>1, <3>2 DEF Owns, Named
      <3>4. k = n
        <4>1. k \in Nat /\ n \in Nat /\ navs[k].gen \in Nat /\ navs[n].gen \in Nat
          BY <1>1, <1>3, NavFacts
        <4>2. ~(k < n) /\ ~(n < k)
          BY <1>3, <3>3, <4>1 DEF CspInv, Generations
        <4> QED BY <4>1, <4>2
      <3> QED BY <3>1, <3>3, <3>4
    <2>3. h \in {0, n}
      <3>1. CASE \E e \in same : e.header # 0
        <4>1. (CHOOSE e \in same : TRUE) \in same
          BY <3>1
        <4> QED BY <1>d, <2>2, <3>1, <4>1
      <3>2. CASE ~\E e \in same : e.header # 0
        BY <1>d, <3>2
      <3> QED BY <3>1, <3>2
    <2>4. C!Entry(n, h, n) \in SUBSET EntryType
          /\ \A e \in C!Entry(n, h, n) : e.gen = navs[n].gen /\ e.doc = navs[n].doc /\ e.header = h /\ e.meta = n
      <3>1. h \in Nat
        BY <1>3, <2>3
      <3> QED BY <1>1, <1>3, <3>1, EntryOf
    <2>5. /\ session' \in [Frame \X Origin -> SUBSET EntryType]
          /\ \A f \in Frame, o \in Origin : session'[<<f, o>>] =
               IF f = navs[n].frame /\ o = navs[n].origin THEN C!Entry(n, h, n) ELSE session[<<f, o>>]
      BY <1>1, <1>2, <1>3, <1>7, <2>4, SessionSet
    <2>6. Entries'
      <3> SUFFICES ASSUME NEW f \in Frame, NEW o \in Origin, NEW e \in session'[<<f, o>>]
                   PROVE  \E k \in C!Navigation : Owns(k, f, o, e)'
        BY <1>4, MovedKeeps DEF Entries
      <3>1. CASE f = navs[n].frame /\ o = navs[n].origin
        <4>1. e \in C!Entry(n, h, n)
          BY <3>1, <2>5
        <4>2. Owns(n, f, o, e)
          BY <3>1, <4>1, <1>3, <2>1, <2>3, <2>4 DEF Owns
        <4> QED BY <4>2, <1>2, <1>3 DEF Owns, Named
      <3>2. CASE ~(f = navs[n].frame /\ o = navs[n].origin)
        <4>1. e \in session[<<f, o>>]
          BY <3>2, <2>5
        <4>2. PICK k \in C!Navigation : Owns(k, f, o, e)
          BY <4>1 DEF CspInv, Entries
        <4> QED BY <4>2, <1>2 DEF Owns, Named
      <3> QED BY <3>1, <3>2
    <2>7. Complete'
      <3> SUFFICES ASSUME browser.failed = 0, NEW k \in C!Navigation, C!Found(k)', navs'[k].st \in {"open", "delivered"}
                   PROVE  Stored(k)'
        BY <1>2, <1>4, MovedKeeps DEF Complete
      <3>1. C!Found(k) /\ navs[k].frame \in Frame /\ navs[k].origin \in Origin
        BY <1>1, <1>2, NavFacts DEF C!Found
      <3>2. Stored(k)
        BY <1>2, <3>1 DEF CspInv, Complete
      <3>3. CASE k = n
        <4> PICK Q : Q = queue
          OBVIOUS
        <4>1. ~Merged(n) /\ 1 \in DOMAIN Q
          BY <1>a, <1>2, First DEF Merged
        <4>2. Merged(n)'
          <5>1. \A i \in DOMAIN queue' : i + 1 \in DOMAIN Q /\ i + 1 > 1 /\ queue'[i] = Q[i + 1]
            <6>1. Q # <<>> /\ queue' = Tail(Q)
              BY <1>2
            <6> QED BY <6>1, QueueShrinks
          <5>2. \A i \in DOMAIN Q : i > 1 => ~(Q[i].kind = "meta" /\ Q[i].n = n)
            <6> SUFFICES ASSUME NEW i \in DOMAIN Q, i > 1, Q[i].kind = "meta", Q[i].n = n PROVE FALSE
              OBVIOUS
            <6>1. InTurn(Q[1], Q[i], 1, i)
              BY <4>1 DEF CspInv, Turns
            <6>2. Q[1].kind = "meta" /\ Q[1].n = n
              BY <1>a, <1>2
            <6>3. 1 = i
              BY <6>1, <6>2 DEF InTurn
            <6> QED BY <6>3
          <5>3. \A i \in DOMAIN queue' : ~(queue'[i].kind = "meta" /\ queue'[i].n = n)
            BY <5>1, <5>2
          <5> QED BY <1>2, <1>3, <5>3 DEF Merged
        <4>3. es = IF HeaderOf(n) # 0 THEN C!Entry(n, n, 0) ELSE {}
          BY <1>b, <3>2, <3>3, <4>1 DEF Stored
        <4>4. h = HeaderOf(n)
          <5>1. CASE HeaderOf(n) # 0
            <6>1. HeaderOf(n) = n
              BY <5>1 DEF HeaderOf
            <6>2. \A e \in es : e.gen = navs[n].gen /\ e.doc = navs[n].doc /\ e.header = n
              BY <1>1, <1>3, <4>3, <5>1, EntryOf
            <6>3. same = es /\ es # {}
              BY <1>c, <6>2, <4>3, <5>1 DEF C!Entry
            <6>4. (CHOOSE e \in same : TRUE) \in same /\ \E e \in same : e.header # 0
              BY <6>2, <6>3, <1>3
            <6>5. (CHOOSE e \in same : TRUE).header = n
              BY <6>2, <6>3, <6>4
            <6> QED BY <1>d, <6>1, <6>4, <6>5
          <5>2. CASE HeaderOf(n) = 0
            BY <1>c, <1>d, <5>2, <4>3
          <5> QED BY <5>1, <5>2
        <4>5. session'[<<navs[n].frame, navs[n].origin>>] = C!Entry(n, HeaderOf(n), n)
          BY <2>5, <1>3, <4>4
        <4> QED BY <3>3, <4>2, <4>5, <1>2 DEF Stored, HeaderOf, C!Entry
      <3>4. CASE k # n
        <4>1. navs[k].frame # navs[n].frame
          BY <2>1, <3>1, <3>4 DEF C!Found
        <4>2. session'[<<navs[k].frame, navs[k].origin>>] = session[<<navs[k].frame, navs[k].origin>>]
          BY <2>5, <3>1, <4>1
        <4>3. Merged(k)' <=> Merged(k)
          BY <1>a, <1>2, <1>4, <3>4, MergedKept
        <4> QED BY <1>4, <3>1, <3>2, <4>2, <4>3, StoredKept
      <3> QED BY <3>3, <3>4
    <2> QED BY <1>2, <1>4, <1>5, <2>5, <2>6, <2>7, TailStep
  <1> QED BY <1>6, <1>7

LEMMA AnswerKeeps ==
  ASSUME CspInv, C!Act, C!Answer
  PROVE  CspInv'
  <1>1. CspTypes
    BY DEF CspInv
  <1>a. PICK n : n = queue[1].n
    OBVIOUS
  <1>b. PICK k : k = queue[1].by
    OBVIOUS
  <1>c. PICK f : f = queue[1].frame
    OBVIOUS
  <1>d. PICK seen : seen = C!Visible(n, k)
    OBVIOUS
  <1>e. PICK info : info = IF current[f] = n /\ seen # {} THEN CHOOSE e \in seen : TRUE ELSE C!Nothing
    OBVIOUS
  <1>2. /\ queue # <<>> /\ current' = current /\ tab' = tab /\ browser' = browser /\ navs' = navs
        /\ session' = session /\ queue' = Tail(queue) /\ C!op = queue[1] /\ queue[1].got
        /\ queue[1].kind = "read" /\ C!Told(k, f, info)
    <2>1. queue # <<>> /\ C!op = queue[1]
      BY First DEF C!Act
    <2>2. C!Told(k, f, info)
      BY <2>1, <1>a, <1>b, <1>c, <1>d, <1>e, Zenon DEF C!Answer
    <2> QED BY <2>1, <2>2 DEF C!Act, C!Answer, C!Done
  <1>3. /\ n \in C!Navigation /\ n \in Nat /\ n > 0 /\ navs[n].frame = f /\ f \in Frame
        /\ k \in C!Navigation /\ k \in Nat /\ k > 0 /\ k <= n /\ k <= Len(navs)
        /\ navs[k].frame = f /\ navs[k].st = "delivered" /\ navs[k].origin \in Origin
        /\ n <= current[f] \/ current[f] = 0
        /\ current[f] \in Nat
    BY <1>a, <1>b, <1>c, <1>1, <1>2, First, NavFacts DEF OpFits
  <1>4. Moved /\ Releases(queue[1]) /\ SamePlace
        /\ browser' \in [ids : BOOLEAN, failed : Nat] /\ browser'.failed >= browser.failed
        /\ session' \in [Frame \X Origin -> SUBSET EntryType]
    BY <1>1, <1>2, Still DEF SamePlace, CspTypes
  <1>5. Entries' /\ Purged'
    BY <1>1, <1>2, <1>4, EntriesKept, PurgedBehind
  <1>6. Complete'
    <2> SUFFICES ASSUME browser.failed = 0, NEW m \in C!Navigation, C!Found(m)', navs'[m].st \in {"open", "delivered"}
                 PROVE  Stored(m)'
      BY <1>2, <1>4, MovedKeeps DEF Complete
    <2>1. C!Found(m) /\ navs'[m].st = navs[m].st
      BY <1>2 DEF C!Found
    <2>2. Stored(m)
      BY <1>2, <2>1 DEF CspInv, Complete
    <2>3. Merged(m)' <=> Merged(m)
      BY <1>2, <1>4, <2>1, MergedKept
    <2> QED BY <1>2, <1>4, <2>1, <2>2, <2>3, StoredKept
  <1>7. seen \subseteq session[<<f, navs[k].origin>>] /\ seen \subseteq EntryType
        /\ \A e \in seen : e.gen = navs[n].gen /\ (browser.ids /\ e.doc # 0 => e.doc = k)
    <2>1. seen = {e \in session[<<f, navs[k].origin>>] :
                   /\ n # 0 => e.gen = navs[n].gen
                   /\ browser.ids /\ e.doc # 0 => e.doc = k}
      BY <1>c, <1>d, <1>2 DEF C!Visible
    <2>2. session[<<f, navs[k].origin>>] \in SUBSET EntryType
      BY <1>1, <1>3 DEF CspTypes
    <2> QED BY <2>1, <2>2, <1>3
  <1>8. \* an entry that is shown is of the tracked navigation
        ASSUME NEW e \in seen, current[f] = n
        PROVE  e.header \in {0, n} /\ e.meta \in {0, n} /\ (browser.ids => n = k)
    <2>1. PICK m \in C!Navigation : Owns(m, f, navs[k].origin, e)
      BY <1>3, <1>7, <1>8 DEF CspInv, Entries
    <2>2. navs[n].gen > 0
      BY <1>3, <1>8 DEF CspInv, Tracked
    <2>3. navs[m].frame = navs[n].frame /\ navs[m].gen = navs[n].gen /\ navs[m].gen > 0
      BY <1>3, <1>7, <1>8, <2>1 DEF Owns, Named
    <2>4. m = n
      <3>1. m \in Nat /\ n \in Nat /\ navs[m].gen \in Nat /\ navs[n].gen \in Nat
        BY <1>1, <1>3, NavFacts
      <3>2. ~(m < n) /\ ~(n < m)
        BY <1>3, <2>2, <2>3, <3>1 DEF CspInv, Generations
      <3> QED BY <3>1, <3>2
    <2>5. browser.ids => e.doc = n
      BY <2>1, <2>4 DEF Owns, Named
    <2> QED BY <1>3, <1>7, <1>8, <2>1, <2>4, <2>5 DEF Owns
  <1>9. CASE current[f] # n \/ seen = {}
    <2>1. info = C!Nothing
      BY <1>e, <1>9
    <2>2. CASE current[f] # n
      <3>1. C!Told(queue[1].by, queue[1].frame, C!Nothing)
        BY <2>1, <1>b, <1>c, <1>2
      <3>2. ReadsType /\ Answered'
        BY <3>1, <2>2, <1>a, <1>c, <1>2, <1>4, ToldNothing
      <3> QED BY <3>2, <1>2, <1>4, <1>5, <1>6, TailStep
    <2>3. CASE current[f] = n /\ seen = {}
      <3>1. reads' = [reads EXCEPT !.last = [by |-> queue[1].by, of |-> current[queue[1].frame], header |-> 0, meta |-> 0]]
        BY <2>1, <1>b, <1>c, <1>2 DEF C!Told, C!Nothing
      <3>2. ReadsType /\ reads'.last.by = k /\ reads'.last.of = n
            /\ reads'.last.header = 0 /\ reads'.last.meta = 0
        BY <3>1, <2>3, <1>b, <1>c, <1>2, ToldType
      <3>3. C!WholeInfo'
        <4> SUFFICES ASSUME n = k, browser.failed = 0
                     PROVE  ~("header" \in navs[k].policy) /\ ~("meta" \in navs[k].policy /\ navs[k].seen)
          BY <3>2, <1>2 DEF C!WholeInfo
        <4>1. C!Found(k) /\ Stored(k)
          BY <2>3, <1>3 DEF C!Found, CspInv, Complete
        <4>2. session[<<f, navs[k].origin>>] = {}
          <5>1. \A e \in session[<<f, navs[k].origin>>] : e \in seen
            <6> SUFFICES ASSUME NEW e \in session[<<f, navs[k].origin>>] PROVE e \in seen
              OBVIOUS
            <6>1. e.gen = navs[k].gen /\ e.doc = navs[k].doc
              BY <4>1, <1>1, <1>3 DEF Stored, C!Entry
            <6>2. navs[k].doc \in {0, k}
              BY <1>3 DEF CspInv, Begun
            <6> QED BY <6>1, <6>2, <1>b, <1>c, <1>d, <1>2 DEF C!Visible
          <5> QED BY <5>1, <2>3
        <4>3. ~Merged(k) /\ HeaderOf(k) = 0
          BY <4>1, <4>2, <1>3 DEF Stored, C!Entry
        <4>4. \A i \in DOMAIN queue : ~(queue[i].kind = "meta" /\ queue[i].n = k)
          <5> SUFFICES ASSUME NEW i \in DOMAIN queue, queue[i].kind = "meta", queue[i].n = k PROVE FALSE
            OBVIOUS
          <5>1. InTurn(queue[i], queue[1], i, 1) /\ i >= 1 /\ i \in Nat
            BY <1>2, First, Queued DEF CspInv, Turns
          <5>2. i < 1
            BY <5>1, <1>b, <1>2 DEF InTurn
          <5> QED BY <5>1, <5>2
        <4> QED BY <4>3, <4>4, <1>3 DEF Merged, HeaderOf
      <3>4. Answered'
        BY <3>2, <3>3, <1>2, <1>3 DEF Answered, C!OwnInfo
      <3> QED BY <3>2, <3>4, <1>2, <1>4, <1>5, <1>6, TailStep
    <2> QED BY <2>2, <2>3, <1>9
  <1>10. CASE current[f] = n /\ seen # {}
    <2>1. info \in seen
      BY <1>e, <1>10
    <2>2. info \in EntryType /\ info.header \in {0, n} /\ info.meta \in {0, n} /\ (browser.ids => n = k)
      BY <2>1, <1>7, <1>8, <1>10
    <2>3. info.header \in Nat /\ info.meta \in Nat
      BY <2>2 DEF EntryType
    <2>4. reads' = [reads EXCEPT !.last = [by |-> queue[1].by, of |-> current[queue[1].frame],
                                          header |-> info.header, meta |-> info.meta]]
      BY <1>b, <1>c, <1>2 DEF C!Told
    <2>5. ReadsType /\ reads'.last.by = k /\ reads'.last.of = n
          /\ reads'.last.header = info.header /\ reads'.last.meta = info.meta
      BY <2>3, <2>4, <1>b, <1>c, <1>2, <1>10, ToldType
    <2>6. C!WholeInfo'
      <3> SUFFICES ASSUME n = k, browser.failed = 0
                   PROVE  /\ info.header = IF "header" \in navs[k].policy THEN k ELSE 0
                          /\ info.meta = IF "meta" \in navs[k].policy /\ navs[k].seen THEN k ELSE 0
        BY <2>5, <1>2 DEF C!WholeInfo
      <3>1. C!Found(k) /\ Stored(k)
        BY <1>10, <1>3 DEF C!Found, CspInv, Complete
      <3>2. \A i \in DOMAIN queue : ~(queue[i].kind = "meta" /\ queue[i].n = k)
        <4> SUFFICES ASSUME NEW i \in DOMAIN queue, queue[i].kind = "meta", queue[i].n = k PROVE FALSE
          OBVIOUS
        <4>1. InTurn(queue[i], queue[1], i, 1) /\ i >= 1 /\ i \in Nat
          BY <1>2, First, Queued DEF CspInv, Turns
        <4>2. i < 1
          BY <4>1, <1>b, <1>2 DEF InTurn
        <4> QED BY <4>1, <4>2
      <3>3. Merged(k) <=> ("meta" \in navs[k].policy /\ navs[k].seen)
        BY <3>2, <1>3 DEF Merged
      <3>4. info \in session[<<navs[k].frame, navs[k].origin>>]
        BY <2>1, <1>3, <1>7
      <3>5. CASE Merged(k)
        <4>1. info \in C!Entry(k, HeaderOf(k), k)
          BY <3>1, <3>4, <3>5 DEF Stored
        <4>2. HeaderOf(k) \in Nat
          BY <1>3 DEF HeaderOf
        <4>3. info.header = HeaderOf(k) /\ info.meta = k
          BY <4>1, <4>2, <1>1, <1>3, EntryOf
        <4> QED BY <4>3, <3>3, <3>5 DEF HeaderOf
      <3>6. CASE ~Merged(k)
        <4>1. HeaderOf(k) # 0 /\ info \in C!Entry(k, k, 0)
          BY <3>1, <3>4, <3>6 DEF Stored
        <4>2. info.header = k /\ info.meta = 0
          BY <4>1, <1>1, <1>3, EntryOf
        <4> QED BY <4>1, <4>2, <3>3, <3>6 DEF HeaderOf
      <3> QED BY <3>5, <3>6
    <2>7. C!OwnInfo'
      BY <2>2, <2>5, <1>2 DEF C!OwnInfo
    <2>8. Answered'
      BY <2>5, <2>6, <2>7, <1>2, <1>3 DEF Answered
    <2> QED BY <2>5, <2>8, <1>2, <1>4, <1>5, <1>6, TailStep
  <1> QED BY <1>9, <1>10

LEMMA PurgeKeeps ==
  ASSUME CspInv, C!Act, C!Purge
  PROVE  CspInv'
  <1>1. CspTypes
    BY DEF CspInv
  <1>2. /\ queue # <<>> /\ current' = current /\ tab' = tab /\ browser' = browser /\ navs' = navs
        /\ reads' = reads /\ queue' = Tail(queue) /\ queue[1].kind = "purge"
        /\ session' = IF C!HasCurrentFrames THEN session ELSE [k \in DOMAIN session |-> {}]
    BY First DEF C!Act, C!Purge, C!Done
  <1>3. ~C!HasCurrentFrames /\ tab.closed
    BY <1>2, PurgeProceeds
  <1>4. session' = [k \in Frame \X Origin |-> {}]
    BY <1>1, <1>2, <1>3 DEF CspTypes
  <1>5. session' \in [Frame \X Origin -> SUBSET EntryType] /\ (\A k \in DOMAIN session' : session'[k] = {})
        /\ \A f \in Frame, o \in Origin : session'[<<f, o>>] \subseteq session[<<f, o>>]
    BY <1>4
  <1>6. Moved /\ Releases(queue[1]) /\ SamePlace /\ ReadsType
        /\ browser' \in [ids : BOOLEAN, failed : Nat] /\ browser'.failed >= browser.failed
    BY <1>1, <1>2, Still, SameReads DEF SamePlace, CspTypes
  <1>7. Entries' /\ Answered'
    BY <1>2, <1>5, <1>6, EntriesKept, AnsweredKept
  <1>8. Purged'
    <2>1. queue' # <<>> => ~queue'[1].got
      BY <1>2, QueueShrinks
    <2> QED BY <1>5, <2>1 DEF Purged
  <1>9. Complete'
    <2>1. \A k \in C!Navigation : ~C!Found(k)
      BY <1>1, <1>3, NavFacts DEF C!Found, CspInv, Documents
    <2> QED BY <2>1, <1>2 DEF Complete, C!Found, C!Navigation
  <1> QED BY <1>2, <1>5, <1>6, <1>7, <1>8, <1>9, TailStep

-----------------------------------------------------------------------------
(* The theorem *)

LEMMA CspStep ==
  ASSUME CspInv, C!Next
  PROVE  CspInv'
  <1>1. ASSUME NEW f \in Frame, NEW o \in Origin, NEW p \in Policy, C!BeginNavigation(f, o, p) PROVE CspInv'
    BY <1>1, BeginNavigationKeeps
  <1>2. ASSUME NEW n \in C!Navigation, C!HeadersReceived(n) \/ C!ModeResolved(n) \/ C!ProcessHead(n) \/ C!Commit(n)
        PROVE  CspInv'
    BY <1>2, HeadersReceivedKeeps, ModeResolvedKeeps, ProcessHeadKeeps, CommitKeeps
  <1>3. ASSUME NEW f \in Frame, C!HandleGetCspInfo(f) PROVE CspInv'
    BY <1>3, HandleGetCspInfoKeeps
  <1>4. CASE C!TabRemoved
    BY <1>4, TabRemovedKeeps
  <1>5. CASE C!Start
    BY <1>5, StartKeeps
  <1>6. CASE C!Act
    <2>1. C!Clear \/ C!StoreFrameCspInfo \/ C!MergeMeta \/ C!Answer \/ C!Purge
      BY <1>6 DEF C!Act
    <2> QED BY <1>6, <2>1, ClearKeeps, StoreKeeps, MergeKeeps, AnswerKeeps, PurgeKeeps
  <1>7. CASE C!StorageFails
    BY <1>7, StorageFailsKeeps
  <1> QED BY <1>1, <1>2, <1>3, <1>4, <1>5, <1>6, <1>7 DEF C!Next

LEMMA CspUnchanged ==
  ASSUME CspInv, UNCHANGED cspVars
  PROVE  CspInv'
  <1>1. /\ navs' = navs /\ current' = current /\ queue' = queue /\ session' = session
        /\ tab' = tab /\ reads' = reads /\ browser' = browser
    BY DEF cspVars
  <1>2. CspTypes' /\ Tracked' /\ Begun' /\ Generations' /\ Documents'
    BY <1>1 DEF CspInv, CspTypes, Tracked, Begun, Generations, Documents, Named, C!Navigation, C!Found
  <1>3. Ops' /\ Turns' /\ LateStore'
    BY <1>1 DEF CspInv, Ops, OpFits, Turns, InTurn, LateStore, C!Navigation, C!Found
  <1>4. Entries'
    BY <1>1 DEF CspInv, Entries, Owns, Named, C!Navigation
  <1>6. Complete'
    BY <1>1 DEF CspInv, Complete, Stored, Merged, HeaderOf, C!Entry, C!Navigation, C!Found
  <1>5. Purged' /\ Answered'
    BY <1>1 DEF CspInv, Purged, Answered, C!OwnInfo, C!WholeInfo
  <1> QED BY <1>2, <1>3, <1>4, <1>5, <1>6 DEF CspInv

\* At most one request is on its way at the start, and nothing is known of it.
UnseenFirst ==
  \A n \in C!Navigation : n = 1 /\ ~navs[n].seen /\ navs[n].st = "sent" /\ navs[n].gen = 0 /\ navs[n].doc = 0

LEMMA CspInit ==
  ASSUME C!Init
  PROVE  CspInv
  <1>1. /\ current = [f \in Frame |-> 0] /\ queue = <<>> /\ session = [k \in Frame \X Origin |-> {}]
        /\ tab = [doc |-> [f \in Frame |-> 0], closed |-> FALSE]
        /\ reads = [count |-> 0, last |-> [by |-> 0, of |-> 0, header |-> 0, meta |-> 0]]
        /\ browser \in [ids : BOOLEAN, failed : {0}]
    BY DEF C!Init
  <1>2. navs \in Seq(NavType) /\ Len(navs) \in Nat /\ UnseenFirst
    <2>1. CASE navs = <<>>
      BY <2>1, EmptySeq DEF C!Navigation, UnseenFirst
    <2>2. ASSUME NEW f \in Frame, NEW o \in Origin, NEW p \in Policy, navs = <<C!Request(f, o, p, FALSE, "sent")>>
          PROVE  navs \in Seq(NavType) /\ Len(navs) \in Nat /\ UnseenFirst
      <3>1. C!Request(f, o, p, FALSE, "sent") \in NavType
        BY DEF C!Request, NavType, Status
      <3>2. navs \in Seq(NavType) /\ Len(navs) = 1 /\ navs[1] = C!Request(f, o, p, FALSE, "sent")
        <4>1. \A r \in NavType : <<r>> \in Seq(NavType) /\ Len(<<r>>) = 1 /\ <<r>>[1] = r
          OBVIOUS
        <4> QED BY <2>2, <3>1, <4>1, Zenon
      <3> QED BY <3>2 DEF C!Navigation, C!Request, UnseenFirst
    <2>3. \/ navs = <<>>
          \/ \E f \in Frame, o \in Origin, p \in Policy : navs = <<C!Request(f, o, p, FALSE, "sent")>>
      BY Zenon DEF C!Init
    <2> QED BY <2>1, <2>2, <2>3, Zenon
  <1>3. CspTypes
    BY <1>1, <1>2 DEF CspTypes
  <1>4. Tracked /\ Begun /\ Generations /\ Documents
    BY <1>1, <1>2 DEF Tracked, Begun, Generations, Documents, C!Navigation, C!Found, UnseenFirst
  <1>5. Ops /\ Turns /\ LateStore
    BY <1>1, EmptySeq DEF Ops, Turns, LateStore
  <1>6. Entries /\ Complete
    BY <1>1, <1>2 DEF Entries, Complete, C!Found, C!Navigation, UnseenFirst
  <1>7. Purged
    BY <1>1 DEF Purged
  <1>8. Answered
    BY <1>1, <1>2 DEF Answered, C!OwnInfo, C!WholeInfo
  <1> QED BY <1>3, <1>4, <1>5, <1>6, <1>7, <1>8 DEF CspInv

\* A document that asks for the policies of its frame is told of one
\* navigation, of its own where documents have names, and of all of its
\* policies while the storage works; nothing is left in the storage of a
\* closed tab, whatever navigations, answers and failures come between
\* (webrequest.js, beginCspNavigation to handleMetaCsp; messages.js,
\* handleGetCspInfo; index.js, tabs.onRemoved).
THEOREM CspAnswersAreRight == FiltersSpec => []CspInfoRight
<1>1. FiltersInit => CspInv
  BY CspInit DEF FiltersInit
<1>2. CspInv /\ [FiltersNext]_FiltersVars => CspInv'
  <2> SUFFICES ASSUME CspInv, [FiltersNext]_FiltersVars PROVE CspInv'
    OBVIOUS
  <2>1. C!Next \/ UNCHANGED cspVars
    BY DEF FiltersNext, FiltersVars
  <2> QED
    BY <2>1, CspStep, CspUnchanged
<1>3. CspInv => CspInfoRight
  <2> SUFFICES ASSUME CspInv PROVE CspInfoRight
    OBVIOUS
  <2>1. C!OwnInfo /\ C!WholeInfo
    BY DEF CspInv, Answered
  <2>2. queue \in Seq(OpType)
    BY DEF CspInv, CspTypes
  <2>3. DOMAIN queue = 1..Len(queue)
    BY <2>2, LenProperties
  <2>4. C!ClosedTabLeavesNothing
    BY <2>3 DEF CspInv, Purged, C!ClosedTabLeavesNothing
  <2> QED BY <2>1, <2>4 DEF CspInfoRight
<1> QED
  BY <1>1, <1>2, <1>3, PTL DEF FiltersSpec


-----------------------------------------------------------------------------
(* The scripts: hops, their records, and the arms of the spawns *)

HopPhase == {"buffering", "passthrough", "serving", "redirected", "again", "done"}

HopType ==
  [req : Nat \ {0}, spawn : Nat, real : {"worker", "script"}, url : {"document", "target", "other"},
   kind : {"shadow", "inject", "plain"},
   headers : {"due", "sent", "failed"}, dest : {"null", "worker", "script"}, resolved : BOOLEAN,
   phase : HopPhase, in : Nat, bad : Nat, ended : BOOLEAN,
   evals : Nat, at : {"idle", "setup", "finished"}, scope : {"unknown", "worker", "other"}, out : Seq(Nat)]

SpawnStatus == {"armed", "requested", "taken", "unserved", "lost", "failed"}

SettingType ==
  [enabled : BOOLEAN, bundle : BOOLEAN, metadata : BOOLEAN, prologue : Nat, offset : {0, 1}, valid : BOOLEAN]

ArmType == [count : Nat, old : BOOLEAN, target : BOOLEAN, taken : BOOLEAN]

ScriptTypes ==
  /\ hops \in Seq(HopType)
  /\ scriptDest \in [1..MaxHops -> Nat]
  /\ arm \in ArmType
  /\ spawns \in Seq(SpawnStatus)
  /\ setting \in SettingType /\ setting.offset <= setting.prologue /\ (setting.enabled \/ setting.metadata)

\* A request and its redirects are one fetch, of one spawn or of the page.
Requests ==
  /\ Len(hops) <= MaxHops
  /\ setting.enabled => spawns = <<>>
  /\ \A h \in Hop :
       /\ hops[h].req <= h
       /\ hops[h].spawn # 0 => hops[h].spawn \in Spawn /\ hops[h].real = "worker" /\ spawns[hops[h].spawn] # "armed"
       /\ hops[h].spawn # 0 => hops[h].url # "other"
       /\ hops[h].kind = "inject" => setting.enabled
  /\ \A h, k \in Hop : hops[h].req = hops[k].req => hops[h].real = hops[k].real /\ hops[h].spawn = hops[k].spawn
  /\ \A h, k \in Hop : hops[h].spawn = hops[k].spawn /\ hops[h].spawn # 0 => hops[h].req = hops[k].req

\* A hop that has the record of its request has not ended; the newest one has it, or
\* one that was redirected to itself and is followed by hops that nobody treats.
Holds(h, r) ==
  /\ h \in Hop /\ hops[h].req = r /\ hops[h].phase \notin {"redirected", "done"}
  /\ \/ Newest(h)
     \/ hops[h].phase = "again" /\ \A k \in Hop : hops[k].req = r /\ k > h => hops[k].kind = "plain"

\* The newest hop of a request has the record until it ends.
Records ==
  /\ \A r \in DOMAIN scriptDest : scriptDest[r] # 0 => Holds(scriptDest[r], r)
  /\ \A h \in Hop :
       /\ Newest(h) /\ hops[h].kind # "plain"
       /\ hops[h].phase \notin {"redirected", "done"} /\ hops[h].headers # "failed"
       => Recorded(h) = h

\* What the filter of a hop has written when it lets chunks pass
WithBundle(o, n) == Chunks(0, o) \o <<Bundle>> \o Chunks(o, n)

Plain(hop, x) ==
  /\ hop.out = Chunks(0, hop.in)
  /\ hop.bad = 0 => hop.resolved
  /\ hop.headers = "sent" /\ hop.real = "worker" /\ hop.bad = 0 /\ x.bundle /\ x.valid
       => hop.ended /\ hop.in < x.offset

Inserted(hop, x) ==
  /\ x.offset <= hop.in /\ hop.out = WithBundle(x.offset, hop.in)
  /\ x.metadata => hop.real = "worker"

Whole(hop, x) == Plain(hop, x) \/ Inserted(hop, x)

\* How far the filter of a hop has come, under the settings x
Filtered(hop, x) ==
  /\ hop.bad <= hop.in /\ hop.phase \notin {"redirected", "again", "serving"}
  /\ hop.phase = "buffering" => hop.out = <<>>
  /\ hop.phase = "passthrough" => Whole(hop, x)
  /\ hop.phase = "done" => Whole(hop, x) \/ (hop.out = <<>> /\ hop.at # "finished")
  /\ hop.at = "finished" => hop.phase = "done"
  /\ hop.at = "setup" \/ (hop.ended /\ hop.phase = "buffering") => hop.evals > 0
  /\ hop.resolved /\ hop.headers = "due" => hop.ended \/ hop.phase = "done"
  /\ hop.scope # "unknown" => hop.resolved
  /\ hop.dest \in {"null", IF x.metadata THEN hop.real ELSE "null"}
  /\ hop.headers = "sent" => hop.dest = IF x.metadata THEN hop.real ELSE "null"
  /\ hop.scope = "worker" => (x.metadata => hop.real = "worker")
  /\ hop.headers = "sent" /\ hop.real = "worker" => hop.scope # "other"

\* What the record of a hop was told of it
Told(hop, x) == hop.headers = "sent" => hop.dest = IF x.metadata THEN hop.real ELSE "null"

AllFiltered ==
  \A h \in Hop :
    /\ hops[h].kind = "inject" => Filtered(hops[h], setting)
    /\ hops[h].kind = "shadow" => Told(hops[h], setting)

\* A spawn whose response is to come is one that was requested.
Expected ==
  \A h \in Hop :
    Newest(h) /\ hops[h].kind = "shadow" /\ hops[h].phase \notin {"serving", "done"} /\ hops[h].spawn # 0
      => spawns[hops[h].spawn] = "requested"

\* While no arm is lost there is one for every spawn that may need it, the one
\* redirect that is to be followed has its entry, and every hop of a spawn is treated.
NoneUnserved == \A s \in Spawn : spawns[s] # "unserved"

Armed ==
  ~arm.taken =>
    /\ ~arm.old /\ arm.count = Cardinality(Owed) /\ NoneUnserved
    /\ \A h \in Hop : Followed(h) => arm.target
    /\ \A h, k \in Hop : Followed(h) /\ Followed(k) => h = k
    /\ \A h \in Hop : hops[h].spawn # 0 =>
         hops[h].kind = "shadow" /\ (hops[h].phase = "again" => hops[h].url # "target")

ScriptInv ==
  ScriptTypes /\ Requests /\ Records /\ AllFiltered /\ Expected /\ Armed

-----------------------------------------------------------------------------
(* Lists of hops and chunks *)

LEMMA Updated ==
  ASSUME NEW S, NEW s \in Seq(S), NEW i \in 1..Len(s), NEW e \in S
  PROVE  /\ [s EXCEPT ![i] = e] \in Seq(S) /\ Len([s EXCEPT ![i] = e]) = Len(s) /\ Len(s) \in Nat
         /\ [s EXCEPT ![i] = e][i] = e
         /\ \A j \in 1..Len(s) : j # i => [s EXCEPT ![i] = e][j] = s[j]
  BY ExceptSeq, LenProperties

LEMMA HopFacts ==
  ASSUME ScriptTypes
  PROVE  /\ Len(hops) \in Nat /\ Len(spawns) \in Nat /\ Hop \subseteq Nat \ {0} /\ Spawn \subseteq Nat \ {0}
         /\ (\A h \in Hop : hops[h] \in HopType) /\ \A s \in Spawn : spawns[s] \in SpawnStatus
  BY LenProperties, ElementOfSeq DEF ScriptTypes, Hop, Spawn

LEMMA ChunksAre ==
  ASSUME NEW m \in Nat, NEW n \in Nat, m <= n
  PROVE  /\ Chunks(m, n) \in Seq(Nat) /\ Len(Chunks(m, n)) = n - m
         /\ \A i \in 1..(n - m) : Chunks(m, n)[i] = m + i
  <1>1. n - m \in Nat
    OBVIOUS
  <1>2. \A i \in 1..(n - m) : m + i \in Nat
    OBVIOUS
  <1>3. Chunks(m, n) \in [1..(n - m) -> Nat]
    BY <1>2 DEF Chunks
  <1> QED BY <1>1, <1>3 DEF Chunks

LEMMA FirstChunks ==
  ASSUME NEW n \in Nat
  PROVE  Chunks(0, n) \in Seq(Nat) /\ Len(Chunks(0, n)) = n /\ \A i \in 1..n : Chunks(0, n)[i] = i
  <1>1. 0 \in Nat /\ 0 <= n /\ n - 0 = n /\ \A i \in 1..n : 0 + i = i
    OBVIOUS
  <1>2. /\ Chunks(0, n) \in Seq(Nat) /\ Len(Chunks(0, n)) = n - 0
        /\ \A i \in 1..(n - 0) : Chunks(0, n)[i] = 0 + i
    BY <1>1, ChunksAre, Zenon
  <1> QED BY <1>1, <1>2

LEMMA SameList ==
  ASSUME NEW S, NEW s \in Seq(S), NEW t \in Seq(S), Len(s) = Len(t), \A i \in 1..Len(s) : s[i] = t[i]
  PROVE  s = t
  BY SeqEqual

LEMMA NextChunk ==
  ASSUME NEW m \in Nat, NEW n \in Nat, m <= n
  PROVE  Chunks(m, n + 1) = Append(Chunks(m, n), n + 1)
  <1>1. Chunks(m, n) \in Seq(Nat) /\ Len(Chunks(m, n)) = n - m /\ \A i \in 1..(n - m) : Chunks(m, n)[i] = m + i
    BY ChunksAre
  <1>2. Chunks(m, n + 1) \in Seq(Nat) /\ Len(Chunks(m, n + 1)) = n + 1 - m
        /\ \A i \in 1..(n + 1 - m) : Chunks(m, n + 1)[i] = m + i
    <2>1. \A k \in Nat : m <= k =>
            /\ Chunks(m, k) \in Seq(Nat) /\ Len(Chunks(m, k)) = k - m
            /\ \A i \in 1..(k - m) : Chunks(m, k)[i] = m + i
      BY ChunksAre
    <2>2. n + 1 \in Nat /\ m <= n + 1
      OBVIOUS
    <2> QED BY <2>1, <2>2
  <1> DEFINE t == Append(Chunks(m, n), n + 1)
  <1>3. t \in Seq(Nat) /\ Len(t) = n - m + 1 /\ (\A i \in 1..(n - m) : t[i] = m + i) /\ t[n - m + 1] = n + 1
    BY <1>1, Appended
  <1>4. \A i \in 1..(n + 1 - m) : t[i] = m + i
    BY <1>3
  <1> HIDE DEF t
  <1>5. Len(t) = Len(Chunks(m, n + 1)) /\ \A i \in 1..Len(t) : t[i] = Chunks(m, n + 1)[i]
    BY <1>2, <1>3, <1>4
  <1>6. t = Chunks(m, n + 1)
    BY <1>2, <1>3, <1>5, SameList
  <1> QED BY <1>6 DEF t

LEMMA Joined ==
  ASSUME NEW a \in Seq(Nat), NEW b \in Seq(Nat)
  PROVE  /\ a \o b \in Seq(Nat) /\ Len(a \o b) = Len(a) + Len(b) /\ Len(a) \in Nat /\ Len(b) \in Nat
         /\ \A i \in 1..(Len(a) + Len(b)) : (a \o b)[i] = IF i <= Len(a) THEN a[i] ELSE b[i - Len(a)]
  BY ConcatProperties, LenProperties

\* The place of the bundle and of the chunks around it
LEMMA BundleIsAt ==
  ASSUME NEW o \in Nat, NEW n \in Nat, o <= n
  PROVE  /\ WithBundle(o, n) \in Seq(Nat) /\ Len(WithBundle(o, n)) = n + 1
         /\ \A i \in 1..(n + 1) : WithBundle(o, n)[i] = IF i <= o THEN i ELSE IF i = o + 1 THEN Bundle ELSE i - 1
  <1> DEFINE a == Chunks(0, o)  b == <<Bundle>>  c == Chunks(o, n)
  <1>1. a \in Seq(Nat) /\ Len(a) = o /\ \A i \in 1..o : a[i] = i
    BY FirstChunks
  <1>2. c \in Seq(Nat) /\ Len(c) = n - o /\ \A i \in 1..(n - o) : c[i] = o + i
    BY ChunksAre
  <1>3. b \in Seq(Nat) /\ Len(b) = 1 /\ b[1] = Bundle
    BY DEF Bundle
  <1> HIDE DEF a, b, c
  <1> DEFINE d == a \o b
  <1>4. d \in Seq(Nat) /\ Len(d) = o + 1 /\ (\A i \in 1..o : d[i] = i) /\ d[o + 1] = Bundle
    <2>1. /\ d \in Seq(Nat) /\ Len(d) = Len(a) + Len(b)
          /\ \A i \in 1..(Len(a) + Len(b)) : d[i] = IF i <= Len(a) THEN a[i] ELSE b[i - Len(a)]
      BY <1>1, <1>3, Joined, Zenon
    <2> HIDE DEF d
    <2> QED BY <1>1, <1>3, <2>1
  <1> HIDE DEF d
  <1> DEFINE e == d \o c
  <1>5. /\ e \in Seq(Nat) /\ Len(e) = Len(d) + Len(c)
        /\ \A i \in 1..(Len(d) + Len(c)) : e[i] = IF i <= Len(d) THEN d[i] ELSE c[i - Len(d)]
    BY <1>2, <1>4, Joined, Zenon
  <1> HIDE DEF e
  <1>6. ASSUME NEW i \in 1..(n + 1) PROVE e[i] = IF i <= o THEN i ELSE IF i = o + 1 THEN Bundle ELSE i - 1
    <2>1. e[i] = IF i <= Len(d) THEN d[i] ELSE c[i - Len(d)]
      BY <1>2, <1>4, <1>5
    <2>2. CASE i <= o
      BY <2>1, <2>2, <1>4
    <2>3. CASE i = o + 1
      BY <2>1, <2>3, <1>4
    <2>4. CASE i > o + 1
      <3>1. e[i] = c[i - (o + 1)] /\ i - (o + 1) \in 1..(n - o)
        BY <2>1, <2>4, <1>4
      <3> QED BY <3>1, <2>4, <1>2
    <2> QED BY <2>2, <2>3, <2>4
  <1>7. e = WithBundle(o, n)
    BY DEF e, d, a, b, c, WithBundle
  <1>8. Len(e) = n + 1
    BY <1>2, <1>4, <1>5
  <1> QED BY <1>5, <1>6, <1>7, <1>8

LEMMA NextChunkBehind ==
  ASSUME NEW o \in Nat, NEW n \in Nat, o <= n
  PROVE  WithBundle(o, n + 1) = Append(WithBundle(o, n), n + 1)
  <1> DEFINE s == WithBundle(o, n)  t == Append(s, n + 1)
  <1>1. s \in Seq(Nat) /\ Len(s) = n + 1
        /\ \A i \in 1..(n + 1) : s[i] = IF i <= o THEN i ELSE IF i = o + 1 THEN Bundle ELSE i - 1
    BY BundleIsAt
  <1>2. /\ WithBundle(o, n + 1) \in Seq(Nat) /\ Len(WithBundle(o, n + 1)) = n + 2
        /\ \A i \in 1..(n + 2) : WithBundle(o, n + 1)[i] = IF i <= o THEN i ELSE IF i = o + 1 THEN Bundle ELSE i - 1
    <2>1. n + 1 \in Nat /\ o <= n + 1 /\ n + 1 + 1 = n + 2
      OBVIOUS
    <2> QED BY <2>1, BundleIsAt
  <1> HIDE DEF s
  <1>3. t \in Seq(Nat) /\ Len(t) = n + 2 /\ (\A i \in 1..(n + 1) : t[i] = s[i]) /\ t[n + 2] = n + 1
    BY <1>1, Appended
  <1> HIDE DEF t
  <1>4. ASSUME NEW i \in 1..(n + 2) PROVE t[i] = WithBundle(o, n + 1)[i]
    <2>1. CASE i \in 1..(n + 1)
      <3>1. t[i] = s[i] /\ s[i] = IF i <= o THEN i ELSE IF i = o + 1 THEN Bundle ELSE i - 1
        BY <2>1, <1>1, <1>3
      <3> QED BY <3>1, <1>2
    <2>2. CASE i = n + 2
      <3>1. WithBundle(o, n + 1)[n + 2] = n + 1
        BY <1>2 DEF Bundle
      <3> QED BY <2>2, <3>1, <1>3
    <2> QED BY <2>1, <2>2
  <1>5. t = WithBundle(o, n + 1)
    BY <1>2, <1>3, <1>4, SameList
  <1> QED BY <1>5 DEF t, s

-----------------------------------------------------------------------------
(* The list without some elements *)

Below == OpToRel(LAMBDA x, y : x < y, Nat)

\* A set of natural numbers that is not empty has a least element.
LEMMA LeastNat ==
  ASSUME NEW S, S \subseteq Nat, S # {}
  PROVE  \E x \in S : \A y \in S : x <= y
  <1>1. IsWellFoundedOn(Below, Nat)
    BY NatLessThanWellFounded DEF Below
  <1>2. \E x \in S : \A y \in S : <<y, x>> \notin Below
    BY <1>1, WFMin
  <1>3. ASSUME NEW x \in Nat, NEW y \in Nat, <<y, x>> \notin Below PROVE x <= y
    <2>1. Below = {p \in Nat \X Nat : p[1] < p[2]}
      BY Zenon DEF Below, OpToRel
    <2> QED BY <1>3, <2>1
  <1> QED BY <1>2, <1>3

\* What the function of Without holds after one more element.
Sift(s, gone, g, i) ==
  IF i = 0 THEN <<>> ELSE IF s[i] \in gone THEN g[i - 1] ELSE Append(g[i - 1], s[i])

\* A function that goes through the list the same way ends with Without's result.
LEMMA WithoutIs ==
  ASSUME NEW U, NEW s \in Seq(U), NEW gone, NEW g \in [0..Len(s) -> Seq(U)],
         \A i \in 0..Len(s) : g[i] = Sift(s, gone, g, i)
  PROVE  Without(s, gone) = g[Len(s)]
<1> DEFINE Walk(k) == [i \in 0..Len(s) |->
             IF i = 0 THEN <<>> ELSE IF s[i] \in gone THEN k[i - 1] ELSE Append(k[i - 1], s[i])]
           f == CHOOSE k : k = Walk(k)
<1>1. g = Walk(g)
  BY DEF Sift
<1>2. f = Walk(f)
  BY <1>1, Zenon
<1>3. Without(s, gone) = f[Len(s)]
  BY Zenon DEF Without
<1>4. \A i \in 0..Len(s) : f[i] = Sift(s, gone, f, i)
  <2>1. \A i \in 0..Len(s) : f[i] = Walk(f)[i]
    BY <1>2, Zenon
  <2> HIDE DEF f
  <2> QED BY <2>1 DEF Sift
<1> HIDE DEF f
<1> DEFINE Bad == {i \in 0..Len(s) : f[i] # g[i]}
<1>5. Bad = {}
  <2> SUFFICES ASSUME Bad # {} PROVE FALSE
    OBVIOUS
  <2>2. Bad \subseteq Nat
    BY LenProperties
  <2>3. PICK n \in Bad : \A m \in Bad : n <= m
    <3> HIDE DEF Bad
    <3> QED BY <2>2, LeastNat, Zenon
  <2>4. n \in 0..Len(s) /\ f[n] # g[n] /\ Len(s) \in Nat
    BY <2>3, LenProperties
  <2>5. f[n] = Sift(s, gone, f, n) /\ g[n] = Sift(s, gone, g, n)
    BY <1>4, <2>4, Zenon
  <2>6. n # 0
    BY <2>4, <2>5, Zenon DEF Sift
  <2>7. f[n - 1] = g[n - 1]
    <3>1. n - 1 \in 0..Len(s) /\ ~(n <= n - 1)
      BY <2>4, <2>6
    <3> QED BY <2>3, <3>1
  <2> QED BY <2>4, <2>5, <2>6, <2>7, Zenon DEF Sift
<1> QED BY <1>3, <1>5, LenProperties

LEMMA BodyOfPlain ==
  ASSUME NEW n \in Nat
  PROVE  Without(Chunks(0, n), {Bundle}) = Chunks(0, n)
  <1> DEFINE s == Chunks(0, n)  g == [i \in 0..n |-> Chunks(0, i)]
  <1>1. s \in Seq(Nat) /\ Len(s) = n /\ \A i \in 1..n : s[i] = i
    BY FirstChunks
  <1>2. \A i \in 0..n : Chunks(0, i) \in Seq(Nat) /\ Len(Chunks(0, i)) = i
    BY FirstChunks
  <1>3. \A i \in 0..n : g[i] = Sift(s, {Bundle}, g, i)
    <2> SUFFICES ASSUME NEW i \in 0..n PROVE g[i] = Sift(s, {Bundle}, g, i)
      OBVIOUS
    <2>1. CASE i = 0
      <3>1. Chunks(0, 0) = <<>>
        BY <1>2, EmptySeq
      <3> QED BY <2>1, <3>1 DEF Sift
    <2>2. CASE i # 0
      <3>1. i - 1 \in 0..n /\ i \in 1..n /\ i # 0 /\ i - 1 + 1 = i
        BY <2>2
      <3>2. Chunks(0, i) = Append(Chunks(0, i - 1), i)
        <4>1. i - 1 \in Nat /\ 0 \in Nat /\ 0 <= i - 1
          BY <3>1
        <4>2. Chunks(0, i - 1 + 1) = Append(Chunks(0, i - 1), i - 1 + 1)
          BY <4>1, NextChunk, Zenon
        <4> QED BY <3>1, <4>2
      <3>3. s[i] = i /\ s[i] \notin {Bundle}
        BY <3>1, <1>1 DEF Bundle
      <3>4. g[i] = Chunks(0, i) /\ g[i - 1] = Chunks(0, i - 1)
        BY <3>1
      <3> HIDE DEF g, s
      <3> QED BY <3>1, <3>2, <3>3, <3>4, Zenon DEF Sift
    <2> QED BY <2>1, <2>2
  <1>4. g \in [0..Len(s) -> Seq(Nat)]
    BY <1>1, <1>2
  <1>5. \A i \in 0..Len(s) : g[i] = Sift(s, {Bundle}, g, i)
    BY <1>1, <1>3
  <1>6. Without(s, {Bundle}) = g[Len(s)]
    <2> HIDE DEF g, s
    <2> QED BY <1>1, <1>4, <1>5, WithoutIs, ZenonT(40)
  <1>7. g[Len(s)] = Chunks(0, n)
    BY <1>1
  <1> QED BY <1>6, <1>7

LEMMA BodyOfInserted ==
  ASSUME NEW o \in Nat, NEW n \in Nat, o <= n
  PROVE  Without(WithBundle(o, n), {Bundle}) = Chunks(0, n)
  <1> DEFINE s == WithBundle(o, n)  left(i) == IF i <= o THEN i ELSE i - 1
             g == [i \in 0..(n + 1) |-> Chunks(0, left(i))]
  <1>1. s \in Seq(Nat) /\ Len(s) = n + 1
        /\ \A i \in 1..(n + 1) : s[i] = IF i <= o THEN i ELSE IF i = o + 1 THEN Bundle ELSE i - 1
    BY BundleIsAt
  <1>2. \A i \in 0..(n + 1) : left(i) \in Nat
    OBVIOUS
  <1>3. \A k \in Nat : Chunks(0, k) \in Seq(Nat) /\ Len(Chunks(0, k)) = k
    BY FirstChunks
  <1>4. g \in [0..Len(s) -> Seq(Nat)]
    <2> HIDE DEF left
    <2> QED BY <1>1, <1>2, <1>3
  <1>5. \A i \in 0..(n + 1) : g[i] = Sift(s, {Bundle}, g, i)
    <2> SUFFICES ASSUME NEW i \in 0..(n + 1) PROVE g[i] = Sift(s, {Bundle}, g, i)
      OBVIOUS
    <2>1. CASE i = 0
      <3>1. Chunks(0, 0) = <<>>
        BY <1>3, EmptySeq
      <3> QED BY <2>1, <3>1 DEF Sift
    <2>2. CASE i # 0
      <3>1. i - 1 \in 0..(n + 1) /\ i \in 1..(n + 1) /\ i # 0
        BY <2>2
      <3>2. g[i] = Chunks(0, left(i)) /\ g[i - 1] = Chunks(0, left(i - 1))
        BY <3>1
      <3>3. CASE i = o + 1
        <4>1. left(i) = left(i - 1) /\ s[i] \in {Bundle}
          BY <3>1, <3>3, <1>1
        <4> HIDE DEF g, s, left
        <4> QED BY <3>1, <3>2, <4>1, Zenon DEF Sift
      <3>4. CASE i # o + 1
        <4>1. /\ left(i - 1) \in Nat /\ left(i) = left(i - 1) + 1
              /\ s[i] = left(i) /\ s[i] \notin {Bundle}
          BY <3>1, <3>4, <1>1 DEF Bundle
        <4> HIDE DEF g, s, left
        <4>2. Chunks(0, left(i - 1) + 1) = Append(Chunks(0, left(i - 1)), left(i - 1) + 1)
          <5>1. 0 \in Nat /\ 0 <= left(i - 1)
            BY <4>1
          <5> QED BY <4>1, <5>1, NextChunk, Zenon
        <4> QED BY <3>1, <3>2, <4>1, <4>2, Zenon DEF Sift
      <3> QED BY <3>3, <3>4
    <2> QED BY <2>1, <2>2
  <1>6. \A i \in 0..Len(s) : g[i] = Sift(s, {Bundle}, g, i)
    BY <1>1, <1>5
  <1>7. Without(s, {Bundle}) = g[Len(s)]
    <2> HIDE DEF g, s
    <2> QED BY <1>1, <1>4, <1>6, WithoutIs
  <1>8. g[Len(s)] = Chunks(0, n)
    <2>1. n + 1 \in 0..(n + 1) /\ left(n + 1) = n
      OBVIOUS
    <2> QED BY <1>1, <2>1
  <1> QED BY <1>7, <1>8

-----------------------------------------------------------------------------
(* What the invariant says of a script *)

LEMMA FilteredIsWhole ==
  ASSUME ScriptTypes, NEW hop \in HopType, Filtered(hop, setting)
  PROVE  /\ Body(hop) = Chunks(0, Len(Body(hop)))
         /\ Len(hop.out) <= Len(Body(hop)) + 1
         /\ hop.at = "finished" => Len(Body(hop)) = hop.in
         /\ Bundled(hop) => (setting.metadata => hop.real = "worker") /\ hop.out[setting.offset + 1] = Bundle
         /\ (/\ hop.at = "finished" /\ hop.headers = "sent" /\ hop.real = "worker" /\ hop.bad = 0
             /\ setting.bundle /\ setting.valid /\ hop.in >= setting.offset) => Bundled(hop)
  <1> DEFINE n == hop.in  o == setting.offset
  <1>1. n \in Nat /\ o \in Nat
    BY DEF HopType, ScriptTypes, SettingType
  <1>2. Chunks(0, 0) = <<>> /\ 0 \in Nat
    BY FirstChunks, EmptySeq
  <1>3. CASE \E k \in {0, n} : hop.out = Chunks(0, k) /\ (k = n \/ hop.at # "finished")
    <2>1. PICK k \in {0, n} : hop.out = Chunks(0, k) /\ (k = n \/ hop.at # "finished")
      BY <1>3
    <2>2. k \in Nat /\ Body(hop) = Chunks(0, k) /\ Len(hop.out) = k /\ \A i \in 1..k : hop.out[i] = i
      <3>1. k \in Nat
        BY <1>1
      <3>2. Without(Chunks(0, k), {Bundle}) = Chunks(0, k)
        BY <3>1, BodyOfPlain
      <3>3. Len(Chunks(0, k)) = k /\ \A i \in 1..k : Chunks(0, k)[i] = i
        BY <3>1, FirstChunks
      <3> QED BY <2>1, <3>1, <3>2, <3>3, Zenon DEF Body
    <2>3. ~Bundled(hop)
      BY <2>2 DEF Bundled, Bundle
    <2>4. Len(Body(hop)) = k
      BY <2>1, <2>2
    <2>5. ~(hop.at = "finished" /\ hop.headers = "sent" /\ hop.real = "worker" /\ hop.bad = 0
            /\ setting.bundle /\ setting.valid /\ hop.in >= setting.offset)
      <3> SUFFICES ASSUME hop.at = "finished", hop.headers = "sent", hop.real = "worker", hop.bad = 0,
                          setting.bundle, setting.valid, n >= o
                   PROVE  FALSE
        OBVIOUS
      <3>1. Whole(hop, setting)
        BY DEF Filtered
      <3>2. CASE Plain(hop, setting)
        BY <3>2, <1>1 DEF Plain
      <3>3. CASE Inserted(hop, setting)
        <4>1. hop.out = WithBundle(o, n) /\ o <= n
          BY <3>3 DEF Inserted
        <4>2. Len(hop.out) = n + 1
          <5>1. \A x, y \in Nat : x <= y => Len(WithBundle(x, y)) = y + 1
            BY BundleIsAt
          <5> QED BY <4>1, <5>1, <1>1
        <4> QED BY <4>2, <2>1, <2>2
      <3> QED BY <3>1, <3>2, <3>3 DEF Whole
    <2> QED BY <2>1, <2>2, <2>3, <2>4, <2>5
  <1>4. CASE Inserted(hop, setting)
    <2>1. o <= n /\ hop.out = WithBundle(o, n) /\ (setting.metadata => hop.real = "worker")
      BY <1>4 DEF Inserted
    <2>2. Body(hop) = Chunks(0, n)
      BY <2>1, <1>1, BodyOfInserted DEF Body
    <2>3. Len(hop.out) = n + 1 /\ hop.out[o + 1] = Bundle /\ o + 1 \in 1..(n + 1)
      <3>1. o + 1 \in 1..(n + 1)
        BY <1>1, <2>1
      <3>2. Len(WithBundle(o, n)) = n + 1
            /\ \A i \in 1..(n + 1) : WithBundle(o, n)[i] = IF i <= o THEN i ELSE IF i = o + 1 THEN Bundle ELSE i - 1
        BY <1>1, <2>1, BundleIsAt, ZenonT(40)
      <3> QED BY <1>1, <2>1, <3>1, <3>2
    <2>4. Len(Body(hop)) = n
      BY <2>2, <1>1, FirstChunks
    <2>5. Bundled(hop)
      BY <2>3 DEF Bundled
    <2> QED BY <2>1, <2>2, <2>3, <2>4, <2>5
  <1>5. \/ \E k \in {0, n} : hop.out = Chunks(0, k) /\ (k = n \/ hop.at # "finished")
        \/ Inserted(hop, setting)
    <2>1. hop.phase \in {"buffering", "passthrough", "done"}
      BY DEF HopType, HopPhase, Filtered
    <2>2. CASE hop.phase = "buffering"
      BY <2>2, <1>2 DEF Filtered
    <2>3. CASE hop.phase \in {"passthrough", "done"} /\ Whole(hop, setting)
      BY <2>3 DEF Whole, Plain
    <2>4. CASE hop.phase = "done" /\ ~Whole(hop, setting)
      BY <2>4, <1>2 DEF Filtered
    <2> QED BY <2>1, <2>2, <2>3, <2>4 DEF Filtered
  <1> QED BY <1>3, <1>4, <1>5

LEMMA InvIsRight ==
  ASSUME ScriptInv
  PROVE  ScriptsRight
  <1>1. ScriptWhole
    BY HopFacts, FilteredIsWhole DEF ScriptInv, AllFiltered, ScriptWhole
  <1>2. NoRecordLeft
    BY DEF ScriptInv, Records, Holds, NoRecordLeft
  <1>3. ArmedSpawnServed
    BY DEF ScriptInv, Armed, ArmedSpawnServed, NoneUnserved
  <1> QED BY <1>1, <1>2, <1>3 DEF ScriptsRight

-----------------------------------------------------------------------------
(* A step that changes one hop, or none *)

Alike(a, b) == a.req = b.req /\ a.spawn = b.spawn /\ a.real = b.real /\ a.url = b.url /\ a.kind = b.kind

LEMMA OneHop ==
  ASSUME ScriptTypes, NEW h \in Hop, NEW hop \in HopType, Alike(hops[h], hop), hops' = [hops EXCEPT ![h] = hop]
  PROVE  /\ hops' \in Seq(HopType) /\ Len(hops') = Len(hops) /\ Hop' = Hop /\ hops'[h] = hop
         /\ \A k \in Hop : k # h => hops'[k] = hops[k]
         /\ \A k \in Hop : Alike(hops[k], hops'[k])
         /\ \A k \in Hop : Newest(k)' <=> Newest(k)
  <1>1. /\ hops' \in Seq(HopType) /\ Len(hops') = Len(hops) /\ hops'[h] = hop
        /\ \A k \in Hop : k # h => hops'[k] = hops[k]
    BY Updated DEF ScriptTypes, Hop
  <1>2. Hop' = Hop
    BY <1>1 DEF Hop
  <1>3. \A k \in Hop : Alike(hops[k], hops'[k])
    BY <1>1 DEF Alike
  <1>4. \A k \in Hop : Newest(k)' <=> Newest(k)
    BY <1>2, <1>3 DEF Alike, Newest
  <1> QED BY <1>1, <1>2, <1>3, <1>4

\* A hop with one field set is a hop.
LEMMA HopSet ==
  ASSUME NEW r \in HopType
  PROVE  /\ \A e \in BOOLEAN : [r EXCEPT !.resolved = e] \in HopType /\ [r EXCEPT !.ended = e] \in HopType
         /\ \A e \in {"due", "sent", "failed"} : [r EXCEPT !.headers = e] \in HopType
         /\ \A e \in {"null", "worker", "script"} : [r EXCEPT !.dest = e] \in HopType
         /\ \A e \in HopPhase : [r EXCEPT !.phase = e] \in HopType
         /\ \A e \in Nat : [r EXCEPT !.in = e] \in HopType /\ [r EXCEPT !.bad = e] \in HopType /\ [r EXCEPT !.evals = e] \in HopType
         /\ \A e \in {"idle", "setup", "finished"} : [r EXCEPT !.at = e] \in HopType
         /\ \A e \in {"unknown", "worker", "other"} : [r EXCEPT !.scope = e] \in HopType
         /\ \A e \in Seq(Nat) : [r EXCEPT !.out = e] \in HopType
  <1>1. \A e \in BOOLEAN : [r EXCEPT !.resolved = e] \in HopType
    BY DEF HopType
  <1>2. \A e \in BOOLEAN : [r EXCEPT !.ended = e] \in HopType
    BY DEF HopType
  <1>3. \A e \in {"due", "sent", "failed"} : [r EXCEPT !.headers = e] \in HopType
    BY DEF HopType
  <1>4. \A e \in {"null", "worker", "script"} : [r EXCEPT !.dest = e] \in HopType
    BY DEF HopType
  <1>5. \A e \in HopPhase : [r EXCEPT !.phase = e] \in HopType
    BY DEF HopType
  <1>6. \A e \in Nat : [r EXCEPT !.in = e] \in HopType
    BY DEF HopType
  <1>7. \A e \in Nat : [r EXCEPT !.bad = e] \in HopType
    BY DEF HopType
  <1>8. \A e \in Nat : [r EXCEPT !.evals = e] \in HopType
    BY DEF HopType
  <1>9. \A e \in {"idle", "setup", "finished"} : [r EXCEPT !.at = e] \in HopType
    BY DEF HopType
  <1>10. \A e \in {"unknown", "worker", "other"} : [r EXCEPT !.scope = e] \in HopType
    BY DEF HopType
  <1>11. \A e \in Seq(Nat) : [r EXCEPT !.out = e] \in HopType
    BY DEF HopType
  <1> QED BY <1>1, <1>2, <1>3, <1>4, <1>5, <1>6, <1>7, <1>8, <1>9, <1>10, <1>11

LEMMA HopFields ==
  ASSUME NEW r \in HopType
  PROVE  /\ r.resolved \in BOOLEAN /\ r.ended \in BOOLEAN /\ r.headers \in {"due", "sent", "failed"}
         /\ r.dest \in {"null", "worker", "script"} /\ r.real \in {"worker", "script"}
         /\ r.phase \in HopPhase /\ r.url \in {"document", "target", "other"}
         /\ r.kind \in {"shadow", "inject", "plain"} /\ r.spawn \in Nat /\ r.req \in Nat \ {0}
         /\ r.in \in Nat /\ r.bad \in Nat /\ r.evals \in Nat /\ r.out \in Seq(Nat)
         /\ r.at \in {"idle", "setup", "finished"} /\ r.scope \in {"unknown", "worker", "other"}
  BY DEF HopType

LEMMA ResolvedIs ==
  ASSUME NEW r \in HopType
  PROVE  LET q == Resolved(r) IN
         /\ q \in HopType /\ Alike(r, q) /\ q.headers = r.headers /\ q.dest = r.dest /\ q.resolved
         /\ q.phase = r.phase /\ q.in = r.in /\ q.bad = r.bad /\ q.ended = r.ended /\ q.evals = r.evals
         /\ q.at = r.at /\ q.scope = r.scope /\ q.out = r.out
  <1>1. Resolved(r) \in HopType
    BY HopSet, Zenon DEF Resolved
  <1>2. LET q == Resolved(r) IN
         /\ Alike(r, q) /\ q.headers = r.headers /\ q.dest = r.dest /\ q.resolved
         /\ q.phase = r.phase /\ q.in = r.in /\ q.bad = r.bad /\ q.ended = r.ended /\ q.evals = r.evals
         /\ q.at = r.at /\ q.scope = r.scope /\ q.out = r.out
    BY DEF HopType, Alike, Resolved
  <1> QED BY <1>1, <1>2

LEMMA EvaluatedIs ==
  ASSUME NEW r \in HopType, r.evals > 0
  PROVE  LET q == Evaluated(r) IN
         /\ q \in HopType /\ Alike(r, q) /\ q.headers = r.headers /\ q.dest = r.dest /\ q.resolved = r.resolved
         /\ q.phase = r.phase /\ q.in = r.in /\ q.bad = r.bad /\ q.ended = r.ended /\ q.evals = r.evals - 1
         /\ q.at = "idle" /\ q.scope = r.scope /\ q.out = r.out
  <1> DEFINE s == [r EXCEPT !.evals = r.evals - 1]
  <1>1. r.evals - 1 \in Nat
    BY HopFields
  <1>2. s \in HopType
    BY <1>1, HopSet, Zenon
  <1>3. [s EXCEPT !.at = "idle"] \in HopType
    BY <1>2, HopSet, Zenon
  <1>4. Evaluated(r) = [s EXCEPT !.at = "idle"]
    BY Zenon DEF Evaluated
  <1>5. LET q == Evaluated(r) IN
         /\ Alike(r, q) /\ q.headers = r.headers /\ q.dest = r.dest /\ q.resolved = r.resolved
         /\ q.phase = r.phase /\ q.in = r.in /\ q.bad = r.bad /\ q.ended = r.ended /\ q.evals = r.evals - 1
         /\ q.at = "idle" /\ q.scope = r.scope /\ q.out = r.out
    BY DEF HopType, Alike, Evaluated
  <1> QED BY <1>3, <1>4, <1>5

LEMMA WriteBufferedIs ==
  ASSUME NEW r \in HopType, r.out = <<>>
  PROVE  LET q == WriteBuffered(r) IN
         /\ q \in HopType /\ Alike(r, q) /\ q.headers = r.headers /\ q.dest = r.dest /\ q.resolved = r.resolved
         /\ q.phase = "passthrough" /\ q.in = r.in /\ q.bad = r.bad /\ q.ended = r.ended /\ q.evals = r.evals
         /\ q.at = r.at /\ q.scope = r.scope /\ q.out = Chunks(0, r.in)
  <1>1. Chunks(0, r.in) \in Seq(Nat)
    BY HopFields, FirstChunks
  <1> DEFINE c == Chunks(0, r.in)  s == [r EXCEPT !.out = c]
  <1>2. r.out \o c = c
    BY <1>1, ConcatEmptySeq
  <1> HIDE DEF c
  <1>3. s \in HopType
    BY <1>1, HopSet, Zenon DEF c
  <1>4. [s EXCEPT !.phase = "passthrough"] \in HopType
    BY <1>3, HopSet, Zenon DEF HopPhase
  <1>5. WriteBuffered(r) = [s EXCEPT !.phase = "passthrough"]
    BY <1>2, Zenon DEF WriteBuffered, c
  <1>6. LET q == [r EXCEPT !.out = c, !.phase = "passthrough"] IN
         /\ Alike(r, q) /\ q.headers = r.headers /\ q.dest = r.dest /\ q.resolved = r.resolved
         /\ q.phase = "passthrough" /\ q.in = r.in /\ q.bad = r.bad /\ q.ended = r.ended /\ q.evals = r.evals
         /\ q.at = r.at /\ q.scope = r.scope /\ q.out = c
    BY DEF HopType, Alike
  <1> QED BY <1>4, <1>5, <1>6, Zenon DEF c

\* The spawns are as many as before, and none is armed again.
SpawnsGoOn ==
  /\ spawns' \in Seq(SpawnStatus) /\ Len(spawns') = Len(spawns)
  /\ \A s \in Spawn : spawns[s] # "armed" => spawns'[s] # "armed"

LEMMA SpawnsStay ==
  ASSUME ScriptTypes, spawns' = spawns
  PROVE  SpawnsGoOn /\ Spawn' = Spawn
  BY DEF ScriptTypes, SpawnsGoOn, Spawn

LEMMA SpawnsChange ==
  ASSUME ScriptTypes, NEW s \in Spawn, NEW st \in SpawnStatus \ {"armed"}, spawns' = [spawns EXCEPT ![s] = st]
  PROVE  /\ SpawnsGoOn /\ Spawn' = Spawn /\ spawns'[s] = st
         /\ \A t \in Spawn : t # s => spawns'[t] = spawns[t]
  <1>1. /\ spawns' \in Seq(SpawnStatus) /\ Len(spawns') = Len(spawns) /\ spawns'[s] = st
        /\ \A t \in Spawn : t # s => spawns'[t] = spawns[t]
    BY Updated DEF ScriptTypes, Spawn
  <1> QED BY <1>1 DEF SpawnsGoOn, Spawn

\* The form that the actions of a hop use.
LEMMA SpawnsMapped ==
  ASSUME ScriptTypes, NEW s, NEW st \in SpawnStatus \ {"armed"},
         spawns' = [t \in Spawn |-> IF t = s THEN st ELSE spawns[t]]
  PROVE  /\ SpawnsGoOn /\ Spawn' = Spawn /\ (s \in Spawn => spawns'[s] = st)
         /\ \A t \in Spawn : t # s => spawns'[t] = spawns[t]
  <1>1. Len(spawns) \in Nat /\ \A t \in Spawn : spawns[t] \in SpawnStatus
    BY HopFacts
  <1>2. spawns' \in [1..Len(spawns) -> SpawnStatus]
    BY <1>1 DEF Spawn
  <1>3. spawns' \in Seq(SpawnStatus) /\ Len(spawns') = Len(spawns)
    BY <1>1, <1>2, SeqDef
  <1>4. Spawn' = Spawn
    BY <1>3 DEF Spawn
  <1>5. \A t \in Spawn : spawns'[t] = IF t = s THEN st ELSE spawns[t]
    OBVIOUS
  <1> QED BY <1>3, <1>4, <1>5 DEF SpawnsGoOn

LEMMA RequestsKept ==
  ASSUME ScriptInv, NEW h \in Hop, NEW hop \in HopType, Alike(hops[h], hop), hops' = [hops EXCEPT ![h] = hop],
         SpawnsGoOn, setting' = setting
  PROVE  Requests'
  <1>1. ScriptTypes /\ Requests
    BY DEF ScriptInv
  <1>2. /\ Hop' = Hop /\ Len(hops') = Len(hops) /\ \A k \in Hop : Alike(hops[k], hops'[k])
    BY <1>1, OneHop
  <1>3. setting'.enabled => spawns' = <<>>
    BY <1>1, EmptySeq DEF Requests, ScriptTypes, SpawnsGoOn
  <1>4. \A k \in Hop : hops'[k].spawn # 0 => hops'[k].url # "other"
    BY <1>1, <1>2 DEF Requests, Alike
  <1>5. Spawn' = Spawn
    BY DEF SpawnsGoOn, Spawn
  <1>6. \A k \in Hop : hops'[k].spawn # 0 =>
          hops'[k].spawn \in Spawn' /\ hops'[k].real = "worker" /\ spawns'[hops'[k].spawn] # "armed"
    BY <1>1, <1>2, <1>5 DEF Requests, Alike, SpawnsGoOn
  <1>7. \A k \in Hop : hops'[k].req <= k /\ (hops'[k].kind = "inject" => setting'.enabled)
    BY <1>1, <1>2 DEF Requests, Alike
  <1>8. Len(hops') <= MaxHops
    BY <1>1, <1>2 DEF Requests
  <1>9. /\ \A j, k \in Hop : hops'[j].req = hops'[k].req => hops'[j].real = hops'[k].real /\ hops'[j].spawn = hops'[k].spawn
        /\ \A j, k \in Hop : hops'[j].spawn = hops'[k].spawn /\ hops'[j].spawn # 0 => hops'[j].req = hops'[k].req
    BY <1>1, <1>2 DEF Requests, Alike
  <1> QED BY <1>2, <1>3, <1>4, <1>6, <1>7, <1>8, <1>9 DEF Requests

LEMMA FilteredKept ==
  ASSUME ScriptInv, NEW h \in Hop, NEW hop \in HopType, Alike(hops[h], hop), hops' = [hops EXCEPT ![h] = hop],
         hop.kind = "inject" => Filtered(hop, setting), hop.kind = "shadow" => Told(hop, setting), setting' = setting
  PROVE  AllFiltered'
  <1>1. ScriptTypes /\ AllFiltered
    BY DEF ScriptInv
  <1>2. Hop' = Hop /\ hops'[h] = hop /\ \A k \in Hop : k # h => hops'[k] = hops[k]
    BY <1>1, OneHop
  <1>3. ASSUME NEW k \in Hop
        PROVE  /\ hops'[k].kind = "inject" => Filtered(hops'[k], setting')
               /\ hops'[k].kind = "shadow" => Told(hops'[k], setting')
    <2>1. CASE k = h
      BY <2>1, <1>2
    <2>2. CASE k # h
      <3>1. hops'[k] = hops[k]
        BY <2>2, <1>2
      <3>2. /\ hops[k].kind = "inject" => Filtered(hops[k], setting)
            /\ hops[k].kind = "shadow" => Told(hops[k], setting)
        BY <1>1 DEF AllFiltered
      <3> QED BY <3>1, <3>2
    <2> QED BY <2>1, <2>2
  <1> QED BY <1>2, <1>3 DEF AllFiltered

\* The hop has not ended, or is told nothing that ends it.
Lasts(a, b) ==
  /\ b.phase \in {"redirected", "done"} => a.phase = b.phase
  /\ a.phase \in {"redirected", "again", "done"} => b.phase = a.phase
  /\ b.headers # "failed" => a.headers # "failed"

\* Nothing that a record depends on changes.
LEMMA HoldsStill ==
  ASSUME Hop' = Hop, \A k \in Hop : Alike(hops[k], hops'[k]) /\ (Newest(k)' <=> Newest(k)),
         NEW h \in Hop, NEW r, Holds(h, r), hops'[h].phase = hops[h].phase
                                            \/ (hops[h].phase # "again" /\ hops'[h].phase \notin {"redirected", "done"})
  PROVE  Holds(h, r)'
  <1>1. hops'[h].req = r /\ hops'[h].phase \notin {"redirected", "done"}
    BY DEF Holds, Alike
  <1>2. CASE Newest(h)
    BY <1>1, <1>2 DEF Holds
  <1>3. CASE hops[h].phase = "again" /\ \A k \in Hop : hops[k].req = r /\ k > h => hops[k].kind = "plain"
    <2>1. hops'[h].phase = "again" /\ \A k \in Hop : hops'[k].req = r /\ k > h => hops'[k].kind = "plain"
      BY <1>3 DEF Alike
    <2> QED BY <1>1, <2>1 DEF Holds
  <1> QED BY <1>2, <1>3 DEF Holds

LEMMA RecordStays ==
  ASSUME ScriptInv, NEW h \in Hop, NEW hop \in HopType, Alike(hops[h], hop), hops' = [hops EXCEPT ![h] = hop],
         scriptDest' = scriptDest, Lasts(hops[h], hop)
  PROVE  Records'
  <1>1. ScriptTypes /\ Records
    BY DEF ScriptInv
  <1>2. Hop' = Hop /\ hops'[h] = hop /\ \A k \in Hop : k # h => hops'[k] = hops[k]
    BY <1>1, OneHop
  <1>3. \A k \in Hop : Alike(hops[k], hops'[k]) /\ (Newest(k)' <=> Newest(k))
    BY <1>1, OneHop
  <1>4. \A k \in Hop : Lasts(hops[k], hops'[k])
    BY <1>2 DEF Lasts
  <1>5. \A k \in Hop : Recorded(k)' = Recorded(k)
    BY <1>3 DEF Recorded, Alike
  <1>6. ASSUME NEW r \in DOMAIN scriptDest', scriptDest'[r] # 0
        PROVE  Holds(scriptDest[r], r)'
    <2>1. PICK k \in Hop : k = scriptDest[r] /\ Holds(k, r)
      BY <1>1, <1>6 DEF Records, Holds
    <2>2. \/ hops'[k].phase = hops[k].phase
          \/ hops[k].phase # "again" /\ hops'[k].phase \notin {"redirected", "done"}
      BY <1>4, <2>1 DEF Lasts, Holds
    <2>3. Holds(k, r)'
      BY <1>2, <1>3, <2>1, <2>2, HoldsStill
    <2> QED BY <2>1, <2>3
  <1>7. ASSUME NEW k \in Hop, Newest(k)', hops'[k].kind # "plain",
               hops'[k].phase \notin {"redirected", "done"}, hops'[k].headers # "failed"
        PROVE  Recorded(k)' = k
    <2>1. Newest(k) /\ hops[k].kind # "plain" /\ hops[k].headers # "failed"
      BY <1>3, <1>4, <1>7 DEF Lasts, Alike
    <2>2. CASE hops[k].phase \notin {"redirected", "done"}
      BY <1>1, <1>5, <2>1, <2>2 DEF Records
    <2>3. CASE hops[k].phase \in {"redirected", "done"}
      BY <1>4, <1>7, <2>3 DEF Lasts
    <2> QED BY <2>2, <2>3
  <1> QED BY <1>2, <1>6, <1>7 DEF Records

LEMMA RecordDeleted ==
  ASSUME ScriptInv, NEW h \in Hop, NEW hop \in HopType, Alike(hops[h], hop), hops' = [hops EXCEPT ![h] = hop],
         DeleteScriptDest(h), hop.phase \in {"redirected", "done"}
  PROVE  Records' /\ scriptDest' \in [1..MaxHops -> Nat]
  <1>1. ScriptTypes /\ Records /\ Requests
    BY DEF ScriptInv
  <1>2. Hop' = Hop /\ hops'[h] = hop /\ \A k \in Hop : k # h => hops'[k] = hops[k]
    BY <1>1, OneHop
  <1>3. \A k \in Hop : Alike(hops[k], hops'[k]) /\ (Newest(k)' <=> Newest(k))
    BY <1>1, OneHop
  <1>4. /\ scriptDest' \in [1..MaxHops -> Nat] /\ DOMAIN scriptDest' = DOMAIN scriptDest
        /\ \A r \in DOMAIN scriptDest : scriptDest'[r] = IF r = hops[h].req /\ scriptDest[r] = h THEN 0 ELSE scriptDest[r]
    BY <1>1 DEF ScriptTypes, DeleteScriptDest
  <1>5. \A r \in DOMAIN scriptDest : scriptDest'[r] # 0 => scriptDest'[r] = scriptDest[r] /\ scriptDest[r] # h
    BY <1>1, <1>4 DEF Records, Holds
  <1>6. ASSUME NEW r \in DOMAIN scriptDest', scriptDest'[r] # 0
        PROVE  Holds(scriptDest[r], r)'
    <2>1. scriptDest'[r] = scriptDest[r] /\ scriptDest[r] # h /\ r \in DOMAIN scriptDest
      BY <1>4, <1>5, <1>6
    <2>2. PICK k \in Hop : k = scriptDest[r] /\ Holds(k, r)
      BY <1>1, <1>6, <2>1 DEF Records, Holds
    <2>3. Holds(k, r)'
      BY <1>2, <1>3, <2>1, <2>2, HoldsStill
    <2> QED BY <2>1, <2>2, <2>3
  <1>7. ASSUME NEW k \in Hop, Newest(k)', hops'[k].kind # "plain",
               hops'[k].phase \notin {"redirected", "done"}, hops'[k].headers # "failed"
        PROVE  Recorded(k)' = k
    <2>1. k # h /\ hops'[k] = hops[k]
      BY <1>2, <1>7
    <2>2. Newest(k) /\ Recorded(k) = k
      BY <1>1, <1>3, <1>7, <2>1 DEF Records
    <2>3. hops[k].req \in 1..MaxHops
      <3>1. hops[k] \in HopType /\ k \in 1..Len(hops) /\ Len(hops) \in Nat
        BY <1>1, HopFacts DEF Hop
      <3>2. hops[k].req \in Nat \ {0} /\ hops[k].req <= k /\ Len(hops) <= MaxHops
        BY <1>1, <3>1 DEF HopType, Requests
      <3> QED BY <3>1, <3>2, BoundAssumption
    <2>4. scriptDest'[hops[k].req] = scriptDest[hops[k].req]
      BY <1>1, <1>4, <2>1, <2>2, <2>3 DEF Recorded, ScriptTypes
    <2> QED BY <2>1, <2>2, <2>4 DEF Recorded
  <1> QED BY <1>2, <1>4, <1>6, <1>7 DEF Records

LEMMA RecordGone ==
  ASSUME ScriptInv, NEW h \in Hop, NEW hop \in HopType, Alike(hops[h], hop), hops' = [hops EXCEPT ![h] = hop],
         scriptDest' = [scriptDest EXCEPT ![hops[h].req] = 0], Newest(h),
         hop.headers = "failed" \/ hop.phase = "redirected"
  PROVE  Records' /\ scriptDest' \in [1..MaxHops -> Nat]
  <1>1. ScriptTypes /\ Records
    BY DEF ScriptInv
  <1>2. Hop' = Hop /\ hops'[h] = hop /\ \A k \in Hop : k # h => hops'[k] = hops[k]
    BY <1>1, OneHop
  <1>3. \A k \in Hop : Alike(hops[k], hops'[k]) /\ (Newest(k)' <=> Newest(k))
    BY <1>1, OneHop
  <1>4. /\ scriptDest' \in [1..MaxHops -> Nat] /\ DOMAIN scriptDest' = DOMAIN scriptDest
        /\ \A r \in DOMAIN scriptDest : scriptDest'[r] = IF r = hops[h].req THEN 0 ELSE scriptDest[r]
    BY <1>1 DEF ScriptTypes
  <1>6. ASSUME NEW r \in DOMAIN scriptDest', scriptDest'[r] # 0
        PROVE  Holds(scriptDest[r], r)'
    <2>1. r # hops[h].req /\ scriptDest'[r] = scriptDest[r] /\ r \in DOMAIN scriptDest
      BY <1>4, <1>6
    <2>2. PICK k \in Hop : k = scriptDest[r] /\ Holds(k, r)
      BY <1>1, <1>6, <2>1 DEF Records, Holds
    <2>3. k # h
      BY <2>1, <2>2 DEF Holds
    <2>4. Holds(k, r)'
      BY <1>2, <1>3, <2>2, <2>3, HoldsStill
    <2> QED BY <2>1, <2>2, <2>4
  <1>7. ASSUME NEW k \in Hop, Newest(k)', hops'[k].kind # "plain",
               hops'[k].phase \notin {"redirected", "done"}, hops'[k].headers # "failed"
        PROVE  Recorded(k)' = k
    <2>1. k # h /\ hops'[k] = hops[k]
      BY <1>2, <1>7
    <2>2. Newest(k) /\ Recorded(k) = k
      BY <1>1, <1>3, <1>7, <2>1 DEF Records
    <2>3. hops[k].req # hops[h].req
      <3>1. h \in Nat /\ k \in Nat
        BY <1>1, HopFacts
      <3> QED BY <2>1, <2>2, <3>1 DEF Newest
    <2>4. scriptDest'[hops[k].req] = scriptDest[hops[k].req]
      BY <2>3
    <2> QED BY <2>1, <2>2, <2>4 DEF Recorded
  <1> QED BY <1>2, <1>4, <1>6, <1>7 DEF Records

LEMMA OwedFinite ==
  ASSUME ScriptTypes
  PROVE  IsFiniteSet(Owed) /\ Cardinality(Owed) \in Nat /\ (Owed # {} => Cardinality(Owed) > 0)
  <1>1. IsFiniteSet(Spawn)
    BY HopFacts, FS_Interval DEF Spawn
  <1>2. IsFiniteSet(Owed)
    BY <1>1, FS_Subset DEF Owed
  <1> QED BY <1>2, FS_CardinalityType, FS_EmptySet

\* Nothing about spawns changes, and the hop is not one that starts to be followed.
LEMMA ArmStays ==
  ASSUME ScriptInv, NEW h \in Hop, NEW hop \in HopType, Alike(hops[h], hop), hops' = [hops EXCEPT ![h] = hop],
         arm' = arm, spawns' = spawns,
         hop.kind = "shadow" /\ hop.phase \notin {"serving", "done"} => hops[h].phase \notin {"serving", "done"},
         hop.phase \in {"redirected", "again"} => hop.phase = hops[h].phase
  PROVE  Expected' /\ Armed'
  <1>1. ScriptTypes /\ Expected /\ Armed
    BY DEF ScriptInv
  <1>2. Hop' = Hop /\ hops'[h] = hop /\ \A k \in Hop : k # h => hops'[k] = hops[k]
    BY <1>1, OneHop
  <1>3. \A k \in Hop : Alike(hops[k], hops'[k]) /\ (Newest(k)' <=> Newest(k))
    BY <1>1, OneHop
  <1>4. Expected'
    <2> SUFFICES ASSUME NEW k \in Hop, Newest(k)', hops'[k].kind = "shadow",
                        hops'[k].phase \notin {"serving", "done"}, hops'[k].spawn # 0
                 PROVE  spawns'[hops'[k].spawn] = "requested"
      BY <1>2 DEF Expected
    <2>1. Newest(k) /\ hops[k].kind = "shadow" /\ hops[k].phase \notin {"serving", "done"} /\ hops[k].spawn # 0
      BY <1>2, <1>3 DEF Alike
    <2> QED BY <1>1, <1>3, <2>1 DEF Expected, Alike
  <1>5. Owed' = Owed /\ (NoneUnserved <=> NoneUnserved')
    BY DEF Owed, Spawn, NoneUnserved
  <1>6. \A k \in Hop : Followed(k)' => Followed(k)
    BY <1>2, <1>3 DEF Followed
  <1>7. \A k \in Hop : hops'[k].phase = "again" => hops[k].phase = "again"
    BY <1>2
  <1>8. Armed'
    BY <1>1, <1>2, <1>3, <1>5, <1>6, <1>7 DEF Armed, Alike
  <1> QED BY <1>4, <1>8

LEMMA InjectStep ==
  ASSUME ScriptInv, NEW h \in Hop, Of(h), NEW hop \in HopType, Alike(hops[h], hop), hops' = [hops EXCEPT ![h] = hop],
         Filtered(hop, setting), arm' = arm, spawns' = spawns, setting' = setting,
         Records', scriptDest' \in [1..MaxHops -> Nat]
  PROVE  ScriptInv'
  <1>1. ScriptTypes
    BY DEF ScriptInv
  <1>2. hop.kind = "inject" /\ hop.phase \notin {"redirected", "again", "serving"}
    BY DEF Of, Alike, Filtered
  <1>3. SpawnsGoOn
    BY <1>1, SpawnsStay
  <1>4. Requests'
    BY <1>3, RequestsKept
  <1>5. AllFiltered'
    BY <1>2, FilteredKept
  <1>6. Expected' /\ Armed'
    BY <1>2, ArmStays
  <1>7. ScriptTypes'
    BY <1>1, OneHop DEF ScriptTypes
  <1> QED BY <1>4, <1>5, <1>6, <1>7 DEF ScriptInv

\* ... with the record left alone
LEMMA IdleStep ==
  ASSUME ScriptInv, NEW h \in Hop, Of(h), NEW hop \in HopType, Alike(hops[h], hop), Steps(h, hop),
         Filtered(hop, setting), Lasts(hops[h], hop)
  PROVE  ScriptInv'
  <1>1. /\ hops' = [hops EXCEPT ![h] = hop] /\ arm' = arm /\ spawns' = spawns /\ setting' = setting
        /\ scriptDest' = scriptDest
    BY DEF Steps, Idle
  <1>2. Records'
    BY <1>1, RecordStays
  <1>3. scriptDest' \in [1..MaxHops -> Nat]
    BY <1>1 DEF ScriptInv, ScriptTypes
  <1> QED BY <1>1, <1>2, <1>3, InjectStep

\* The filter that acts
LEMMA FilterFacts ==
  ASSUME ScriptInv, NEW h \in Hop, Of(h)
  PROVE  hops[h] \in HopType /\ Filtered(hops[h], setting) /\ setting \in SettingType
         /\ setting.offset <= setting.prologue
  BY HopFacts DEF ScriptInv, ScriptTypes, AllFiltered, Of

-----------------------------------------------------------------------------
(* The filters *)

LEMMA StopKeeps ==
  ASSUME ScriptInv, NEW h \in Hop, Stop(h)
  PROVE  ScriptInv'
  <1> DEFINE a == hops[h]  q == Resolved(a)  p == [q EXCEPT !.ended = TRUE]  b == [p EXCEPT !.evals = q.evals + 1]
  <1>1. Of(h) /\ ~a.ended /\ a.phase # "done" /\ Steps(h, b)
    <2>1. Steps(h, [Resolved(a) EXCEPT !.ended = TRUE, !.evals = @ + 1])
      BY DEF Stop
    <2>2. [Resolved(a) EXCEPT !.ended = TRUE, !.evals = @ + 1] = b
      OBVIOUS
    <2> QED BY <2>1, <2>2 DEF Stop
  <1>2. a \in HopType /\ Filtered(a, setting)
    BY <1>1, FilterFacts
  <1>3. /\ q \in HopType /\ Alike(a, q) /\ q.headers = a.headers /\ q.dest = a.dest /\ q.resolved
        /\ q.phase = a.phase /\ q.in = a.in /\ q.bad = a.bad /\ q.ended = a.ended /\ q.evals = a.evals
        /\ q.at = a.at /\ q.scope = a.scope /\ q.out = a.out
    BY <1>2, ResolvedIs
  <1> HIDE DEF a, q
  <1>4. b \in HopType
    <2>1. p \in HopType
      BY <1>3, HopSet, Zenon
    <2>2. q.evals + 1 \in Nat
      BY <1>3, HopFields
    <2> HIDE DEF p
    <2> QED BY <2>1, <2>2, HopSet, Zenon
  <1>5. /\ Alike(q, b) /\ b.headers = q.headers /\ b.dest = q.dest /\ b.resolved = q.resolved
        /\ b.phase = q.phase /\ b.in = q.in /\ b.bad = q.bad /\ b.ended /\ b.evals = q.evals + 1
        /\ b.at = q.at /\ b.scope = q.scope /\ b.out = q.out
    BY <1>3 DEF HopType, Alike
  <1> HIDE DEF b
  <1>6. Lasts(a, b) /\ Alike(a, b)
    BY <1>3, <1>5 DEF Lasts, Alike
  <1>7. Filtered(b, setting)
    BY <1>1, <1>2, <1>3, <1>5, HopFields DEF Filtered, Whole, Plain, Inserted, Alike
  <1> QED BY <1>1, <1>4, <1>6, <1>7, IdleStep DEF a

LEMMA FilterErrorKeeps ==
  ASSUME ScriptInv, NEW h \in Hop, FilterError(h)
  PROVE  ScriptInv'
  <1> DEFINE a == hops[h]  q == Resolved(a)  b == [q EXCEPT !.phase = "done"]
  <1>1. /\ Of(h) /\ ~a.ended /\ a.phase # "done" /\ hops' = [hops EXCEPT ![h] = b]
        /\ DeleteScriptDest(h) /\ arm' = arm /\ spawns' = spawns /\ setting' = setting
    BY DEF FilterError
  <1>2. a \in HopType /\ Filtered(a, setting)
    BY <1>1, FilterFacts
  <1>3. /\ q \in HopType /\ Alike(a, q) /\ q.headers = a.headers /\ q.dest = a.dest /\ q.resolved
        /\ q.phase = a.phase /\ q.in = a.in /\ q.bad = a.bad /\ q.ended = a.ended /\ q.evals = a.evals
        /\ q.at = a.at /\ q.scope = a.scope /\ q.out = a.out
    BY <1>2, ResolvedIs
  <1> HIDE DEF q
  <1>4. b \in HopType
    BY <1>3, HopSet, Zenon DEF HopPhase
  <1>5. /\ Alike(q, b) /\ b.headers = q.headers /\ b.dest = q.dest /\ b.resolved = q.resolved
        /\ b.phase = "done" /\ b.in = q.in /\ b.bad = q.bad /\ b.ended = q.ended /\ b.evals = q.evals
        /\ b.at = q.at /\ b.scope = q.scope /\ b.out = q.out
    BY <1>3 DEF HopType, Alike
  <1> HIDE DEF b
  <1>6. Alike(a, b)
    BY <1>3, <1>5 DEF Alike
  <1>7. Records' /\ scriptDest' \in [1..MaxHops -> Nat]
    BY <1>1, <1>4, <1>5, <1>6, RecordDeleted
  <1> HIDE DEF a
  <1>8. Filtered(b, setting)
    BY <1>1, <1>2, <1>3, <1>5, HopFields DEF Filtered, Whole, Plain, Inserted, Alike, HopPhase
  <1> QED BY <1>1, <1>4, <1>6, <1>7, <1>8, InjectStep DEF a

LEMMA FinishKeeps ==
  ASSUME ScriptInv, NEW h \in Hop, Finish(h)
  PROVE  ScriptInv'
  <1> DEFINE a == hops[h]  b == [a EXCEPT !.phase = "done", !.at = "finished"]
  <1>1. Of(h)
    BY DEF Finish
  <1>2. a \in HopType /\ Filtered(a, setting)
    BY <1>1, FilterFacts
  <1>3. a.phase # "buffering" /\ a.phase # "done"
    <2>1. CASE a.phase = "buffering"
      <3>1. WriteBuffered(a).ended = a.ended /\ WriteBuffered(a).evals = a.evals
        BY <1>2 DEF HopType, WriteBuffered
      <3>2. WriteBuffered(a).ended /\ WriteBuffered(a).evals = 0
        BY <2>1 DEF Finish
      <3> QED BY <2>1, <1>2, <3>1, <3>2 DEF Filtered
    <2> QED BY <2>1 DEF Finish
  <1>4. /\ a.ended /\ a.evals = 0 /\ hops' = [hops EXCEPT ![h] = b]
        /\ DeleteScriptDest(h) /\ arm' = arm /\ spawns' = spawns /\ setting' = setting
    BY <1>3 DEF Finish
  <1>5. /\ b \in HopType /\ Alike(a, b) /\ b.headers = a.headers /\ b.dest = a.dest /\ b.resolved = a.resolved
        /\ b.phase = "done" /\ b.in = a.in /\ b.bad = a.bad /\ b.ended = a.ended /\ b.evals = a.evals
        /\ b.at = "finished" /\ b.scope = a.scope /\ b.out = a.out
    <2> DEFINE p == [a EXCEPT !.phase = "done"]
    <2>1. p \in HopType
      BY <1>2, HopSet DEF HopPhase
    <2>2. b = [p EXCEPT !.at = "finished"]
      OBVIOUS
    <2>3. b \in HopType
      <3> HIDE DEF p, b
      <3> QED BY <2>1, <2>2, HopSet, Zenon
    <2> QED BY <1>2, <2>3 DEF HopType, Alike
  <1> HIDE DEF b
  <1>6. Records' /\ scriptDest' \in [1..MaxHops -> Nat]
    BY <1>4, <1>5, RecordDeleted
  <1> HIDE DEF a
  <1>7. a.phase = "passthrough"
    BY <1>2, <1>3 DEF HopType, HopPhase, Filtered
  <1>8. Filtered(b, setting)
    BY <1>2, <1>4, <1>5, <1>7 DEF Filtered, Whole, Plain, Inserted, Alike, HopType
  <1> QED BY <1>1, <1>4, <1>5, <1>6, <1>8, InjectStep DEF a

LEMMA DataKeeps ==
  ASSUME ScriptInv, NEW h \in Hop, NEW bad \in BOOLEAN, Data(h, bad)
  PROVE  ScriptInv'
  <1> DEFINE a == hops[h]  q == [a EXCEPT !.in = a.in + 1]
  <1>1. /\ Of(h) /\ ~a.ended /\ a.phase # "done"
        /\ IF q.phase = "passthrough" THEN ~bad /\ Steps(h, [q EXCEPT !.out = Append(@, q.in)])
           ELSE Steps(h, [q EXCEPT !.bad = IF bad /\ @ = 0 THEN q.in ELSE @, !.evals = @ + 1])
    BY DEF Data
  <1>2. a \in HopType /\ Filtered(a, setting) /\ setting \in SettingType
    BY <1>1, FilterFacts
  <1>3. q \in HopType
    <2>1. a.in + 1 \in Nat
      BY <1>2, HopFields
    <2> HIDE DEF a
    <2> QED BY <1>2, <2>1, HopSet, Zenon
  <1>4. /\ Alike(a, q) /\ q.headers = a.headers /\ q.dest = a.dest /\ q.resolved = a.resolved
        /\ q.phase = a.phase /\ q.in = a.in + 1 /\ q.bad = a.bad /\ q.ended = a.ended /\ q.evals = a.evals
        /\ q.at = a.at /\ q.scope = a.scope /\ q.out = a.out
    BY <1>2 DEF HopType, Alike
  <1> HIDE DEF a, q
  <1>5. CASE a.phase = "passthrough"
    <2> DEFINE b == [q EXCEPT !.out = Append(q.out, q.in)]
    <2>1. Steps(h, b)
      BY <1>1, <1>4, <1>5
    <2>2. q.out \in Seq(Nat) /\ q.in \in Nat /\ a.in \in Nat
      BY <1>2, <1>3, HopFields
    <2>3. Append(q.out, q.in) \in Seq(Nat)
      BY <2>2
    <2>4. b \in HopType
      BY <1>3, <2>3, HopSet, Zenon
    <2>5. /\ Alike(q, b) /\ b.headers = q.headers /\ b.dest = q.dest /\ b.resolved = q.resolved
          /\ b.phase = q.phase /\ b.in = q.in /\ b.bad = q.bad /\ b.ended = q.ended /\ b.evals = q.evals
          /\ b.at = q.at /\ b.scope = q.scope /\ b.out = Append(q.out, q.in)
      BY <1>3 DEF HopType, Alike
    <2> HIDE DEF b
    <2>6. Lasts(a, b) /\ Alike(a, b)
      BY <1>4, <2>5 DEF Lasts, Alike
    <2>7. Whole(b, setting)
      <3>1. CASE Plain(a, setting)
        <4>1. b.out = Append(Chunks(0, a.in), a.in + 1)
          BY <3>1, <1>4, <2>5 DEF Plain
        <4>2. \A k \in Nat : Chunks(0, k + 1) = Append(Chunks(0, k), k + 1)
          <5>1. 0 \in Nat /\ \A k \in Nat : 0 <= k
            OBVIOUS
          <5> QED BY <5>1, NextChunk
        <4>3. b.out = Chunks(0, b.in)
          BY <2>2, <4>1, <4>2, <1>4, <2>5
        <4>4. Plain(b, setting)
          BY <3>1, <4>3, <1>1, <1>4, <2>5 DEF Plain, Alike
        <4> QED BY <4>4 DEF Whole
      <3>2. CASE Inserted(a, setting)
        <4> DEFINE o == setting.offset
        <4>1. o \in Nat /\ o <= a.in /\ b.out = Append(WithBundle(o, a.in), a.in + 1)
          BY <3>2, <1>2, <1>4, <2>5 DEF Inserted, SettingType
        <4>2. \A j, k \in Nat : j <= k => WithBundle(j, k + 1) = Append(WithBundle(j, k), k + 1)
          BY NextChunkBehind
        <4> HIDE DEF o
        <4>3. b.out = WithBundle(o, b.in) /\ o <= b.in
          <5>1. b.in = a.in + 1 /\ WithBundle(o, a.in + 1) = Append(WithBundle(o, a.in), a.in + 1)
            BY <2>2, <4>1, <4>2, <1>4, <2>5
          <5> QED BY <2>2, <4>1, <5>1
        <4>4. Inserted(b, setting)
          BY <3>2, <4>3, <1>4, <2>5 DEF Inserted, Alike, o
        <4> QED BY <4>4 DEF Whole
      <3> QED BY <3>1, <3>2, <1>2, <1>5 DEF Filtered, Whole
    <2>8. Filtered(b, setting)
      BY <1>1, <1>2, <1>4, <1>5, <2>2, <2>5, <2>7, HopFields DEF Filtered, Alike
    <2> QED BY <1>1, <2>1, <2>4, <2>6, <2>8, IdleStep DEF a
  <1>6. CASE a.phase # "passthrough"
    <2> DEFINE w == IF bad /\ q.bad = 0 THEN q.in ELSE q.bad
               p == [q EXCEPT !.bad = w]  b == [p EXCEPT !.evals = q.evals + 1]
    <2>1. Steps(h, b)
      <3>1. [q EXCEPT !.bad = IF bad /\ @ = 0 THEN q.in ELSE @, !.evals = @ + 1] = b
        OBVIOUS
      <3> HIDE DEF b
      <3> QED BY <1>1, <1>4, <1>6, <3>1
    <2>2. w \in Nat /\ q.evals + 1 \in Nat /\ w <= q.in
      BY <1>2, <1>3, <1>4, HopFields DEF Filtered
    <2> HIDE DEF w
    <2>3. p \in HopType
      BY <1>3, <2>2, HopSet, Zenon
    <2>4. b \in HopType
      <3> HIDE DEF p
      <3> QED BY <2>2, <2>3, HopSet, Zenon
    <2>5. /\ Alike(q, b) /\ b.headers = q.headers /\ b.dest = q.dest /\ b.resolved = q.resolved
          /\ b.phase = q.phase /\ b.in = q.in /\ b.bad = w /\ b.ended = q.ended /\ b.evals = q.evals + 1
          /\ b.at = q.at /\ b.scope = q.scope /\ b.out = q.out
      BY <1>3 DEF HopType, Alike
    <2> HIDE DEF b
    <2>6. Lasts(a, b) /\ Alike(a, b)
      BY <1>4, <2>5 DEF Lasts, Alike
    <2>7. a.phase = "buffering"
      BY <1>1, <1>2, <1>6, HopFields DEF Filtered, HopPhase
    <2>8. Filtered(b, setting)
      BY <1>1, <1>2, <1>4, <2>2, <2>5, <2>7, HopFields DEF Filtered, Alike
    <2> QED BY <1>1, <2>1, <2>4, <2>6, <2>8, IdleStep DEF a
  <1> QED BY <1>5, <1>6

LEMMA WriteWithBundleIs ==
  ASSUME NEW r \in HopType, setting \in SettingType, setting.offset <= r.in
  PROVE  LET q == WriteWithBundle(r) IN
         /\ q \in HopType /\ Alike(r, q) /\ q.headers = r.headers /\ q.dest = r.dest /\ q.resolved = r.resolved
         /\ q.phase = "passthrough" /\ q.in = r.in /\ q.bad = r.bad /\ q.ended = r.ended /\ q.evals = r.evals
         /\ q.at = r.at /\ q.scope = r.scope /\ q.out = WithBundle(setting.offset, r.in)
  <1> DEFINE c == WithBundle(setting.offset, r.in)  s == [r EXCEPT !.out = c]
  <1>1. c \in Seq(Nat)
    <2>1. setting.offset \in Nat /\ r.in \in Nat
      BY HopFields DEF SettingType
    <2> QED BY <2>1, BundleIsAt, Zenon
  <1>2. WriteWithBundle(r) = [s EXCEPT !.phase = "passthrough"]
    BY Zenon DEF WriteWithBundle, WithBundle
  <1> HIDE DEF c
  <1>3. s \in HopType
    BY <1>1, HopSet, Zenon
  <1>4. [s EXCEPT !.phase = "passthrough"] \in HopType
    BY <1>3, HopSet, Zenon DEF HopPhase
  <1>5. LET q == [r EXCEPT !.out = c, !.phase = "passthrough"] IN
         /\ Alike(r, q) /\ q.headers = r.headers /\ q.dest = r.dest /\ q.resolved = r.resolved
         /\ q.phase = "passthrough" /\ q.in = r.in /\ q.bad = r.bad /\ q.ended = r.ended /\ q.evals = r.evals
         /\ q.at = r.at /\ q.scope = r.scope /\ q.out = c
    BY DEF HopType, Alike
  <1> QED BY <1>2, <1>4, <1>5, Zenon DEF c

\* An evaluation that ends, of a filter that is r by then
LEMMA EvaluationEnds ==
  ASSUME ScriptInv, NEW h \in Hop, Of(h), NEW r \in HopType, Alike(hops[h], r), Steps(h, Evaluated(r)),
         Filtered(r, setting), Lasts(hops[h], r), r.evals > 0, r.at # "finished",
         r.phase = "buffering" => ~r.ended
  PROVE  ScriptInv'
  <1> DEFINE a == hops[h]  b == Evaluated(r)
  <1>1. /\ b \in HopType /\ Alike(r, b) /\ b.headers = r.headers /\ b.dest = r.dest /\ b.resolved = r.resolved
        /\ b.phase = r.phase /\ b.in = r.in /\ b.bad = r.bad /\ b.ended = r.ended /\ b.evals = r.evals - 1
        /\ b.at = "idle" /\ b.scope = r.scope /\ b.out = r.out
    BY EvaluatedIs
  <1> HIDE DEF b
  <1>2. Alike(a, b) /\ Lasts(a, b)
    BY <1>1 DEF Alike, Lasts
  <1>3. Filtered(b, setting)
    BY <1>1 DEF Filtered, Whole, Plain, Inserted, Alike
  <1> QED BY <1>1, <1>2, <1>3, IdleStep DEF b

LEMMA EvaluateBufferedKeeps ==
  ASSUME ScriptInv, NEW h \in Hop, EvaluateBuffered(h)
  PROVE  ScriptInv'
  <1> DEFINE a == hops[h]
  <1>1. /\ Of(h) /\ a.evals > 0 /\ a.at = "idle"
        /\ Steps(h, IF a.phase # "buffering" THEN Evaluated(a)
                    ELSE IF a.bad # 0 THEN Evaluated(WriteBuffered(a))
                    ELSE [a EXCEPT !.at = "setup"])
    BY DEF EvaluateBuffered
  <1>2. a \in HopType /\ Filtered(a, setting)
    BY <1>1, FilterFacts
  <1>3. CASE a.phase # "buffering"
    <2>1. Steps(h, Evaluated(a))
      BY <1>1, <1>3
    <2>2. Alike(a, a) /\ Lasts(a, a)
      BY DEF Alike, Lasts
    <2> QED BY <1>1, <1>2, <1>3, <2>1, <2>2, EvaluationEnds
  <1>4. CASE a.phase = "buffering" /\ a.bad # 0
    <2> DEFINE r == WriteBuffered(a)
    <2>1. Steps(h, Evaluated(r))
      BY <1>1, <1>4
    <2>2. /\ r \in HopType /\ Alike(a, r) /\ r.headers = a.headers /\ r.dest = a.dest /\ r.resolved = a.resolved
          /\ r.phase = "passthrough" /\ r.in = a.in /\ r.bad = a.bad /\ r.ended = a.ended /\ r.evals = a.evals
          /\ r.at = a.at /\ r.scope = a.scope /\ r.out = Chunks(0, a.in)
      BY <1>2, <1>4, WriteBufferedIs DEF Filtered
    <2> HIDE DEF a, r
    <2>3. Lasts(a, r)
      BY <1>4, <2>2 DEF Lasts
    <2>4. Filtered(r, setting)
      BY <1>1, <1>2, <1>4, <2>2 DEF Filtered, Whole, Plain, Alike
    <2> QED BY <1>1, <2>1, <2>2, <2>3, <2>4, EvaluationEnds DEF a
  <1>5. CASE a.phase = "buffering" /\ a.bad = 0
    <2> DEFINE b == [a EXCEPT !.at = "setup"]
    <2>1. Steps(h, b)
      BY <1>1, <1>5
    <2>2. b \in HopType
      BY <1>2, HopSet, Zenon
    <2>3. /\ Alike(a, b) /\ b.headers = a.headers /\ b.dest = a.dest /\ b.resolved = a.resolved
          /\ b.phase = a.phase /\ b.in = a.in /\ b.bad = a.bad /\ b.ended = a.ended /\ b.evals = a.evals
          /\ b.at = "setup" /\ b.scope = a.scope /\ b.out = a.out
      BY <1>2 DEF HopType, Alike
    <2> HIDE DEF a, b
    <2>4. Lasts(a, b)
      BY <2>3 DEF Lasts
    <2>5. Filtered(b, setting)
      BY <1>1, <1>2, <1>5, <2>3 DEF Filtered, Alike
    <2> QED BY <1>1, <2>1, <2>2, <2>3, <2>4, <2>5, IdleStep DEF a
  <1> QED BY <1>3, <1>4, <1>5

LEMMA DecideKeeps ==
  ASSUME ScriptInv, NEW h \in Hop, Decide(h)
  PROVE  ScriptInv'
  <1> DEFINE a == hops[h]  sc == Scope(a)  q == [a EXCEPT !.scope = sc]
  <1>1. /\ Of(h) /\ q.at = "setup" /\ q.resolved
        /\ Steps(h, Evaluated(
             IF q.phase # "buffering" THEN q
             ELSE IF q.scope = "other" \/ ~setting.bundle THEN WriteBuffered(q)
             ELSE IF Parsed(q) = "pending" THEN q
             ELSE IF Parsed(q) = "invalid" THEN WriteBuffered(q)
             ELSE WriteWithBundle(q)))
    BY DEF Decide
  <1>2. a \in HopType /\ Filtered(a, setting) /\ setting \in SettingType /\ setting.offset <= setting.prologue
    BY <1>1, FilterFacts
  <1>3. sc \in {"worker", "other"}
    BY <1>2, HopFields DEF Scope
  <1>4. /\ sc = "worker" => (setting.metadata => a.real = "worker")
        /\ a.headers = "sent" /\ a.real = "worker" => sc = "worker"
    BY <1>2, <1>3, HopFields DEF Scope, Filtered
  <1> HIDE DEF sc
  <1>5. q \in HopType
    BY <1>2, <1>3, HopSet
  <1>6. /\ Alike(a, q) /\ q.headers = a.headers /\ q.dest = a.dest /\ q.resolved = a.resolved
        /\ q.phase = a.phase /\ q.in = a.in /\ q.bad = a.bad /\ q.ended = a.ended /\ q.evals = a.evals
        /\ q.at = a.at /\ q.scope = sc /\ q.out = a.out
    BY <1>2 DEF HopType, Alike
  <1> HIDE DEF a, q
  <1>7. Filtered(q, setting) /\ Lasts(a, q)
    <2>1. Filtered(q, setting)
      BY <1>1, <1>2, <1>4, <1>6 DEF Filtered, Whole, Plain, Inserted, Alike
    <2> QED BY <2>1, <1>6 DEF Lasts
  <1>8. q.evals > 0 /\ q.at # "finished"
    BY <1>1, <1>2, <1>6 DEF Filtered
  \* The filter lets pass what it has, as it is.
  <1>9. ASSUME q.phase = "buffering", Steps(h, Evaluated(WriteBuffered(q))),
               q.headers = "sent" /\ q.real = "worker" /\ q.bad = 0 /\ setting.bundle /\ setting.valid
                 => q.ended /\ q.in < setting.offset
        PROVE  ScriptInv'
    <2> DEFINE r == WriteBuffered(q)
    <2>1. /\ r \in HopType /\ Alike(q, r) /\ r.headers = q.headers /\ r.dest = q.dest /\ r.resolved = q.resolved
          /\ r.phase = "passthrough" /\ r.in = q.in /\ r.bad = q.bad /\ r.ended = q.ended /\ r.evals = q.evals
          /\ r.at = q.at /\ r.scope = q.scope /\ r.out = Chunks(0, q.in)
      BY <1>5, <1>7, <1>9, WriteBufferedIs DEF Filtered
    <2>2. Steps(h, Evaluated(r))
      BY <1>9
    <2> HIDE DEF r
    <2>3. Lasts(a, r) /\ Alike(a, r)
      BY <1>6, <1>9, <2>1 DEF Lasts, Alike
    <2>4. Plain(r, setting)
      BY <1>1, <1>9, <2>1 DEF Plain, Alike
    <2>5. Filtered(r, setting)
      BY <1>7, <1>8, <1>9, <2>1, <2>4 DEF Filtered, Whole, Alike
    <2> QED BY <1>1, <1>8, <2>1, <2>2, <2>3, <2>5, EvaluationEnds DEF a
  <1>10. CASE q.phase # "buffering"
    <2>1. Steps(h, Evaluated(q))
      BY <1>1, <1>10
    <2> QED BY <1>1, <1>5, <1>6, <1>7, <1>8, <1>10, <2>1, EvaluationEnds DEF a
  <1>11. CASE q.phase = "buffering" /\ (q.scope = "other" \/ ~setting.bundle)
    <2>1. Steps(h, Evaluated(WriteBuffered(q)))
      BY <1>1, <1>11
    <2>2. q.headers = "sent" /\ q.real = "worker" => q.scope # "other"
      BY <1>7 DEF Filtered
    <2> QED BY <1>9, <1>11, <2>1, <2>2
  <1>12. CASE q.phase = "buffering" /\ ~(q.scope = "other" \/ ~setting.bundle)
    <2>1. CASE Parsed(q) = "pending"
      <3>1. Steps(h, Evaluated(q))
        BY <1>1, <1>12, <2>1
      <3>2. ~q.ended
        BY <2>1 DEF Parsed
      <3> QED BY <1>1, <1>5, <1>6, <1>7, <1>8, <3>1, <3>2, EvaluationEnds DEF a
    <2>2. CASE Parsed(q) = "invalid"
      <3>1. Steps(h, Evaluated(WriteBuffered(q)))
        BY <1>1, <1>12, <2>2
      <3>2. q.bad = 0 /\ setting.valid => q.ended /\ q.in < setting.offset
        BY <1>2, <1>5, <2>2, HopFields DEF Parsed, Text, SettingType
      <3> QED BY <1>9, <1>12, <3>1, <3>2
    <2>3. CASE Parsed(q) = "ready"
      <3> DEFINE r == WriteWithBundle(q)
      <3>1. Steps(h, Evaluated(r))
        BY <1>1, <1>12, <2>3
      <3>2. setting.offset <= q.in
        <4>1. q.bad <= q.in
          BY <1>7 DEF Filtered
        <4>2. Text(q) >= setting.offset
          BY <2>3 DEF Parsed
        <4> QED BY <1>2, <1>5, <4>1, <4>2, HopFields DEF Text, SettingType
      <3>3. /\ r \in HopType /\ Alike(q, r) /\ r.headers = q.headers /\ r.dest = q.dest /\ r.resolved = q.resolved
            /\ r.phase = "passthrough" /\ r.in = q.in /\ r.bad = q.bad /\ r.ended = q.ended /\ r.evals = q.evals
            /\ r.at = q.at /\ r.scope = q.scope /\ r.out = WithBundle(setting.offset, q.in)
        BY <1>2, <1>5, <3>2, WriteWithBundleIs
      <3> HIDE DEF r
      <3>4. Lasts(a, r) /\ Alike(a, r)
        BY <1>6, <1>12, <3>3 DEF Lasts, Alike
      <3>5. q.scope = "worker"
        BY <1>3, <1>6, <1>12
      <3>6. Inserted(r, setting)
        BY <1>7, <3>2, <3>3, <3>5 DEF Inserted, Filtered, Alike
      <3>7. Filtered(r, setting)
        BY <1>7, <1>8, <1>12, <3>3, <3>6 DEF Filtered, Whole, Alike
      <3> QED BY <1>1, <1>8, <3>1, <3>3, <3>4, <3>7, EvaluationEnds DEF a
    <2> QED BY <2>1, <2>2, <2>3 DEF Parsed
  <1> QED BY <1>10, <1>11, <1>12

-----------------------------------------------------------------------------
(* What happens to hops of either kind *)

LEMMA HopStep ==
  ASSUME ScriptInv, NEW h \in Hop, NEW hop \in HopType, Alike(hops[h], hop), hops' = [hops EXCEPT ![h] = hop],
         hop.kind = "inject" => Filtered(hop, setting), hop.kind = "shadow" => Told(hop, setting),
         SpawnsGoOn, setting' = setting, arm' \in ArmType, scriptDest' \in [1..MaxHops -> Nat],
         Records', Expected', Armed'
  PROVE  ScriptInv'
  <1>1. ScriptTypes
    BY DEF ScriptInv
  <1>2. Requests'
    BY RequestsKept
  <1>3. AllFiltered'
    BY FilteredKept
  <1>4. ScriptTypes'
    BY <1>1, OneHop DEF ScriptTypes, SpawnsGoOn, ArmType
  <1> QED BY <1>2, <1>3, <1>4 DEF ScriptInv

\* The destination of a hop is told, to one hop or two: no phase changes.
LEMMA DestinationsTold ==
  ASSUME ScriptInv, hops' \in Seq(HopType), Len(hops') = Len(hops),
         \A k \in Hop : Alike(hops[k], hops'[k]) /\ hops'[k].phase = hops[k].phase,
         \A k \in Hop : hops'[k].headers # "failed" => hops[k].headers # "failed",
         \A k \in Hop : /\ hops'[k].kind = "inject" => Filtered(hops'[k], setting)
                        /\ hops'[k].kind = "shadow" => Told(hops'[k], setting),
         scriptDest' = scriptDest, arm' = arm, spawns' = spawns, setting' = setting
  PROVE  ScriptInv'
  <1>1. ScriptTypes /\ Requests /\ Records /\ Expected /\ Armed
    BY DEF ScriptInv
  <1>2. Hop' = Hop /\ Spawn' = Spawn
    BY DEF Hop, Spawn
  <1>3. \A k \in Hop : (Newest(k)' <=> Newest(k)) /\ Recorded(k)' = Recorded(k)
    BY <1>2 DEF Newest, Recorded, Alike
  <1>4. ScriptTypes'
    BY <1>1 DEF ScriptTypes
  <1>5. Requests'
    BY <1>1, <1>2 DEF Requests, Alike
  <1>6. Records'
    <2>1. ASSUME NEW r \in DOMAIN scriptDest', scriptDest'[r] # 0 PROVE Holds(scriptDest[r], r)'
      <3>1. PICK k \in Hop : k = scriptDest[r] /\ Holds(k, r)
        BY <1>1, <2>1 DEF Records, Holds
      <3>2. Holds(k, r)'
        BY <1>2, <1>3, <3>1, HoldsStill
      <3> QED BY <3>1, <3>2
    <2>2. ASSUME NEW k \in Hop, Newest(k)', hops'[k].kind # "plain",
                 hops'[k].phase \notin {"redirected", "done"}, hops'[k].headers # "failed"
          PROVE  Recorded(k)' = k
      BY <1>1, <1>3, <2>2 DEF Records, Alike
    <2> QED BY <1>2, <2>1, <2>2 DEF Records
  <1>7. AllFiltered'
    BY <1>2 DEF AllFiltered
  <1>8. Expected'
    BY <1>1, <1>2, <1>3 DEF Expected, Alike
  <1>9. Owed' = Owed /\ (NoneUnserved <=> NoneUnserved')
    BY <1>2 DEF Owed, NoneUnserved
  <1>10. \A k \in Hop : Followed(k)' <=> Followed(k)
    BY <1>3 DEF Followed
  <1>11. Armed'
    BY <1>1, <1>2, <1>9, <1>10 DEF Armed, Alike
  <1> QED BY <1>4, <1>5, <1>6, <1>7, <1>8, <1>11 DEF ScriptInv

\* The headers of a hop that has no record are sent.
LEMMA HeadersPass ==
  ASSUME ScriptInv, NEW h \in Hop, OnBeforeSendHeaders(h), Recorded(h) = 0
  PROVE  ScriptInv'
  <1> DEFINE a == hops[h]  b == [a EXCEPT !.headers = "sent"]
  <1>1. /\ a.headers = "due" /\ Newest(h) /\ a.phase \notin {"done", "redirected", "again"}
        /\ scriptDest' = scriptDest /\ arm' = arm /\ spawns' = spawns /\ setting' = setting
        /\ hops' = [hops EXCEPT ![h].headers = "sent"]
    BY DEF OnBeforeSendHeaders
  <1>2. ScriptTypes /\ Records /\ AllFiltered /\ a \in HopType /\ h \in Nat \ {0}
    BY HopFacts DEF ScriptInv
  <1>3. a.kind = "plain"
    BY <1>1, <1>2 DEF Records
  <1>4. hops' = [hops EXCEPT ![h] = b]
    <2>1. h \in DOMAIN hops
      BY <1>2, LenProperties DEF ScriptTypes, Hop
    <2> QED BY <1>1, <2>1
  <1>5. b \in HopType /\ Alike(a, b) /\ b.phase = a.phase /\ b.headers = "sent"
    <2>1. b \in HopType
      BY <1>2, HopSet
    <2> QED BY <2>1, <1>2 DEF HopType, Alike
  <1> HIDE DEF b
  <1>6. /\ hops' \in Seq(HopType) /\ Len(hops') = Len(hops) /\ hops'[h] = b
        /\ \A k \in Hop : k # h => hops'[k] = hops[k]
    BY <1>2, <1>4, <1>5, OneHop
  <1>7. \A k \in Hop : Alike(hops[k], hops'[k]) /\ hops'[k].phase = hops[k].phase
    BY <1>5, <1>6 DEF Alike
  <1>8. \A k \in Hop : hops'[k].headers # "failed" => hops[k].headers # "failed"
    BY <1>1, <1>6
  <1>9. \A k \in Hop : /\ hops'[k].kind = "inject" => Filtered(hops'[k], setting)
                       /\ hops'[k].kind = "shadow" => Told(hops'[k], setting)
    BY <1>2, <1>3, <1>5, <1>6 DEF AllFiltered, Alike
  <1> QED BY <1>1, <1>6, <1>7, <1>8, <1>9, DestinationsTold

\* ... of one that has a record, its own or that of an earlier hop
LEMMA HeadersTell ==
  ASSUME ScriptInv, NEW h \in Hop, OnBeforeSendHeaders(h), Recorded(h) # 0
  PROVE  ScriptInv'
  <1> DEFINE k == Recorded(h)  a == hops[h]  p == [a EXCEPT !.headers = "sent"]
             seen == [hops EXCEPT ![h] = p]
             d == IF setting.metadata THEN a.real ELSE "null"
             q == Resolved(seen[k])  b == [q EXCEPT !.dest = d]
  <1>1. /\ a.headers = "due" /\ Newest(h) /\ ~a.ended /\ a.phase \notin {"done", "redirected", "again"}
        /\ scriptDest' = scriptDest /\ arm' = arm /\ spawns' = spawns /\ setting' = setting
    BY DEF OnBeforeSendHeaders
  <1>2. ScriptTypes /\ Records /\ Requests /\ AllFiltered /\ a \in HopType /\ h \in Nat \ {0} /\ Len(hops) \in Nat
    BY HopFacts DEF ScriptInv
  <1>3. Holds(k, a.req)
    <2>1. a.req \in DOMAIN scriptDest
      <3>1. a.req \in Nat \ {0} /\ a.req <= h /\ h \in 1..Len(hops) /\ Len(hops) <= MaxHops
        BY <1>2, HopFields DEF Requests, Hop
      <3>2. a.req \in 1..MaxHops
        BY <1>2, <3>1, BoundAssumption
      <3> QED BY <1>2, <3>2 DEF ScriptTypes
    <2> QED BY <1>2, <2>1 DEF Records, Recorded
  <1>4. k \in Hop /\ hops[k].req = a.req /\ (k = h \/ (hops[k].phase = "again" /\ a.kind = "plain"))
    <2>1. k \in Hop /\ hops[k].req = a.req
      BY <1>3 DEF Holds
    <2>2. ASSUME k # h PROVE hops[k].phase = "again" /\ a.kind = "plain"
      <3>0. k \in Nat /\ h \in Nat
        BY <1>2, <2>1, HopFacts
      <3> HIDE DEF k
      <3>1. k < h
        BY <1>1, <2>1, <2>2, <3>0 DEF Newest
      <3>2. ~Newest(k)
        BY <2>1, <3>0, <3>1 DEF Newest
      <3>3. hops[k].phase = "again" /\ \A j \in Hop : hops[j].req = a.req /\ j > k => hops[j].kind = "plain"
        BY <1>3, <3>2 DEF Holds
      <3>4. h > k
        BY <1>2, <2>1, <3>1, HopFacts
      <3> QED BY <3>3, <3>4
    <2> QED BY <2>1, <2>2
  <1>5. hops' = [seen EXCEPT ![k] = b]
    <2>1. h \in DOMAIN hops /\ k \in DOMAIN hops
      BY <1>2, <1>4, LenProperties DEF ScriptTypes, Hop
    <2>2. seen = [hops EXCEPT ![h].headers = "sent"]
      BY <2>1
    <2>3. hops' = [seen EXCEPT ![k] = [Resolved(@) EXCEPT !.dest = d]]
      <3> HIDE DEF seen, k
      <3> QED BY <2>2 DEF OnBeforeSendHeaders, k
    <2>4. k \in DOMAIN seen
      BY <2>1
    <2> HIDE DEF seen, k
    <2> QED BY <2>3, <2>4, Zenon
  <1>6. d \in {"null", "worker", "script"} /\ hops[k].real = a.real /\ hops[k] \in HopType
    <2>1. a.real \in {"worker", "script"}
      BY <1>2, HopFields
    <2>2. hops[k].real = a.real
      <3> HIDE DEF k
      <3> QED BY <1>2, <1>4 DEF Requests
    <2>3. hops[k] \in HopType
      <3> HIDE DEF k
      <3> QED BY <1>2, <1>4, HopFacts
    <2> HIDE DEF k
    <2> QED BY <2>1, <2>2, <2>3
  <1>7. p \in HopType /\ Alike(a, p) /\ p.headers = "sent" /\ p.dest = a.dest
        /\ p.phase = a.phase /\ p.in = a.in /\ p.bad = a.bad /\ p.ended = a.ended /\ p.evals = a.evals
        /\ p.at = a.at /\ p.scope = a.scope /\ p.out = a.out
    <2>1. p \in HopType
      BY <1>2, HopSet
    <2> QED BY <2>1, <1>2 DEF HopType, Alike
  <1> HIDE DEF p, k
  <1>8. /\ seen \in Seq(HopType) /\ Len(seen) = Len(hops) /\ seen[h] = p
        /\ \A j \in Hop : j # h => seen[j] = hops[j]
    BY <1>2, <1>7, Updated DEF ScriptTypes, Hop
  <1> HIDE DEF seen
  <1>9. q \in HopType /\ Alike(seen[k], q) /\ q.headers = seen[k].headers /\ q.resolved
        /\ q.phase = seen[k].phase /\ q.in = seen[k].in /\ q.bad = seen[k].bad /\ q.ended = seen[k].ended
        /\ q.evals = seen[k].evals /\ q.at = seen[k].at /\ q.scope = seen[k].scope /\ q.out = seen[k].out
    <2>1. seen[k] \in HopType
      BY <1>4, <1>6, <1>7, <1>8
    <2> QED BY <2>1, ResolvedIs
  <1> HIDE DEF q, d
  <1>10. /\ b \in HopType /\ Alike(q, b) /\ b.headers = q.headers /\ b.dest = d /\ b.resolved = q.resolved
         /\ b.phase = q.phase /\ b.in = q.in /\ b.bad = q.bad /\ b.ended = q.ended /\ b.evals = q.evals
         /\ b.at = q.at /\ b.scope = q.scope /\ b.out = q.out
    <2>1. b \in HopType
      BY <1>6, <1>9, HopSet
    <2> QED BY <2>1, <1>9, ZenonT(40) DEF HopType, Alike
  <1> HIDE DEF b
  <1>11. /\ hops' \in Seq(HopType) /\ Len(hops') = Len(hops) /\ hops'[k] = b
         /\ \A j \in Hop : j # k => hops'[j] = seen[j]
    <2>1. k \in 1..Len(seen)
      BY <1>4, <1>8 DEF Hop
    <2> QED BY <1>5, <1>8, <1>10, <2>1, Updated DEF Hop
  <1>12. Alike(hops[k], b) /\ b.phase = hops[k].phase
         /\ (b.headers = IF k = h THEN "sent" ELSE hops[k].headers)
    BY <1>4, <1>7, <1>8, <1>9, <1>10 DEF Alike
  <1>13. \A j \in Hop : Alike(hops[j], hops'[j]) /\ hops'[j].phase = hops[j].phase
    BY <1>7, <1>8, <1>11, <1>12 DEF Alike
  <1>14. \A j \in Hop : hops'[j].headers # "failed" => hops[j].headers # "failed"
    BY <1>1, <1>7, <1>8, <1>11, <1>12
  <1>15. Told(b, setting)
    <2>1. b.real = a.real
      BY <1>6, <1>12 DEF Alike
    <2> QED BY <1>10, <2>1 DEF Told, d
  <1>16. b.kind = "inject" => Filtered(b, setting)
    <2> SUFFICES ASSUME b.kind = "inject" PROVE Filtered(b, setting)
      OBVIOUS
    <2>1. k = h
      <3>1. hops[k].kind = "inject"
        BY <1>12 DEF Alike
      <3>2. hops[k].phase # "again"
        BY <1>2, <1>4, <3>1 DEF AllFiltered, Filtered
      <3> QED BY <1>4, <3>2
    <2>2. Filtered(a, setting)
      BY <1>2, <1>4, <1>12, <2>1 DEF AllFiltered, Alike
    <2>3. ~a.resolved /\ a.scope = "unknown"
      BY <1>1, <2>2 DEF Filtered
    <2>4. seen[k] = p
      BY <1>8, <2>1
    <2>5. Alike(a, b)
      BY <1>12, <2>1
    <2> HIDE DEF a
    <2>6. Whole(a, setting) => Whole(b, setting)
      BY <2>3, <2>4, <2>5, <1>7, <1>9, <1>10 DEF Whole, Plain, Inserted, Alike
    <2> QED BY <1>1, <1>7, <1>9, <1>10, <2>2, <2>3, <2>4, <2>5, <2>6 DEF Filtered, Alike, d
  <1>17. \A j \in Hop : /\ hops'[j].kind = "inject" => Filtered(hops'[j], setting)
                        /\ hops'[j].kind = "shadow" => Told(hops'[j], setting)
    <2> SUFFICES ASSUME NEW j \in Hop
                 PROVE  /\ hops'[j].kind = "inject" => Filtered(hops'[j], setting)
                        /\ hops'[j].kind = "shadow" => Told(hops'[j], setting)
      OBVIOUS
    <2>1. CASE j = k
      BY <1>11, <1>15, <1>16, <2>1
    <2>2. CASE j # k /\ j = h
      <3>1. hops'[j] = p /\ p.kind = "plain"
        BY <1>4, <1>7, <1>8, <1>11, <2>2 DEF Alike
      <3> QED BY <3>1
    <2>3. CASE j # k /\ j # h
      <3>1. hops'[j] = hops[j]
        BY <1>8, <1>11, <2>3
      <3> QED BY <1>2, <3>1 DEF AllFiltered
    <2> QED BY <2>1, <2>2, <2>3
  <1> QED BY <1>1, <1>11, <1>13, <1>14, <1>17, DestinationsTold

LEMMA HeadersKeep ==
  ASSUME ScriptInv, NEW h \in Hop, OnBeforeSendHeaders(h)
  PROVE  ScriptInv'
  BY HeadersPass, HeadersTell

\* Two hops that are the newest of their requests are of different spawns.
LEMMA OneOfASpawn ==
  ASSUME ScriptInv, NEW h \in Hop, NEW k \in Hop, Newest(h), Newest(k), hops[k].spawn # 0, hops[k].spawn = hops[h].spawn
  PROVE  k = h
  <1>1. ScriptTypes /\ Requests
    BY DEF ScriptInv
  <1>2. hops[k].req = hops[h].req
    BY <1>1 DEF Requests
  <1>3. h <= k /\ k <= h /\ h \in Nat /\ k \in Nat
    BY <1>1, <1>2, HopFacts DEF Newest
  <1> QED BY <1>3

LEMMA ErrorKeeps ==
  ASSUME ScriptInv, NEW h \in Hop, OnErrorOccurred(h)
  PROVE  ScriptInv'
  <1> DEFINE a == hops[h]  ph == IF a.kind = "inject" THEN a.phase ELSE "done"
             p == [a EXCEPT !.headers = "failed"]  q == [p EXCEPT !.phase = ph]
             b == IF Recorded(h) = h THEN Resolved(q) ELSE q
  <1>1. /\ Newest(h) /\ ~a.ended /\ a.headers # "failed" /\ a.phase # "done"
        /\ scriptDest' = [scriptDest EXCEPT ![a.req] = 0] /\ arm' = arm /\ setting' = setting
        /\ spawns' = [s \in Spawn |-> IF s = a.spawn /\ spawns[s] = "requested" THEN "lost" ELSE spawns[s]]
    BY DEF OnErrorOccurred
  <1>2. ScriptTypes /\ Requests /\ Expected /\ Armed /\ a \in HopType
    BY HopFacts DEF ScriptInv
  <1>3. hops' = [hops EXCEPT ![h] = b]
    <2>1. [a EXCEPT !.headers = "failed", !.phase = IF a.kind = "inject" THEN @ ELSE "done"] = q
      BY <1>2 DEF HopType
    <2> HIDE DEF q
    <2> QED BY <2>1 DEF OnErrorOccurred
  <1>4. ph \in HopPhase
    BY <1>2, HopFields DEF HopPhase
  <1> HIDE DEF ph
  <1>5. /\ q \in HopType /\ Alike(a, q) /\ q.headers = "failed" /\ q.dest = a.dest /\ q.resolved = a.resolved
        /\ q.phase = ph /\ q.in = a.in /\ q.bad = a.bad /\ q.ended = a.ended /\ q.evals = a.evals
        /\ q.at = a.at /\ q.scope = a.scope /\ q.out = a.out
    <2>1. p \in HopType
      BY <1>2, HopSet
    <2>2. q \in HopType
      <3> HIDE DEF p
      <3> QED BY <1>4, <2>1, HopSet
    <2> QED BY <2>2, <1>2 DEF HopType, Alike
  <1> HIDE DEF q
  <1>6. /\ b \in HopType /\ Alike(a, b) /\ b.headers = "failed" /\ b.dest = a.dest /\ (a.resolved => b.resolved)
        /\ b.phase = ph /\ b.in = a.in /\ b.bad = a.bad /\ b.ended = a.ended /\ b.evals = a.evals
        /\ b.at = a.at /\ b.scope = a.scope /\ b.out = a.out
    BY <1>5, ResolvedIs DEF Alike
  <1> HIDE DEF b
  <1>7. Records' /\ scriptDest' \in [1..MaxHops -> Nat]
    BY <1>1, <1>3, <1>6, RecordGone
  <1>8. /\ SpawnsGoOn /\ Spawn' = Spawn
        /\ \A t \in Spawn : spawns'[t] = IF t = a.spawn /\ spawns[t] = "requested" THEN "lost" ELSE spawns[t]
    <2>1. "lost" \in SpawnStatus \ {"armed"}
      BY DEF SpawnStatus
    <2>2. Len(spawns) \in Nat /\ \A t \in Spawn : spawns[t] \in SpawnStatus
      BY <1>2, HopFacts
    <2>3. spawns' \in [1..Len(spawns) -> SpawnStatus]
      BY <1>1, <2>1, <2>2 DEF Spawn
    <2>4. spawns' \in Seq(SpawnStatus) /\ Len(spawns') = Len(spawns)
      BY <2>2, <2>3, SeqDef
    <2>5. Spawn' = Spawn
      BY <2>4 DEF Spawn
    <2> QED BY <1>1, <2>1, <2>4, <2>5 DEF SpawnsGoOn
  <1>9. a.kind = "inject" => Filtered(b, setting)
    <2> SUFFICES ASSUME a.kind = "inject" PROVE Filtered(b, setting)
      OBVIOUS
    <2>1. Filtered(a, setting)
      BY FilterFacts DEF Of
    <2> HIDE DEF a
    <2> QED BY <1>1, <1>6, <2>1 DEF Filtered, Whole, Plain, Inserted, Alike, ph
  <1>10. Told(b, setting)
    BY <1>6 DEF Told
  <1>11. Hop' = Hop /\ hops'[h] = b /\ (\A k \in Hop : k # h => hops'[k] = hops[k])
         /\ \A k \in Hop : Alike(hops[k], hops'[k]) /\ (Newest(k)' <=> Newest(k))
    BY <1>2, <1>3, <1>6, OneHop
  <1>12. b.phase = "done" \/ (b.kind = "inject" /\ b.phase = a.phase)
    BY <1>6 DEF ph, Alike
  <1>13. Expected'
    <2> SUFFICES ASSUME NEW k \in Hop, Newest(k)', hops'[k].kind = "shadow",
                        hops'[k].phase \notin {"serving", "done"}, hops'[k].spawn # 0
                 PROVE  spawns'[hops'[k].spawn] = "requested"
      BY <1>11 DEF Expected
    <2>1. k # h
      BY <1>11, <1>12
    <2>2. hops'[k] = hops[k] /\ Newest(k)
      BY <1>11, <2>1
    <2>3. hops[k].spawn # a.spawn
      BY <1>1, <2>1, <2>2, OneOfASpawn
    <2>4. hops[k].spawn \in Spawn /\ spawns[hops[k].spawn] = "requested"
      BY <1>2, <2>2 DEF Expected, Requests
    <2> QED BY <1>8, <2>2, <2>3, <2>4
  <1>14. Armed'
    <2>1. Owed' = Owed /\ (NoneUnserved => NoneUnserved')
      BY <1>8 DEF Owed, NoneUnserved
    <2>2. \A k \in Hop : (hops'[k].phase = "again" => hops[k].phase = "again")
                         /\ (hops'[k].phase = "redirected" => hops[k].phase = "redirected")
      BY <1>11, <1>12
    <2>3. \A k \in Hop : Followed(k)' => Followed(k)
      BY <1>11, <2>2 DEF Followed
    <2> QED BY <1>1, <1>2, <1>11, <2>1, <2>2, <2>3 DEF Armed, Alike
  <1>15. arm' \in ArmType
    BY <1>1, <1>2 DEF ScriptTypes
  <1> QED BY <1>1, <1>3, <1>6, <1>7, <1>8, <1>9, <1>10, <1>13, <1>14, <1>15, HopStep DEF Alike

LEMMA PassesKeeps ==
  ASSUME ScriptInv, NEW h \in Hop, ShadowPasses(h)
  PROVE  ScriptInv'
  <1> DEFINE a == hops[h]  b == [a EXCEPT !.phase = "done"]
  <1>1. /\ a.kind = "shadow" /\ DeleteScriptDest(h) /\ arm' = arm /\ spawns' = spawns /\ setting' = setting
    BY DEF ShadowPasses
  <1>2. ScriptTypes /\ AllFiltered /\ a \in HopType /\ hops' = [hops EXCEPT ![h] = b]
    BY HopFacts DEF ScriptInv, ShadowPasses
  <1>3. b \in HopType
    BY <1>2, HopSet DEF HopPhase
  <1>4. Alike(a, b) /\ b.kind = "shadow" /\ b.phase = "done" /\ b.headers = a.headers /\ b.dest = a.dest
    BY <1>1, <1>2 DEF HopType, Alike
  <1> HIDE DEF b
  <1>5. Records' /\ scriptDest' \in [1..MaxHops -> Nat]
    BY <1>1, <1>2, <1>3, <1>4, RecordDeleted
  <1>6. Expected' /\ Armed'
    BY <1>1, <1>2, <1>3, <1>4, ArmStays
  <1>7. SpawnsGoOn /\ arm' \in ArmType
    BY <1>1, <1>2, SpawnsStay DEF ScriptTypes
  <1>8. Told(b, setting)
    BY <1>1, <1>2, <1>4 DEF AllFiltered, Told, Alike
  <1> QED BY <1>1, <1>2, <1>3, <1>4, <1>5, <1>6, <1>7, <1>8, HopStep

\* The bundle is served: the arm was taken before.
LEMMA ServedKeeps ==
  ASSUME ScriptInv, NEW h \in Hop, ShadowServed(h)
  PROVE  ScriptInv'
  <1> DEFINE a == hops[h]  p == [a EXCEPT !.phase = "done"]  b == [p EXCEPT !.out = <<Bundle>>]
  <1>1. /\ a.phase = "serving" /\ DeleteScriptDest(h) /\ arm' = arm /\ spawns' = spawns /\ setting' = setting
    BY DEF ShadowServed
  <1>2. ScriptTypes /\ AllFiltered /\ a \in HopType /\ hops' = [hops EXCEPT ![h] = b]
    BY HopFacts DEF ScriptInv, ShadowServed
  <1>3. b \in HopType
    <2>1. <<Bundle>> \in Seq(Nat)
      BY DEF Bundle
    <2>2. p \in HopType
      BY <1>2, HopSet DEF HopPhase
    <2> HIDE DEF p
    <2> QED BY <2>1, <2>2, HopSet
  <1>4. Alike(a, b) /\ b.phase = "done" /\ b.headers = a.headers /\ b.dest = a.dest
    BY <1>2 DEF HopType, Alike
  <1> HIDE DEF b
  <1>5. Records' /\ scriptDest' \in [1..MaxHops -> Nat]
    BY <1>1, <1>2, <1>3, <1>4, RecordDeleted
  <1>6. Expected' /\ Armed'
    BY <1>1, <1>2, <1>3, <1>4, ArmStays
  <1>7. SpawnsGoOn /\ arm' \in ArmType
    BY <1>1, <1>2, SpawnsStay DEF ScriptTypes
  <1>8. b.kind # "inject" /\ (b.kind = "shadow" => Told(b, setting))
    <2>1. a.kind # "inject" /\ (a.kind = "shadow" => Told(a, setting))
      BY <1>1, <1>2 DEF AllFiltered, Filtered
    <2> QED BY <1>4, <2>1 DEF Told, Alike
  <1> QED BY <1>1, <1>2, <1>3, <1>4, <1>5, <1>6, <1>7, <1>8, HopStep

LEMMA UnarmedIs ==
  ASSUME arm \in ArmType
  PROVE  /\ Unarmed \in ArmType /\ Unarmed.old = arm.old /\ Unarmed.target = arm.target /\ Unarmed.taken = arm.taken
         /\ (arm.count > 0 => Unarmed.count = arm.count - 1)
  <1>1. CASE arm.count = 0
    BY <1>1 DEF Unarmed
  <1>2. CASE arm.count # 0
    <2>1. Unarmed = [arm EXCEPT !.count = arm.count - 1] /\ arm.count - 1 \in Nat
      BY <1>2 DEF Unarmed, ArmType
    <2> QED BY <2>1 DEF ArmType
  <1> QED BY <1>1, <1>2

\* The arm is taken when the response starts.
LEMMA StartsKeeps ==
  ASSUME ScriptInv, NEW h \in Hop, ShadowStarts(h)
  PROVE  ScriptInv'
  <1> DEFINE a == hops[h]  b == [a EXCEPT !.phase = "serving"]
  <1>1. /\ a.kind = "shadow" /\ Newest(h) /\ a.phase = "buffering" /\ a.headers # "failed"
        /\ a.dest \in {"null", "worker"}
        /\ arm' = ConsumeShadowArm(h) /\ scriptDest' = scriptDest /\ setting' = setting
        /\ spawns' = [s \in Spawn |-> IF s = a.spawn /\ spawns[s] = "requested" THEN "taken" ELSE spawns[s]]
    BY DEF ShadowStarts, Waiting
  <1>2. /\ ScriptTypes /\ Requests /\ Expected /\ Armed /\ AllFiltered /\ a \in HopType
        /\ hops' = [hops EXCEPT ![h] = b]
    BY HopFacts DEF ScriptInv, ShadowStarts
  <1>3. b \in HopType
    BY <1>2, HopSet DEF HopPhase
  <1>4. Alike(a, b) /\ b.kind = "shadow" /\ b.phase = "serving" /\ b.headers = a.headers /\ b.dest = a.dest
    BY <1>1, <1>2 DEF HopType, Alike
  <1> HIDE DEF b
  <1>5. Records' /\ scriptDest' \in [1..MaxHops -> Nat]
    <2>1. Lasts(a, b)
      BY <1>1, <1>4 DEF Lasts
    <2> QED BY <1>1, <1>2, <1>3, <1>4, <2>1, RecordStays DEF ScriptTypes
  <1>6. a.spawn # 0 => a.spawn \in Spawn /\ spawns[a.spawn] = "requested"
    BY <1>1, <1>2 DEF Expected, Requests
  <1>7. 0 \notin Spawn
    BY <1>2, HopFacts
  <1>8. /\ SpawnsGoOn /\ Spawn' = Spawn /\ (a.spawn \in Spawn => spawns'[a.spawn] = "taken")
        /\ \A t \in Spawn : t # a.spawn => spawns'[t] = spawns[t]
    <2>1. "taken" \in SpawnStatus \ {"armed"}
      BY DEF SpawnStatus
    <2>2. spawns' = [s \in Spawn |-> IF s = a.spawn THEN "taken" ELSE spawns[s]]
      BY <1>1, <1>6, <1>7
    <2> QED BY <1>2, <2>1, <2>2, SpawnsMapped
  <1>9. Owed' = Owed \ {a.spawn} /\ (NoneUnserved => NoneUnserved')
    BY <1>8 DEF Owed, NoneUnserved
  <1>10. Hop' = Hop /\ hops'[h] = b /\ (\A k \in Hop : k # h => hops'[k] = hops[k])
         /\ \A k \in Hop : Alike(hops[k], hops'[k]) /\ (Newest(k)' <=> Newest(k))
    BY <1>2, <1>3, <1>4, OneHop
  <1>11. Expected'
    <2> SUFFICES ASSUME NEW k \in Hop, Newest(k)', hops'[k].kind = "shadow",
                        hops'[k].phase \notin {"serving", "done"}, hops'[k].spawn # 0
                 PROVE  spawns'[hops'[k].spawn] = "requested"
      BY <1>10 DEF Expected
    <2>1. k # h
      BY <1>4, <1>10
    <2>2. hops'[k] = hops[k] /\ Newest(k)
      BY <1>10, <2>1
    <2>3. hops[k].spawn # a.spawn
      BY <1>1, <2>1, <2>2, OneOfASpawn
    <2>4. hops[k].spawn \in Spawn /\ spawns[hops[k].spawn] = "requested"
      BY <1>2, <2>2 DEF Expected, Requests
    <2> QED BY <1>8, <2>2, <2>3, <2>4
  <1>12. /\ arm' \in ArmType /\ arm'.old = arm.old /\ arm'.target = arm.target
         /\ (~arm'.taken => ~arm.taken /\ ~Steals(h))
         /\ arm'.count = Unarmed.count
    <2>1. Unarmed \in ArmType /\ Unarmed.old = arm.old /\ Unarmed.target = arm.target /\ Unarmed.taken = arm.taken
      BY <1>2, UnarmedIs DEF ScriptTypes
    <2>2. (Unarmed.taken \/ Steals(h)) \in BOOLEAN
      OBVIOUS
    <2> DEFINE t == Unarmed.taken \/ Steals(h)
    <2>3. arm' = [Unarmed EXCEPT !.taken = t]
      BY <1>1 DEF ConsumeShadowArm
    <2> HIDE DEF t
    <2>4. /\ arm' \in ArmType /\ arm'.old = Unarmed.old /\ arm'.target = Unarmed.target
          /\ arm'.taken = t /\ arm'.count = Unarmed.count
      BY <2>1, <2>2, <2>3 DEF ArmType, t
    <2> QED BY <2>1, <2>4 DEF t
  <1>13. ASSUME ~arm'.taken PROVE arm'.count = Cardinality(Owed')
    <2>1. ~arm.taken /\ ~Steals(h) /\ arm.count = Cardinality(Owed)
      BY <1>2, <1>12, <1>13 DEF Armed
    <2>2. CASE a.spawn # 0
      <3>1. a.spawn \in Owed
        BY <1>6, <2>2 DEF Owed
      <3>2. Cardinality(Owed) \in Nat /\ Cardinality(Owed) > 0 /\ Cardinality(Owed') = Cardinality(Owed) - 1
        BY <1>2, <1>9, <3>1, OwedFinite, FS_RemoveElement
      <3>3. Unarmed.count = arm.count - 1
        BY <1>2, <2>1, <3>2, UnarmedIs DEF ScriptTypes
      <3> QED BY <1>12, <2>1, <3>2, <3>3
    \* A script of the page's that is known to be one passes; only where nobody
    \* knows what a script is for, the bundle would be served, and there are no spawns.
    <2>3. CASE a.spawn = 0
      <3>1. a.real = "script" /\ a.headers = "sent"
        BY <1>2, <2>1, <2>3, HopFields DEF Steals
      <3>2. ~setting.metadata
        BY <1>1, <1>2, <3>1 DEF AllFiltered, Told
      <3>3. spawns = <<>>
        BY <1>2, <3>2 DEF ScriptTypes, Requests
      <3>4. Owed = {} /\ Owed' = {}
        BY <1>9, <3>3 DEF Owed, Spawn
      <3>5. arm.count = 0 /\ Unarmed = arm
        BY <2>1, <3>4, FS_EmptySet DEF Unarmed
      <3> QED BY <1>12, <3>4, <3>5, FS_EmptySet
    <2> QED BY <2>2, <2>3
  <1>14. Armed'
    <2> SUFFICES ASSUME ~arm'.taken PROVE Armed'
      BY DEF Armed
    <2>1. \A k \in Hop : (hops'[k].phase = "again" => hops[k].phase = "again")
                         /\ (hops'[k].phase = "redirected" => hops[k].phase = "redirected")
      BY <1>4, <1>10
    <2>2. \A k \in Hop : Followed(k)' => Followed(k)
      BY <1>10, <2>1 DEF Followed
    <2> QED BY <1>2, <1>9, <1>10, <1>12, <1>13, <2>1, <2>2 DEF Armed, Alike
  <1>15. Told(b, setting)
    BY <1>1, <1>2, <1>4 DEF AllFiltered, Told, Alike
  <1> QED BY <1>1, <1>2, <1>3, <1>4, <1>5, <1>8, <1>11, <1>12, <1>14, <1>15, HopStep

LEMMA RedirectKeeps ==
  ASSUME ScriptInv, NEW h \in Hop, OnBeforeRedirect(h)
  PROVE  ScriptInv'
  <1> DEFINE a == hops[h]  b == [a EXCEPT !.phase = "redirected"]
  <1>1. /\ Newest(h) /\ a.phase = "buffering" /\ scriptDest' = [scriptDest EXCEPT ![a.req] = 0]
        /\ arm' = [arm EXCEPT !.target = TRUE, !.taken = @ \/ RedirectShared(h)]
        /\ spawns' = spawns /\ setting' = setting
    BY DEF OnBeforeRedirect, Waiting
  <1>2. /\ ScriptTypes /\ Requests /\ Records /\ Expected /\ Armed /\ AllFiltered /\ a \in HopType
        /\ hops' = [hops EXCEPT ![h] = b]
    BY HopFacts DEF ScriptInv, OnBeforeRedirect
  <1>3. b \in HopType
    BY <1>2, HopSet DEF HopPhase
  <1>4. Alike(a, b) /\ b.phase = "redirected" /\ b.headers = a.headers /\ b.dest = a.dest
    BY <1>2 DEF HopType, Alike
  <1> HIDE DEF b
  <1>5. Records' /\ scriptDest' \in [1..MaxHops -> Nat]
    BY <1>1, <1>2, <1>3, <1>4, RecordGone
  <1>6. Hop' = Hop /\ hops'[h] = b /\ (\A k \in Hop : k # h => hops'[k] = hops[k])
        /\ \A k \in Hop : Alike(hops[k], hops'[k]) /\ (Newest(k)' <=> Newest(k))
    BY <1>2, <1>3, <1>4, OneHop
  <1>7. Expected'
    <2> SUFFICES ASSUME NEW k \in Hop, Newest(k)', hops'[k].kind = "shadow",
                        hops'[k].phase \notin {"serving", "done"}, hops'[k].spawn # 0
                 PROVE  spawns'[hops'[k].spawn] = "requested"
      BY <1>6 DEF Expected
    <2>1. Newest(k) /\ hops[k].kind = "shadow" /\ hops[k].phase \notin {"serving", "done"} /\ hops[k].spawn # 0
      BY <1>1, <1>6 DEF Alike
    <2> QED BY <1>1, <1>2, <1>6, <2>1 DEF Expected, Alike
  <1>8. arm \in ArmType
    BY <1>2 DEF ScriptTypes
  <1>9. /\ arm' \in ArmType /\ arm'.old = arm.old /\ arm'.target /\ arm'.count = arm.count
        /\ (~arm'.taken => ~arm.taken /\ ~RedirectShared(h))
    <2>1. RedirectShared(h) \in BOOLEAN
      BY DEF RedirectShared
    <2> HIDE DEF a
    <2> QED BY <1>1, <1>8, <2>1 DEF ArmType
  <1>10. Armed'
    <2> SUFFICES ASSUME ~arm'.taken PROVE Armed'
      BY DEF Armed
    <2>1. ~arm.taken /\ \A k \in Hop \ {h} : ~Followed(k)
      BY <1>9 DEF RedirectShared
    <2>2. \A k \in Hop' : Followed(k)' => k = h
      BY <1>6, <2>1 DEF Followed
    <2>3. Owed' = Owed /\ (NoneUnserved => NoneUnserved')
      BY <1>1, <2>1 DEF Owed, Spawn, NoneUnserved
    <2>4. \A k \in Hop : hops'[k].phase = "again" => hops[k].phase = "again"
      BY <1>4, <1>6
    <2> QED BY <1>2, <1>6, <1>9, <2>1, <2>2, <2>3, <2>4 DEF Armed, Alike
  <1>11. SpawnsGoOn
    BY <1>1, <1>2, SpawnsStay
  <1>12. b.kind # "inject"
    <2> SUFFICES ASSUME a.kind = "inject" PROVE FALSE
      BY <1>4 DEF Alike
    <2>1. Recorded(h) = h
      BY <1>1, <1>2 DEF Records, OnBeforeRedirect, Waiting
    <2> QED BY <2>1 DEF OnBeforeRedirect, Shadowed
  <1>13. b.kind = "shadow" => Told(b, setting)
    BY <1>2, <1>4 DEF AllFiltered, Told, Alike
  <1> QED BY <1>1, <1>2, <1>3, <1>4, <1>5, <1>7, <1>9, <1>10, <1>11, <1>12, <1>13, HopStep

\* The record stays, and the hop is known to be followed by one of its own URL.
LEMMA RedirectedToItselfKeeps ==
  ASSUME ScriptInv, NEW h \in Hop, RedirectedToItself(h)
  PROVE  ScriptInv'
  <1> DEFINE a == hops[h]  b == [a EXCEPT !.phase = "again"]  t == arm.taken \/ (a.spawn # 0 /\ a.url = "target")
  <1>1. /\ Newest(h) /\ a.phase = "buffering" /\ a.headers # "failed" /\ scriptDest' = scriptDest
        /\ arm' = [arm EXCEPT !.taken = t]
        /\ spawns' = spawns /\ setting' = setting
    BY DEF RedirectedToItself, Waiting
  <1>2. /\ ScriptTypes /\ Requests /\ Records /\ Expected /\ Armed /\ AllFiltered /\ a \in HopType
        /\ hops' = [hops EXCEPT ![h] = b]
    BY HopFacts DEF ScriptInv, RedirectedToItself
  <1>3. b \in HopType
    BY <1>2, HopSet DEF HopPhase
  <1>4. Alike(a, b) /\ b.phase = "again" /\ b.headers = a.headers /\ b.dest = a.dest
    BY <1>2 DEF HopType, Alike
  <1> HIDE DEF b
  <1>5. Records' /\ scriptDest' \in [1..MaxHops -> Nat]
    <2>1. Lasts(a, b)
      BY <1>1, <1>4 DEF Lasts
    <2> QED BY <1>1, <1>2, <1>3, <1>4, <2>1, RecordStays DEF ScriptTypes
  <1>6. Hop' = Hop /\ hops'[h] = b /\ (\A k \in Hop : k # h => hops'[k] = hops[k])
        /\ \A k \in Hop : Alike(hops[k], hops'[k]) /\ (Newest(k)' <=> Newest(k))
    BY <1>2, <1>3, <1>4, OneHop
  <1>7. Expected'
    <2> SUFFICES ASSUME NEW k \in Hop, Newest(k)', hops'[k].kind = "shadow",
                        hops'[k].phase \notin {"serving", "done"}, hops'[k].spawn # 0
                 PROVE  spawns'[hops'[k].spawn] = "requested"
      BY <1>6 DEF Expected
    <2>1. Newest(k) /\ hops[k].kind = "shadow" /\ hops[k].phase \notin {"serving", "done"} /\ hops[k].spawn # 0
      BY <1>1, <1>6 DEF Alike
    <2> QED BY <1>1, <1>2, <1>6, <2>1 DEF Expected, Alike
  <1>8. /\ arm' \in ArmType /\ arm'.old = arm.old /\ arm'.target = arm.target /\ arm'.count = arm.count
        /\ (~arm'.taken => ~arm.taken /\ ~(a.spawn # 0 /\ a.url = "target"))
    <2>1. arm \in ArmType /\ t \in BOOLEAN /\ (~t => ~arm.taken /\ ~(a.spawn # 0 /\ a.url = "target"))
      BY <1>2 DEF ScriptTypes, ArmType
    <2> HIDE DEF a, t
    <2> QED BY <1>1, <2>1 DEF ArmType
  <1>9. Armed'
    <2> SUFFICES ASSUME ~arm'.taken PROVE Armed'
      BY DEF Armed
    <2>1. ~arm.taken /\ ~(a.spawn # 0 /\ a.url = "target")
      BY <1>8
    <2>2. \A k \in Hop : Followed(k)' => Followed(k)
      BY <1>4, <1>6 DEF Followed
    <2>3. Owed' = Owed /\ (NoneUnserved => NoneUnserved')
      BY <1>1, <2>1 DEF Owed, Spawn, NoneUnserved
    <2>4. ASSUME NEW k \in Hop, hops'[k].spawn # 0
          PROVE  hops'[k].kind = "shadow" /\ (hops'[k].phase = "again" => hops'[k].url # "target")
      <3>1. CASE k = h
        BY <1>2, <1>4, <1>6, <2>1, <2>4, <3>1 DEF Armed, Alike
      <3>2. CASE k # h
        BY <1>2, <1>6, <2>1, <2>4, <3>2 DEF Armed
      <3> QED BY <3>1, <3>2
    <2> QED BY <1>2, <1>6, <1>8, <2>1, <2>2, <2>3, <2>4 DEF Armed
  <1>10. SpawnsGoOn
    BY <1>1, <1>2, SpawnsStay
  <1>11. b.kind # "inject"
    <2> SUFFICES ASSUME a.kind = "inject" PROVE FALSE
      BY <1>4 DEF Alike
    <2>1. Recorded(h) = h
      BY <1>1, <1>2 DEF Records
    <2> QED BY <2>1 DEF RedirectedToItself, Shadowed
  <1>12. b.kind = "shadow" => Told(b, setting)
    BY <1>2, <1>4 DEF AllFiltered, Told, Alike
  <1> QED BY <1>1, <1>2, <1>3, <1>4, <1>5, <1>7, <1>8, <1>9, <1>10, <1>11, <1>12, HopStep

-----------------------------------------------------------------------------
(* The spawns *)

LEMMA SpawnStep ==
  ASSUME ScriptInv, hops' = hops, scriptDest' = scriptDest, setting' = setting, arm' \in ArmType,
         spawns' \in Seq(SpawnStatus), Len(spawns') >= Len(spawns), setting.enabled => spawns' = <<>>,
         \A s \in Spawn : spawns[s] = "requested" => spawns'[s] = "requested",
         \A s \in Spawn : spawns[s] # "armed" => spawns'[s] # "armed",
         ~arm'.taken => ~arm'.old /\ arm'.count = Cardinality(Owed') /\ NoneUnserved',
         ~arm'.taken => ~arm.taken /\ arm'.target = arm.target
  PROVE  ScriptInv'
  <1>1. ScriptTypes /\ Requests /\ Records /\ AllFiltered /\ Expected /\ Armed
    BY DEF ScriptInv
  <1>2. Hop' = Hop /\ (\A h \in Hop : Newest(h)' <=> Newest(h)) /\ Spawn \subseteq Spawn'
    <2>1. Len(spawns') \in Nat /\ Len(spawns) \in Nat
      BY <1>1, HopFacts, LenProperties
    <2> QED BY <2>1 DEF Hop, Newest, Spawn
  <1>3. ScriptTypes'
    BY <1>1 DEF ScriptTypes, ArmType
  <1>4. Requests'
    BY <1>1, <1>2 DEF Requests
  <1>5. Records'
    BY <1>1, <1>2 DEF Records, Recorded, Holds
  <1>6. AllFiltered'
    BY <1>1, <1>2 DEF AllFiltered
  <1>7. Expected'
    <2>1. \A h \in Hop : hops[h].spawn # 0 => hops[h].spawn \in Spawn
      BY <1>1 DEF Requests
    <2> QED BY <1>1, <1>2, <2>1 DEF Expected
  <1>8. \A h \in Hop : Followed(h)' <=> Followed(h)
    BY <1>2 DEF Followed
  <1>9. Armed'
    BY <1>1, <1>2, <1>8 DEF Armed
  <1> QED BY <1>3, <1>4, <1>5, <1>6, <1>7, <1>9 DEF ScriptInv

LEMMA ArmKeeps ==
  ASSUME ScriptInv, ArmShadowSpawn
  PROVE  ScriptInv'
  <1>1. ScriptTypes /\ Armed /\ Len(spawns) \in Nat
    BY HopFacts DEF ScriptInv
  <1> DEFINE n == Len(spawns)
  <1>2. /\ ~setting.enabled /\ spawns' = Append(spawns, "armed") /\ hops' = hops /\ scriptDest' = scriptDest
        /\ setting' = setting /\ arm' = [arm EXCEPT !.count = @ + 1, !.old = FALSE]
    BY DEF ArmShadowSpawn
  <1>3. /\ spawns' \in Seq(SpawnStatus) /\ Len(spawns') = n + 1 /\ spawns'[n + 1] = "armed"
        /\ \A s \in 1..n : spawns'[s] = spawns[s]
    <2>1. "armed" \in SpawnStatus /\ spawns \in Seq(SpawnStatus)
      BY <1>1 DEF SpawnStatus, ScriptTypes
    <2> QED BY <1>2, <2>1, Appended
  <1>4. arm' \in ArmType /\ arm'.count = arm.count + 1 /\ ~arm'.old /\ arm'.target = arm.target /\ arm'.taken = arm.taken
    <2>1. arm \in ArmType
      BY <1>1 DEF ScriptTypes, ArmType
    <2>2. arm.count \in Nat
      BY <2>1 DEF ArmType
    <2> DEFINE c == arm.count + 1
    <2>3. c \in Nat
      BY <2>2
    <2>4. arm' = [arm EXCEPT !.count = c, !.old = FALSE]
      BY <1>2, Zenon
    <2> HIDE DEF c
    <2>5. arm' \in ArmType /\ arm'.count = c /\ arm'.old = FALSE /\ arm'.target = arm.target /\ arm'.taken = arm.taken
      BY <2>1, <2>3, <2>4 DEF ArmType
    <2> QED BY <2>5 DEF c
  <1>5. Spawn = 1..n /\ Spawn' = Spawn \cup {n + 1} /\ n + 1 \notin Spawn
    <2> HIDE DEF n
    <2> QED BY <1>1, <1>3 DEF Spawn, n
  <1>6. Owed' = Owed \cup {n + 1} /\ n + 1 \notin Owed
    BY <1>3, <1>5 DEF Owed
  <1>7. Cardinality(Owed') = Cardinality(Owed) + 1
    BY <1>1, <1>6, OwedFinite, FS_AddElement
  <1>8. NoneUnserved => NoneUnserved'
    BY <1>3, <1>5 DEF NoneUnserved
  <1>9. Len(spawns') >= Len(spawns) /\ \A s \in Spawn : spawns'[s] = spawns[s]
    BY <1>1, <1>3, <1>5
  <1>10. ~arm'.taken => ~arm'.old /\ arm'.count = Cardinality(Owed') /\ NoneUnserved'
    BY <1>1, <1>4, <1>7, <1>8 DEF Armed
  <1> QED BY <1>2, <1>3, <1>4, <1>9, <1>10, SpawnStep

LEMMA AgesKeeps ==
  ASSUME ScriptInv, ArmAges
  PROVE  ScriptInv'
  <1>1. ScriptTypes /\ Requests
    BY DEF ScriptInv
  <1>2. arm' \in ArmType /\ arm'.taken
    BY <1>1 DEF ArmAges, ScriptTypes, ArmType
  <1>3. hops' = hops /\ scriptDest' = scriptDest /\ spawns' = spawns /\ setting' = setting
    BY DEF ArmAges
  <1>4. Len(spawns') >= Len(spawns) /\ spawns' \in Seq(SpawnStatus) /\ (setting.enabled => spawns' = <<>>)
    BY <1>1, <1>3, HopFacts DEF ScriptTypes, Requests
  <1> QED BY <1>2, <1>3, <1>4, SpawnStep

\* A spawn that an arm is for fails, and takes its arm back.
LEMMA SpawnFails ==
  ASSUME ScriptInv, NEW s \in Spawn, spawns[s] \notin {"requested"}, spawns' = [spawns EXCEPT ![s] = "failed"],
         hops' = hops, scriptDest' = scriptDest, setting' = setting, arm' \in ArmType,
         ~arm'.taken => /\ ~arm.taken /\ s \in Owed /\ arm'.old = arm.old /\ arm'.target = arm.target
                        /\ (arm.count > 0 => arm'.count = arm.count - 1)
  PROVE  ScriptInv'
  <1>1. ScriptTypes /\ Requests /\ Armed
    BY DEF ScriptInv
  <1>2. /\ SpawnsGoOn /\ Spawn' = Spawn /\ spawns'[s] = "failed"
        /\ \A t \in Spawn : t # s => spawns'[t] = spawns[t]
    <2>1. "failed" \in SpawnStatus \ {"armed"}
      BY DEF SpawnStatus
    <2> QED BY <1>1, <2>1, SpawnsChange
  <1>3. ~setting.enabled
    <2>1. Len(<<>>) = 0
      OBVIOUS
    <2> QED BY <1>1, <2>1 DEF Requests, Spawn
  <1>4. ASSUME ~arm'.taken PROVE ~arm'.old /\ arm'.count = Cardinality(Owed') /\ NoneUnserved'
    <2>1. Owed' = Owed \ {s}
      BY <1>2 DEF Owed
    <2>2. Cardinality(Owed) > 0 /\ Cardinality(Owed') = Cardinality(Owed) - 1
      BY <1>1, <1>4, <2>1, OwedFinite, FS_RemoveElement
    <2>3. NoneUnserved'
      BY <1>1, <1>2, <1>4 DEF Armed, NoneUnserved
    <2> QED BY <1>1, <1>4, <2>2, <2>3 DEF Armed
  <1>5. Len(spawns') >= Len(spawns)
    BY <1>1, <1>2, HopFacts DEF SpawnsGoOn
  <1>6. \A t \in Spawn : spawns[t] = "requested" => spawns'[t] = "requested"
    BY <1>2
  <1> QED BY <1>2, <1>3, <1>4, <1>5, <1>6, SpawnStep DEF SpawnsGoOn

LEMMA ThrowsKeeps ==
  ASSUME ScriptInv, NEW s \in Spawn, ConstructorThrows(s)
  PROVE  ScriptInv'
  <1>1. arm \in ArmType
    BY DEF ScriptInv, ScriptTypes, ArmType
  <1>2. /\ spawns[s] = "armed" /\ spawns' = [spawns EXCEPT ![s] = "failed"] /\ arm' = Unarmed
        /\ hops' = hops /\ scriptDest' = scriptDest /\ setting' = setting
    BY DEF ConstructorThrows
  <1>3. s \in Owed
    BY <1>2 DEF Owed
  <1> QED BY <1>1, <1>2, <1>3, UnarmedIs, SpawnFails

LEMMA WorkerErrorsKeeps ==
  ASSUME ScriptInv, NEW s \in Spawn, WorkerErrors(s)
  PROVE  ScriptInv'
  <1>1. arm \in ArmType /\ Armed
    BY DEF ScriptInv, ScriptTypes, ArmType
  <1> DEFINE t == Unarmed.taken \/ spawns[s] = "taken"
  <1>2. /\ spawns[s] \in {"taken", "unserved", "lost"} /\ spawns' = [spawns EXCEPT ![s] = "failed"]
        /\ arm' = [Unarmed EXCEPT !.taken = t]
        /\ hops' = hops /\ scriptDest' = scriptDest /\ setting' = setting
    BY DEF WorkerErrors
  <1>3. /\ Unarmed \in ArmType /\ Unarmed.old = arm.old /\ Unarmed.target = arm.target /\ Unarmed.taken = arm.taken
        /\ (arm.count > 0 => Unarmed.count = arm.count - 1)
    BY <1>1, UnarmedIs
  <1>4. t \in BOOLEAN /\ (~t => ~arm.taken /\ spawns[s] # "taken")
    BY <1>3 DEF ArmType
  <1> HIDE DEF t
  <1>5. /\ arm' \in ArmType /\ arm'.old = Unarmed.old /\ arm'.target = Unarmed.target
        /\ arm'.taken = t /\ arm'.count = Unarmed.count
    BY <1>2, <1>3, <1>4 DEF ArmType
  <1>6. ~t => s \in Owed
    BY <1>1, <1>2, <1>4 DEF Armed, NoneUnserved, Owed
  <1> QED BY <1>2, <1>3, <1>4, <1>5, <1>6, SpawnFails

-----------------------------------------------------------------------------
(* A request comes *)

LEMMA HopAdded ==
  ASSUME ScriptTypes, NEW hop \in HopType, hops' = Append(hops, hop)
  PROVE  /\ hops' \in Seq(HopType) /\ Len(hops') = Len(hops) + 1 /\ Len(hops) \in Nat
         /\ Hop' = Hop \cup {Len(hops) + 1} /\ Len(hops) + 1 \notin Hop
         /\ hops'[Len(hops) + 1] = hop /\ (\A k \in Hop : hops'[k] = hops[k])
         /\ \A k \in Hop : Newest(k)' <=> Newest(k) /\ hops[k].req # hop.req
  <1>1. /\ hops' \in Seq(HopType) /\ Len(hops') = Len(hops) + 1 /\ Len(hops) \in Nat
        /\ hops'[Len(hops) + 1] = hop /\ \A k \in Hop : hops'[k] = hops[k]
    BY Appended DEF ScriptTypes, Hop
  <1>2. Hop' = Hop \cup {Len(hops) + 1} /\ Len(hops) + 1 \notin Hop
    BY <1>1 DEF Hop
  <1>3. ASSUME NEW k \in Hop PROVE Newest(k)' <=> Newest(k) /\ hops[k].req # hop.req
    <2>1. k \in 1..Len(hops) /\ ~(Len(hops) + 1 <= k)
      BY <1>1 DEF Hop
    <2> DEFINE n == Len(hops) + 1
    <2>2. Hop' = Hop \cup {n} /\ n \notin Hop /\ ~(n <= k) /\ hops'[n] = hop
      BY <1>1, <1>2, <2>1
    <2> HIDE DEF n
    <2> QED BY <1>1, <2>2 DEF Newest
  <1> QED BY <1>1, <1>2, <1>3

LEMMA NewHopIs ==
  ASSUME NEW req \in Nat \ {0}, NEW spawn \in Nat, NEW real \in {"worker", "script"},
         NEW url \in {"document", "target", "other"},
         NEW kind \in {"shadow", "inject", "plain"}, NEW x \in SettingType
  PROVE  /\ NewHop(req, spawn, real, url, kind) \in HopType
         /\ NewHop(req, spawn, real, url, kind).req = req /\ NewHop(req, spawn, real, url, kind).spawn = spawn
         /\ NewHop(req, spawn, real, url, kind).real = real /\ NewHop(req, spawn, real, url, kind).kind = kind
         /\ NewHop(req, spawn, real, url, kind).url = url
         /\ NewHop(req, spawn, real, url, kind).phase = "buffering"
         /\ Told(NewHop(req, spawn, real, url, kind), x)
         /\ Filtered(NewHop(req, spawn, real, url, kind), x)
  <1> DEFINE hop == NewHop(req, spawn, real, url, kind)
  <1>1. <<>> \in Seq(Nat)
    OBVIOUS
  <1>2. hop \in HopType
    BY <1>1 DEF NewHop, HopType, HopPhase
  <1>3. hop.req = req /\ hop.spawn = spawn /\ hop.real = real /\ hop.kind = kind /\ hop.phase = "buffering"
        /\ hop.url = url
    BY DEF NewHop
  <1>4. /\ hop.bad = 0 /\ hop.in = 0 /\ hop.out = <<>> /\ hop.at = "idle" /\ hop.ended = FALSE
        /\ hop.resolved = FALSE /\ hop.headers = "due" /\ hop.scope = "unknown" /\ hop.dest = "null"
    BY DEF NewHop
  <1>5. Filtered(hop, x)
    <2> HIDE DEF hop
    <2> QED BY <1>3, <1>4 DEF Filtered
  <1>6. Told(hop, x)
    <2> HIDE DEF hop
    <2> QED BY <1>4 DEF Told
  <1> QED BY <1>2, <1>3, <1>5, <1>6

\* A request of a spawn is one that its arm, or the redirect that is followed,
\* is for, while no arm is lost; those of one request id are of one spawn, and one
\* comes after another that was redirected, or where every source is prepared.
Due(req, spawn, real, url) ==
  /\ spawn # 0 => real = "worker" /\ url # "other"
  /\ spawn # 0 /\ ~arm.taken =>
       /\ spawns[spawn] \in {"armed", "requested"}
       /\ url = "target" => \E k \in Hop : Followed(k) /\ hops[k].req = req
  /\ \A k \in Hop : hops[k].req = req => hops[k].real = real /\ hops[k].spawn = spawn
  /\ \A k \in Hop : hops[k].spawn = spawn /\ spawn # 0 => hops[k].req = req
  /\ \A k \in Hop : hops[k].req = req /\ Newest(k) => hops[k].phase \in {"redirected", "again"} \/ setting.enabled

LEMMA RequestKeeps ==
  ASSUME ScriptInv, NEW req \in 1..(Len(hops) + 1), NEW spawn \in {0} \cup Spawn,
         NEW real \in {"worker", "script"}, NEW url \in {"document", "target", "other"},
         OnBeforeRequest(req, spawn, real, url), Due(req, spawn, real, url)
  PROVE  ScriptInv'
  <1> DEFINE redirected == url = "target" /\ arm.target
             shadow == redirected \/ (url = "document" /\ HasShadowArm)
             kind == IF shadow THEN "shadow" ELSE IF setting.enabled THEN "inject" ELSE "plain"
             hop == NewHop(req, spawn, real, url, kind)
             status == IF shadow THEN "requested" ELSE "unserved"
             n == Len(hops) + 1
             follows == \E k \in Hop : Followed(k) /\ hops[k].req = req
  <1>0. /\ spawn # 0 => real = "worker" /\ url # "other"
        /\ spawn # 0 /\ ~arm.taken => spawns[spawn] \in {"armed", "requested"} /\ (url = "target" => follows)
        /\ \A k \in Hop : hops[k].req = req => hops[k].real = real /\ hops[k].spawn = spawn
        /\ \A k \in Hop : hops[k].spawn = spawn /\ spawn # 0 => hops[k].req = req
        /\ \A k \in Hop : hops[k].req = req /\ Newest(k) => hops[k].phase \in {"redirected", "again"} \/ setting.enabled
    BY DEF Due
  <1>1. /\ Len(hops) < IF setting.enabled THEN MaxFilters ELSE MaxHops
        /\ hops' = Append(hops, hop)
        /\ arm' = CASE redirected -> [arm EXCEPT !.target = FALSE, !.taken = @ \/ ~follows]
                    [] url = "document" -> Looked
                    [] OTHER -> arm
        /\ IF kind = "plain" THEN scriptDest' = scriptDest ELSE SetScriptDest(req)
        /\ spawns' = [s \in Spawn |-> IF s # spawn THEN spawns[s] ELSE status]
        /\ setting' = setting
    BY DEF OnBeforeRequest
  <1>2. ScriptTypes /\ Requests /\ Records /\ AllFiltered /\ Expected /\ Armed
    BY DEF ScriptInv
  <1>3. Len(hops) \in Nat /\ Len(spawns) \in Nat /\ spawn \in Nat /\ req \in Nat \ {0} /\ 0 \notin Spawn
    BY <1>2, HopFacts
  <1>4. n <= MaxHops /\ req \in 1..MaxHops /\ n \in Nat \ {0}
    BY <1>1, <1>3, BoundAssumption
  <1>5. /\ kind \in {"shadow", "inject", "plain"} /\ (kind = "shadow" <=> shadow)
        /\ (kind = "inject" => setting.enabled) /\ (kind = "plain" => ~setting.enabled)
    OBVIOUS
  <1>6. status \in SpawnStatus \ {"armed"} /\ (shadow => status = "requested")
    BY DEF SpawnStatus
  <1> HIDE DEF kind, status
  <1>7. /\ hop \in HopType /\ hop.req = req /\ hop.spawn = spawn /\ hop.real = real /\ hop.kind = kind
        /\ hop.url = url /\ hop.phase = "buffering" /\ Filtered(hop, setting) /\ Told(hop, setting)
    <2>1. setting \in SettingType
      BY <1>2 DEF ScriptTypes
    <2> QED BY <1>3, <1>5, <2>1, NewHopIs
  <1> HIDE DEF hop
  <1>8. /\ hops' \in Seq(HopType) /\ Len(hops') = n
        /\ Hop' = Hop \cup {n} /\ n \notin Hop
        /\ hops'[n] = hop /\ (\A k \in Hop : hops'[k] = hops[k])
        /\ \A k \in Hop : Newest(k)' <=> Newest(k) /\ hops[k].req # req
    BY <1>1, <1>2, <1>7, HopAdded
  <1>9. /\ SpawnsGoOn /\ Spawn' = Spawn /\ (spawn # 0 => spawns'[spawn] = status)
        /\ \A t \in Spawn : t # spawn => spawns'[t] = spawns[t]
    <2>1. spawns' = [s \in Spawn |-> IF s = spawn THEN status ELSE spawns[s]]
      BY <1>1
    <2> QED BY <1>2, <1>6, <2>1, SpawnsMapped
  <1>10. spawns' \in Seq(SpawnStatus) /\ (spawns = <<>> => spawns' = <<>>)
    BY <1>2, <1>9, EmptySeq DEF SpawnsGoOn, ScriptTypes
  <1> HIDE DEF n
  <1>11. scriptDest' \in [1..MaxHops -> Nat]
    BY <1>1, <1>2, <1>4 DEF ScriptTypes, SetScriptDest, n
  <1>12. arm \in ArmType
    BY <1>2 DEF ScriptTypes, ArmType
  <1> HIDE DEF follows
  <1>13. arm' \in ArmType /\ (~arm'.taken => ~arm.taken) /\ (redirected /\ ~arm'.taken => follows)
         /\ (~arm.old => arm'.count = arm.count /\ ~arm'.old)
         /\ (~arm.old /\ ~redirected => arm'.target = arm.target)
    <2>1. CASE redirected
      <3> DEFINE t == arm.taken \/ ~follows
      <3>1. arm' = [arm EXCEPT !.target = FALSE, !.taken = t]
        BY <1>1, <2>1
      <3>2. t \in BOOLEAN /\ (~t => ~arm.taken /\ follows)
        BY <1>12 DEF ArmType
      <3> HIDE DEF t, redirected
      <3>3. arm' \in ArmType /\ arm'.taken = t /\ arm'.count = arm.count /\ arm'.old = arm.old
        BY <1>12, <3>1, <3>2 DEF ArmType
      <3> QED BY <2>1, <3>2, <3>3
    <2>2. CASE ~redirected /\ url = "document"
      <3>1. arm' = Looked
        BY <1>1, <2>2
      <3> HIDE DEF redirected
      <3>2. CASE arm.old
        <4>1. arm' = [arm EXCEPT !.count = 0, !.old = FALSE]
          BY <3>1, <3>2 DEF Looked
        <4> QED BY <1>12, <2>2, <3>2, <4>1 DEF ArmType
      <3>3. CASE ~arm.old
        BY <1>12, <2>2, <3>1, <3>3 DEF Looked
      <3> QED BY <3>2, <3>3
    <2>3. CASE ~redirected /\ url # "document"
      <3>1. arm' = arm
        BY <1>1, <2>3
      <3> HIDE DEF redirected
      <3> QED BY <1>12, <2>3, <3>1
    <2> QED BY <2>1, <2>2, <2>3
  <1>14. ScriptTypes'
    BY <1>1, <1>2, <1>8, <1>10, <1>11, <1>13 DEF ScriptTypes, ArmType
  <1>15. ASSUME NEW k \in Hop PROVE Followed(k)' <=> Followed(k) /\ hops[k].req # req
    BY <1>8 DEF Followed
  <1>16. \A k \in Hop' : Followed(k)' => k # n
    BY <1>7, <1>8 DEF Followed
  <1> QED
    <2>1. Requests'
      <3>1. Len(hops') <= MaxHops /\ (setting'.enabled => spawns' = <<>>)
        BY <1>1, <1>2, <1>4, <1>8, <1>10 DEF Requests
      <3>2. ASSUME NEW h \in Hop'
            PROVE  /\ hops'[h].req <= h
                   /\ hops'[h].spawn # 0 => /\ hops'[h].spawn \in Spawn' /\ hops'[h].real = "worker"
                                            /\ spawns'[hops'[h].spawn] # "armed"
                   /\ hops'[h].spawn # 0 => hops'[h].url # "other"
                   /\ hops'[h].kind = "inject" => setting'.enabled
        <4>1. CASE h = n
          <5>1. req <= n
            BY <1>3 DEF n
          <5> QED BY <1>0, <1>1, <1>5, <1>6, <1>7, <1>8, <1>9, <4>1, <5>1
        <4>2. CASE h # n
          <5>1. h \in Hop /\ hops'[h] = hops[h]
            BY <1>8, <4>2
          <5>2. /\ hops[h].req <= h
                /\ hops[h].spawn # 0 => /\ hops[h].spawn \in Spawn /\ hops[h].real = "worker"
                                        /\ spawns[hops[h].spawn] # "armed"
                /\ hops[h].spawn # 0 => hops[h].url # "other"
                /\ hops[h].kind = "inject" => setting.enabled
            BY <1>2, <5>1 DEF Requests
          <5>3. \A t \in Spawn : spawns[t] # "armed" => spawns'[t] # "armed"
            BY <1>9 DEF SpawnsGoOn
          <5> QED BY <1>1, <1>9, <5>1, <5>2, <5>3
        <4> QED BY <4>1, <4>2
      <3>3. ASSUME NEW h \in Hop', NEW k \in Hop', hops'[h].req = hops'[k].req
            PROVE  hops'[h].real = hops'[k].real /\ hops'[h].spawn = hops'[k].spawn
        <4>1. CASE h = n
          BY <1>0, <1>7, <1>8, <3>3, <4>1
        <4>2. CASE k = n
          BY <1>0, <1>7, <1>8, <3>3, <4>2
        <4>3. CASE h # n /\ k # n
          BY <1>2, <1>8, <3>3, <4>3 DEF Requests
        <4> QED BY <4>1, <4>2, <4>3
      <3>4. ASSUME NEW h \in Hop', NEW k \in Hop', hops'[h].spawn = hops'[k].spawn, hops'[h].spawn # 0
            PROVE  hops'[h].req = hops'[k].req
        <4>1. CASE h = n
          BY <1>0, <1>7, <1>8, <3>4, <4>1
        <4>2. CASE k = n
          BY <1>0, <1>7, <1>8, <3>4, <4>2
        <4>3. CASE h # n /\ k # n
          BY <1>2, <1>8, <3>4, <4>3 DEF Requests
        <4> QED BY <4>1, <4>2, <4>3
      <3> QED BY <3>1, <3>2, <3>3, <3>4 DEF Requests
    <2>2. Records'
      <3>1. DOMAIN scriptDest' = DOMAIN scriptDest /\ DOMAIN scriptDest = 1..MaxHops
            /\ (\A r \in DOMAIN scriptDest : r # req => scriptDest'[r] = scriptDest[r])
            /\ (scriptDest'[req] = IF kind = "plain" THEN scriptDest[req] ELSE n)
        BY <1>1, <1>2, <1>4 DEF ScriptTypes, SetScriptDest, n
      <3>2. ASSUME NEW r \in DOMAIN scriptDest', scriptDest'[r] # 0
            PROVE  Holds(scriptDest[r], r)'
        <4>1. CASE r = req /\ scriptDest'[r] = n
          <5> PICK m \in Nat : m = n
            BY <1>4
          <5>1. m \in Hop' /\ hops'[m].req = r /\ hops'[m].phase = "buffering" /\ scriptDest'[r] = m
            BY <1>7, <1>8, <4>1
          <5>2. Newest(m)'
            <6>1. \A k \in Hop' : k <= m
              BY <1>3, <1>8 DEF n, Hop
            <6> QED BY <6>1 DEF Newest
          <5> QED BY <5>1, <5>2 DEF Holds
        <4>2. CASE r # req
          <5>1. PICK k \in Hop : k = scriptDest[r] /\ Holds(k, r)
            BY <1>2, <3>1, <3>2, <4>2 DEF Records, Holds
          <5>2. k \in Hop' /\ hops'[k] = hops[k] /\ hops[k].req = r /\ hops[k].phase \notin {"redirected", "done"}
            BY <1>8, <5>1 DEF Holds
          <5>3. Newest(k) => Newest(k)'
            BY <1>8, <4>2, <5>2
          <5>4. ASSUME \A j \in Hop : hops[j].req = r /\ j > k => hops[j].kind = "plain",
                       NEW j \in Hop', hops'[j].req = r, j > k
                PROVE  hops'[j].kind = "plain"
            <6>1. j # n
              BY <1>7, <1>8, <4>2, <5>4
            <6> QED BY <1>8, <5>4, <6>1
          <5>5. scriptDest'[r] = k
            BY <3>1, <4>2, <5>1
          <5> QED BY <5>1, <5>2, <5>3, <5>4, <5>5 DEF Holds
        \* The record that an earlier hop left, to a hop that is not treated
        <4>3. CASE r = req /\ kind = "plain"
          <5>1. PICK k \in Hop : k = scriptDest[r] /\ Holds(k, r)
            BY <1>2, <3>1, <3>2, <4>3 DEF Records, Holds
          <5>2. k \in Hop' /\ hops'[k] = hops[k] /\ hops[k].req = r /\ hops[k].phase \notin {"redirected", "done"}
            BY <1>8, <5>1 DEF Holds
          <5>3. hops[k].phase = "again" /\ \A j \in Hop : hops[j].req = r /\ j > k => hops[j].kind = "plain"
            <6>1. CASE Newest(k)
              <7>1. hops[k].phase = "again"
                BY <1>0, <1>5, <4>3, <5>2, <6>1
              <7>2. \A j \in Hop : hops[j].req = r => j <= k
                BY <5>2, <6>1 DEF Newest
              <7>3. Hop \subseteq Nat
                BY <1>2, HopFacts
              <7> QED BY <7>1, <7>2, <7>3
            <6>2. CASE ~Newest(k)
              BY <5>1, <6>2 DEF Holds
            <6> QED BY <6>1, <6>2
          <5>4. ASSUME NEW j \in Hop', hops'[j].req = r, j > k PROVE hops'[j].kind = "plain"
            BY <1>7, <1>8, <4>3, <5>3, <5>4
          <5>5. scriptDest'[r] = k
            BY <3>1, <4>3, <5>1
          <5> QED BY <5>2, <5>3, <5>4, <5>5 DEF Holds
        <4> QED BY <3>1, <4>1, <4>2, <4>3
      <3>3. ASSUME NEW k \in Hop', Newest(k)', hops'[k].kind # "plain",
                   hops'[k].phase \notin {"redirected", "done"}, hops'[k].headers # "failed"
            PROVE  Recorded(k)' = k
        <4>1. CASE k = n
          BY <1>7, <1>8, <3>1, <3>3, <4>1 DEF Recorded
        <4>2. CASE k # n
          <5>1. k \in Hop /\ hops'[k] = hops[k] /\ Newest(k) /\ hops[k].req # req
            BY <1>8, <3>3, <4>2
          <5>2. Recorded(k) = k
            BY <1>2, <3>3, <5>1 DEF Records
          <5>3. hops[k].req \in 1..MaxHops
            <6>1. hops[k] \in HopType /\ k \in 1..Len(hops)
              BY <1>2, <5>1, HopFacts DEF Hop
            <6>2. hops[k].req \in Nat \ {0} /\ hops[k].req <= k /\ Len(hops) <= MaxHops
              BY <1>2, <5>1, <6>1 DEF HopType, Requests
            <6> QED BY <1>3, <6>1, <6>2, BoundAssumption
          <5> QED BY <3>1, <5>1, <5>2, <5>3 DEF Recorded
        <4> QED BY <4>1, <4>2
      <3> QED BY <3>2, <3>3 DEF Records
    <2>3. AllFiltered'
      <3>1. ASSUME NEW k \in Hop'
            PROVE  /\ hops'[k].kind = "inject" => Filtered(hops'[k], setting')
                   /\ hops'[k].kind = "shadow" => Told(hops'[k], setting')
        <4>1. CASE k = n
          BY <1>1, <1>7, <1>8, <4>1
        <4>2. CASE k # n
          <5>1. k \in Hop /\ hops'[k] = hops[k]
            BY <1>8, <4>2
          <5>2. /\ hops[k].kind = "inject" => Filtered(hops[k], setting)
                /\ hops[k].kind = "shadow" => Told(hops[k], setting)
            BY <1>2, <5>1 DEF AllFiltered
          <5> QED BY <1>1, <5>1, <5>2
        <4> QED BY <4>1, <4>2
      <3> QED BY <3>1 DEF AllFiltered
    <2>4. Expected'
      <3> SUFFICES ASSUME NEW k \in Hop', Newest(k)', hops'[k].kind = "shadow",
                          hops'[k].phase \notin {"serving", "done"}, hops'[k].spawn # 0
                   PROVE  spawns'[hops'[k].spawn] = "requested"
        BY DEF Expected
      <3>1. CASE k = n
        BY <1>5, <1>6, <1>7, <1>8, <1>9, <3>1
      <3>2. CASE k # n
        <4>1. k \in Hop /\ hops'[k] = hops[k] /\ Newest(k) /\ hops[k].req # req
          BY <1>8, <3>2
        <4>2. hops[k].spawn \in Spawn /\ hops[k].spawn # spawn
          BY <1>0, <1>2, <4>1 DEF Requests
        <4> QED BY <1>2, <1>9, <4>1, <4>2 DEF Expected
      <3> QED BY <3>1, <3>2
    <2>5. Armed'
      <3> SUFFICES ASSUME ~arm'.taken PROVE Armed'
        BY DEF Armed
      <3>1. /\ ~arm.taken /\ ~arm.old /\ arm.count = Cardinality(Owed) /\ NoneUnserved
            /\ (\A h \in Hop : Followed(h) => arm.target)
            /\ (\A h, k \in Hop : Followed(h) /\ Followed(k) => h = k)
            /\ \A h \in Hop : hops[h].spawn # 0 =>
                 hops[h].kind = "shadow" /\ (hops[h].phase = "again" => hops[h].url # "target")
        BY <1>2, <1>13 DEF Armed
      <3>2. spawn # 0 => shadow
        <4> SUFFICES ASSUME spawn # 0 PROVE shadow
          OBVIOUS
        <4>1. CASE url = "document"
          <5>1. spawn \in Owed
            BY <1>0, <3>1 DEF Owed
          <5>2. Cardinality(Owed) > 0
            BY <1>2, <5>1, OwedFinite
          <5> QED BY <3>1, <4>1, <5>2 DEF HasShadowArm
        <4>2. CASE url = "target"
          BY <1>0, <3>1, <4>2 DEF follows
        <4> QED BY <1>0, <4>1, <4>2
      <3>3. spawn # 0 => spawns'[spawn] = "requested"
        BY <1>6, <1>9, <3>2
      <3>4. Owed' = Owed
        BY <1>0, <1>3, <1>9, <3>1, <3>3 DEF Owed
      <3>5. NoneUnserved'
        BY <1>3, <1>9, <3>1, <3>3 DEF NoneUnserved
      <3>6. ASSUME NEW k \in Hop', Followed(k)' PROVE k \in Hop /\ Followed(k) /\ arm'.target
        <4>1. k \in Hop /\ Followed(k) /\ hops[k].req # req
          BY <1>8, <1>15, <1>16, <3>6
        <4>2. ~redirected
          <5> SUFFICES ASSUME redirected PROVE FALSE
            OBVIOUS
          <5>1. PICK j \in Hop : Followed(j) /\ hops[j].req = req
            BY <1>13 DEF follows
          <5> QED BY <3>1, <4>1, <5>1
        <4> QED BY <1>13, <3>1, <4>1, <4>2
      <3>7. \A h, k \in Hop' : Followed(h)' /\ Followed(k)' => h = k
        BY <3>1, <3>6
      <3>8. ASSUME NEW k \in Hop', hops'[k].spawn # 0
            PROVE  hops'[k].kind = "shadow" /\ (hops'[k].phase = "again" => hops'[k].url # "target")
        <4>1. CASE k = n
          BY <1>5, <1>7, <1>8, <3>2, <3>8, <4>1
        <4>2. CASE k # n
          BY <1>8, <3>1, <3>8, <4>2
        <4> QED BY <4>1, <4>2
      <3> QED BY <1>13, <3>1, <3>4, <3>5, <3>6, <3>7, <3>8 DEF Armed
    <2> QED BY <1>14, <2>1, <2>2, <2>3, <2>4, <2>5 DEF ScriptInv

LEMMA SpawnRequestsKeeps ==
  ASSUME ScriptInv, NEW s \in Spawn, SpawnRequests(s)
  PROVE  ScriptInv'
  <1>1. ScriptTypes /\ Requests
    BY DEF ScriptInv
  <1>2. Len(hops) \in Nat /\ \A k \in Hop : hops[k].req <= k /\ hops[k].req # Len(hops) + 1
    <2>1. Len(hops) \in Nat
      BY <1>1, HopFacts
    <2>2. ASSUME NEW k \in Hop PROVE hops[k].req <= k /\ hops[k].req # Len(hops) + 1
      <3>1. hops[k].req <= k /\ hops[k].req \in Nat /\ k \in 1..Len(hops)
        BY <1>1, HopFacts DEF Requests, HopType, Hop
      <3> QED BY <2>1, <3>1
    <2> QED BY <2>1, <2>2
  <1>3. \A k \in Hop : hops[k].spawn # s
    <2>1. s # 0 /\ spawns[s] = "armed"
      BY <1>1, HopFacts DEF SpawnRequests
    <2> QED BY <1>1, <2>1 DEF Requests
  <1>4. OnBeforeRequest(Len(hops) + 1, s, "worker", "document") /\ spawns[s] = "armed"
    BY DEF SpawnRequests
  <1>5. Len(hops) + 1 \in 1..(Len(hops) + 1)
    BY <1>2
  <1>6. s \in {0} \cup Spawn /\ "worker" \in {"worker", "script"} /\ "document" \in {"document", "target", "other"}
    OBVIOUS
  <1>7. Due(Len(hops) + 1, s, "worker", "document")
    BY <1>2, <1>3, <1>4, Zenon DEF Due
  <1> QED BY <1>4, <1>5, <1>6, <1>7, RequestKeeps, Zenon

LEMMA PageRequestsKeeps ==
  ASSUME ScriptInv, NEW real \in {"worker", "script"}, NEW url \in {"document", "target", "other"},
         PageRequests(real, url)
  PROVE  ScriptInv'
  <1>1. ScriptTypes /\ Requests
    BY DEF ScriptInv
  <1>2. Len(hops) \in Nat /\ \A k \in Hop : hops[k].req # Len(hops) + 1
    <2>1. Len(hops) \in Nat
      BY <1>1, HopFacts
    <2>2. ASSUME NEW k \in Hop PROVE hops[k].req # Len(hops) + 1
      <3>1. hops[k].req <= k /\ hops[k].req \in Nat /\ k \in 1..Len(hops)
        BY <1>1, HopFacts DEF Requests, HopType, Hop
      <3> QED BY <2>1, <3>1
    <2> QED BY <2>1, <2>2
  <1>3. OnBeforeRequest(Len(hops) + 1, 0, real, url)
    BY DEF PageRequests
  <1>4. Len(hops) + 1 \in 1..(Len(hops) + 1)
    BY <1>2
  <1>5. Due(Len(hops) + 1, 0, real, url)
    <2>1. \A k \in Hop : hops[k].req # Len(hops) + 1
      BY <1>2
    <2> QED BY <2>1 DEF Due
  <1>6. 0 \in {0} \cup Spawn
    OBVIOUS
  <1> QED BY <1>3, <1>4, <1>5, <1>6, RequestKeeps, Zenon

LEMMA RedirectedKeeps ==
  ASSUME ScriptInv, NEW h \in Hop, Redirected(h)
  PROVE  ScriptInv'
  <1>1. ScriptTypes /\ Requests /\ Expected /\ Armed
    BY DEF ScriptInv
  <1> DEFINE a == hops[h]
  <1>2. Len(hops) \in Nat /\ a \in HopType /\ a.req \in 1..(Len(hops) + 1) /\ h \in Nat
    <2>1. Len(hops) \in Nat /\ h \in 1..Len(hops) /\ a \in HopType
      BY <1>1, HopFacts DEF Hop
    <2>2. a.req \in Nat \ {0} /\ a.req <= h
      BY <1>1, <2>1 DEF HopType, Requests
    <2> QED BY <2>1, <2>2
  <1>3. /\ a.spawn \in {0} \cup Spawn /\ a.real \in {"worker", "script"} /\ a.url \in {"document", "target", "other"}
        /\ a.spawn # 0 => a.real = "worker" /\ a.url # "other"
    BY <1>1, <1>2, HopFields DEF Requests
  <1>4. /\ \A k \in Hop : hops[k].req = a.req => hops[k].real = a.real /\ hops[k].spawn = a.spawn
        /\ \A k \in Hop : hops[k].spawn = a.spawn /\ a.spawn # 0 => hops[k].req = a.req
    BY <1>1 DEF Requests
  <1>5. Newest(h) /\ (a.phase \in {"redirected", "again"} \/ (a.kind = "inject" /\ a.phase = "buffering"))
    BY DEF Redirected, Waiting
  <1>6. \A k \in Hop : hops[k].req = a.req /\ Newest(k) => hops[k].phase \in {"redirected", "again"} \/ setting.enabled
    <2> SUFFICES ASSUME NEW k \in Hop, hops[k].req = a.req, Newest(k)
                 PROVE  hops[k].phase \in {"redirected", "again"} \/ setting.enabled
      OBVIOUS
    <2>1. k <= h /\ h <= k /\ k \in Nat
      BY <1>1, <1>5, HopFacts DEF Newest
    <2>2. k = h
      BY <1>2, <2>1
    <2> QED BY <1>1, <1>5, <2>2 DEF Requests
  <1>7. a.spawn # 0 /\ ~arm.taken =>
          /\ a.kind = "shadow" /\ spawns[a.spawn] \in {"armed", "requested"}
          /\ a.phase = "again" => a.url # "target"
    <2> SUFFICES ASSUME a.spawn # 0, ~arm.taken
                 PROVE  /\ a.kind = "shadow" /\ spawns[a.spawn] \in {"armed", "requested"}
                        /\ a.phase = "again" => a.url # "target"
      OBVIOUS
    <2>1. a.kind = "shadow" /\ (a.phase = "again" => a.url # "target")
      BY <1>1 DEF Armed
    <2>2. spawns[a.spawn] = "requested"
      BY <1>1, <1>5, <2>1 DEF Expected
    <2> QED BY <2>1, <2>2
  <1>8. a.kind = "inject" => a.spawn = 0
    <2> SUFFICES ASSUME a.kind = "inject" PROVE a.spawn = 0
      OBVIOUS
    <2>1. spawns = <<>> /\ Len(<<>>) = 0
      BY <1>1 DEF Requests
    <2>2. Spawn = {}
      BY <2>1 DEF Spawn
    <2> QED BY <1>3, <2>2
  <1>9. PICK url \in {"document", "target", "other"} :
          /\ OnBeforeRequest(a.req, a.spawn, a.real, url)
          /\ url = CASE a.phase = "redirected" -> "target" [] a.phase = "again" -> a.url [] OTHER -> "other"
    <2> DEFINE goes == CASE a.phase = "redirected" -> "target" [] a.phase = "again" -> a.url [] OTHER -> "other"
    <2>1. goes \in {"document", "target", "other"}
      BY <1>3
    <2>2. OnBeforeRequest(a.req, a.spawn, a.real, goes)
      BY DEF Redirected
    <2> HIDE DEF goes
    <2>3. OnBeforeRequest(a.req, a.spawn, a.real, goes) /\ goes = CASE a.phase = "redirected" -> "target" [] a.phase = "again" -> a.url [] OTHER -> "other"
      BY <2>2 DEF goes
    <2> HIDE DEF a
    <2> QED BY <2>1, <2>3, Zenon
  <1>10. a.spawn # 0 => url # "other"
    BY <1>3, <1>5, <1>8, <1>9
  <1>11. a.spawn # 0 /\ ~arm.taken /\ url = "target" => \E k \in Hop : Followed(k) /\ hops[k].req = a.req
    <2> SUFFICES ASSUME a.spawn # 0, ~arm.taken, url = "target" PROVE Followed(h)
      OBVIOUS
    <2>1. a.phase = "redirected"
      BY <1>5, <1>7, <1>9
    <2> QED BY <1>5, <2>1 DEF Followed
  <1>12. Due(a.req, a.spawn, a.real, url)
    <2> HIDE DEF a
    <2> QED BY <1>3, <1>4, <1>6, <1>7, <1>10, <1>11, Zenon DEF Due
  <1> HIDE DEF a
  <1> QED BY <1>2, <1>3, <1>9, <1>12, RequestKeeps, Zenon

-----------------------------------------------------------------------------
(* Every step *)

LEMMA ScriptStarts ==
  ASSUME Init
  PROVE  ScriptInv
  <1>1. /\ hops = <<>> /\ spawns = <<>> /\ scriptDest = [r \in 1..MaxHops |-> 0]
        /\ arm = [count |-> 0, old |-> FALSE, target |-> FALSE, taken |-> FALSE]
    BY DEF Init
  <1>2. Len(<<>>) = 0 /\ Hop = {} /\ Spawn = {} /\ Owed = {}
    BY <1>1 DEF Hop, Spawn, Owed
  <1>3. /\ setting \in SettingType /\ setting.offset <= setting.prologue /\ (setting.enabled \/ setting.metadata)
    BY BoundAssumption DEF Init, SettingType
  <1>4. arm \in ArmType /\ arm.count = 0 /\ ~arm.old
    BY <1>1 DEF ArmType
  <1>5. ScriptTypes
    BY <1>1, <1>3, <1>4 DEF ScriptTypes, ArmType
  <1>6. Requests
    BY <1>1, <1>2, BoundAssumption DEF Requests
  <1>7. Records
    BY <1>1, <1>2 DEF Records
  <1>8. AllFiltered /\ Expected
    BY <1>2 DEF AllFiltered, Expected
  <1>9. Armed
    BY <1>2, <1>4, FS_EmptySet DEF Armed, NoneUnserved
  <1> QED BY <1>5, <1>6, <1>7, <1>8, <1>9 DEF ScriptInv

LEMMA ScriptStep ==
  ASSUME ScriptInv, Next
  PROVE  ScriptInv'
  <1>1. CASE ArmShadowSpawn
    BY <1>1, ArmKeeps
  <1>2. CASE ArmAges
    BY <1>2, AgesKeeps
  <1>3. ASSUME NEW s \in Spawn, ConstructorThrows(s) PROVE ScriptInv'
    BY <1>3, ThrowsKeeps
  <1>4. ASSUME NEW s \in Spawn, WorkerErrors(s) PROVE ScriptInv'
    BY <1>4, WorkerErrorsKeeps
  <1>5. ASSUME NEW s \in Spawn, SpawnRequests(s) PROVE ScriptInv'
    BY <1>5, SpawnRequestsKeeps
  <1>6. ASSUME NEW real \in {"worker", "script"}, NEW url \in {"document", "target", "other"}, PageRequests(real, url)
        PROVE  ScriptInv'
    BY <1>6, PageRequestsKeeps
  <1>7. ASSUME NEW h \in Hop, OnBeforeSendHeaders(h) PROVE ScriptInv'
    BY <1>7, HeadersKeep
  <1>8. ASSUME NEW h \in Hop, OnBeforeRedirect(h) PROVE ScriptInv'
    BY <1>8, RedirectKeeps
  <1>9. ASSUME NEW h \in Hop, Redirected(h) PROVE ScriptInv'
    BY <1>9, RedirectedKeeps
  <1>10. ASSUME NEW h \in Hop, OnErrorOccurred(h) PROVE ScriptInv'
    BY <1>10, ErrorKeeps
  <1>11. ASSUME NEW h \in Hop, ShadowPasses(h) PROVE ScriptInv'
    BY <1>11, PassesKeeps
  <1>12. ASSUME NEW h \in Hop, ShadowServed(h) PROVE ScriptInv'
    BY <1>12, ServedKeeps
  <1>13. ASSUME NEW h \in Hop, NEW bad \in BOOLEAN, Data(h, bad) PROVE ScriptInv'
    BY <1>13, DataKeeps
  <1>14. ASSUME NEW h \in Hop, Stop(h) PROVE ScriptInv'
    BY <1>14, StopKeeps
  <1>15. ASSUME NEW h \in Hop, FilterError(h) PROVE ScriptInv'
    BY <1>15, FilterErrorKeeps
  <1>16. ASSUME NEW h \in Hop, EvaluateBuffered(h) PROVE ScriptInv'
    BY <1>16, EvaluateBufferedKeeps
  <1>17. ASSUME NEW h \in Hop, Decide(h) PROVE ScriptInv'
    BY <1>17, DecideKeeps
  <1>18. ASSUME NEW h \in Hop, Finish(h) PROVE ScriptInv'
    BY <1>18, FinishKeeps
  <1>19. ASSUME NEW h \in Hop, ShadowStarts(h) PROVE ScriptInv'
    BY <1>19, StartsKeeps
  <1>20. ASSUME NEW h \in Hop, RedirectedToItself(h) PROVE ScriptInv'
    BY <1>20, RedirectedToItselfKeeps
  <1> QED BY <1>1, <1>2, <1>3, <1>4, <1>5, <1>6, <1>7, <1>8, <1>9, <1>10, <1>11, <1>12, <1>13, <1>14,
             <1>15, <1>16, <1>17, <1>18, <1>19, <1>20 DEF Next

LEMMA ScriptRests ==
  ASSUME ScriptInv, UNCHANGED scriptVars
  PROVE  ScriptInv'
  <1>1. /\ hops' = hops /\ scriptDest' = scriptDest /\ arm' = arm /\ spawns' = spawns /\ setting' = setting
    BY DEF scriptVars
  <1>2. Hop' = Hop /\ Spawn' = Spawn /\ Owed' = Owed
    BY <1>1 DEF Hop, Spawn, Owed
  <1>3. \A h \in Hop : (Newest(h)' <=> Newest(h)) /\ Recorded(h)' = Recorded(h) /\ (Followed(h)' <=> Followed(h))
    BY <1>1, <1>2 DEF Newest, Recorded, Followed
  <1>4. ScriptTypes' /\ Requests'
    BY <1>1, <1>2 DEF ScriptInv, ScriptTypes, Requests
  <1>5. Records' /\ AllFiltered' /\ Expected'
    BY <1>1, <1>2, <1>3 DEF ScriptInv, Records, Holds, AllFiltered, Expected
  <1>6. Armed'
    BY <1>1, <1>2, <1>3 DEF ScriptInv, Armed, NoneUnserved
  <1> QED BY <1>4, <1>5, <1>6 DEF ScriptInv

(***************************************************************************)
(* What ondata, onstop, onerror and evaluateBuffered of handleInjection    *)
(* write is the source of the response, whole and in order, with the       *)
(* polyfill's bundle at most once and behind the prologue, in workers and  *)
(* in every worker that can take it.  A record of scriptDest is that of    *)
(* the newest hop of its request, which has not ended, or was left by a    *)
(* hop that was redirected to its own URL and is followed by hops nobody   *)
(* treats.  While no arm was taken by anything but the spawn it is for,    *)
(* there are as many arms as spawns whose script is to come, and none of   *)
(* these is passed by (webrequest.js:78-165, 290-375, 560-1010,            *)
(* 1090-1190).                                                             *)
(***************************************************************************)
THEOREM ScriptsAreRight == FiltersSpec => []ScriptsRight
  <1>1. FiltersInit => ScriptInv
    BY ScriptStarts DEF FiltersInit
  <1>2. ScriptInv /\ [FiltersNext]_FiltersVars => ScriptInv'
    BY ScriptStep, ScriptRests DEF FiltersNext, FiltersVars
  <1>3. ScriptInv => ScriptsRight
    BY InvIsRight
  <1> QED BY <1>1, <1>2, <1>3, PTL DEF FiltersSpec
===============================================================================
