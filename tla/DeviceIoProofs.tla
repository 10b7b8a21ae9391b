---------------------------- MODULE DeviceIoProofs ----------------------------
(***************************************************************************)
(* What DeviceIo guarantees for any number of clients, lifetimes,          *)
(* authorities and commands, queues and sinks of any capacity: a command   *)
(* is let through to the device only on the authority of that moment, what *)
(* is let through is called alone of its authority and before the stop of  *)
(* its lifetime has returned, and that stop leaves nothing running.        *)
(***************************************************************************)
EXTENDS DeviceIo, SequenceTheorems, TLAPS

\* What is numbered is numbered as it is made.
Numbered ==
  /\ bound \in Plans
  /\ made.lives <= bound.lives /\ made.auths <= bound.auths /\ made.cmds <= bound.cmds
  /\ entry <= made.lives
  /\ \A c \in Client : hot[c] <= made.auths /\ cap[c] <= made.auths
  /\ \A a \in links : a <= made.auths
  /\ \A k \in Cmd : /\ cmds[k].auth <= made.auths
                    /\ k > made.cmds => cmds[k].st = "none"
  /\ \A l \in Life : l > made.lives => lives[l].reader = "none" /\ lives[l].stop = "no"

\* An authority that is valid is the one its client has.
Authorised(a) ==
  /\ entry # 0
  /\ \/ /\ auth[a].kind = "nm" /\ session[auth[a].c] = "nm" /\ hot[auth[a].c] = a
        /\ auth[a].life = entry
     \/ auth[a].kind = "transport" /\ session[auth[a].c] = "transport" /\ cap[auth[a].c] = a

Authority ==
  /\ \A c \in Client :
       /\ session[c] # "none" => entry # 0
       /\ hot[c] # 0 => auth[hot[c]].kind = "nm" /\ auth[hot[c]].c = c
       /\ cap[c] # 0 => auth[cap[c]].kind = "transport" /\ auth[cap[c]].c = c
  /\ \A a \in links : auth[a].kind = "transport"
  /\ \A a \in Auth : /\ auth[a].kind = "nm" => auth[a].life # 0
                     /\ auth[a].kind # "none" => auth[a].c \in Client
                     /\ auth[a].valid => auth[a].kind # "none" /\ Authorised(a)

\* A command on a valid authority goes to the lifetime that is published, however
\* long ago it was looked up; a connection has one command under way, and an NM
\* command goes to the lifetime of its binding.
Commands ==
  /\ \A k \in Cmd :
       /\ cmds[k].auth = 0 <=> cmds[k].st \in {"none", "done"}
       /\ cmds[k].st \in {"looked", "sent", "received", "accepted", "running"} =>
            cmds[k].life # 0 /\ (auth[cmds[k].auth].valid => cmds[k].life = entry)
  /\ \A j, k \in Cmd :
       cmds[j].auth = cmds[k].auth /\ cmds[k].auth # 0 /\ auth[cmds[k].auth].kind = "transport" => j = k
  /\ \A k \in Cmd : cmds[k].auth # 0 /\ auth[cmds[k].auth].kind # "transport" =>
       cmds[k].st # "checked" /\ cmds[k].life = auth[cmds[k].auth].life

\* The line before a worker: its queue, and what waits for room in it.
Line(l) == lives[l].queue \o lives[l].waiting

Lines ==
  \A l \in Life : \A i \in DOMAIN Line(l) : Line(l)[i] # Shutdown =>
    /\ cmds[Line(l)[i]].st = "sent" /\ cmds[Line(l)[i]].life = l
    /\ \A j \in DOMAIN Line(l) : Line(l)[j] = Line(l)[i] => j = i

Threads ==
  /\ \A l \in Life :
       /\ lives[l].call # 0 => cmds[lives[l].call].st \in {"received", "accepted", "running"} /\ cmds[lives[l].call].life = l
       /\ lives[l].closed => /\ lives[l].call = 0 /\ lives[l].queue = <<>> /\ lives[l].waiting = <<>>
                             /\ \A k \in Cmd : cmds[k].life = l => cmds[k].st # "sent"
       /\ lives[l].victim # 0 => lives[l].reader \in {"stopping", "exited"}
       /\ lives[l].stop = "done" => lives[l].closed /\ ReaderJoined(l)
  /\ \A k \in Cmd : cmds[k].st \in {"received", "accepted", "running"} => cmds[k].life # 0 /\ lives[cmds[k].life].call = k

IoInv == TypeOK /\ Numbered /\ Authority /\ Commands /\ Lines /\ Threads

-----------------------------------------------------------------------------
(* Types *)

AuthType == [kind : {"none", "nm", "transport"}, c : Client \cup {None}, life : Life \cup {0}, valid : BOOLEAN]
LifeType ==
  [queue : Seq(Cmd \cup {Shutdown}), waiting : Seq(Cmd \cup {Shutdown}), call : Cmd \cup {0},
   closed : BOOLEAN, stopped : BOOLEAN,
   reader : {"none", "reading", "routing", "sending", "stopping", "exited"},
   at : Auth \cup {0}, left : SUBSET Auth,
   stop : {"no", "detached", "signalled", "asked", "done"},
   stopper : Client \cup {None}, victim : Life \cup {0}]
CmdType ==
  [auth : Auth \cup {0}, life : Life \cup {0}, epoch : BOOLEAN,
   st : {"none", "checked", "looked", "sent", "received", "accepted", "running", "answered", "done"}]
ClientType ==
  [task : {"on", "busy", "replying", "ending", "left"}, open : BOOLEAN, sink : 0..MaxSink]

LEMMA Types ==
  TypeOK <=> /\ session \in [Client -> {"none", "nm", "transport"}]
             /\ entry \in Life \cup {0} /\ links \subseteq Auth
             /\ auth \in [Auth -> AuthType]
             /\ hot \in [Client -> Auth \cup {0}] /\ cap \in [Client -> Auth \cup {0}]
             /\ lives \in [Life -> LifeType] /\ cmds \in [Cmd -> CmdType]
             /\ client \in [Client -> ClientType] /\ made \in [Bounded -> Nat]
BY DEF TypeOK, AuthType, LifeType, CmdType, ClientType

LEMMA Numbers ==
  ASSUME TypeOK, Numbered
  PROVE  /\ made.lives \in Nat /\ made.auths \in Nat /\ made.cmds \in Nat
         /\ bound.lives \in 0..MaxLives /\ bound.auths \in 0..MaxAuths /\ bound.cmds \in 0..MaxCommands
         /\ \A b \in Bounded : made[b] \in Nat /\ bound[b] \in Nat
BY PlansAssumption DEF TypeOK, Numbered, Bounded

-----------------------------------------------------------------------------
(* The authority of the clients *)

\* What the steps do to authorities there are, and to the Entry.
AuthorityMoves ==
  /\ made.auths <= made'.auths
  /\ \A a \in Auth : a <= made.auths =>
       /\ auth'[a].kind = auth[a].kind /\ auth'[a].c = auth[a].c /\ auth'[a].life = auth[a].life
       /\ auth'[a].valid => auth[a].valid /\ entry' = entry

AuthorityTypes ==
  /\ session \in [Client -> {"none", "nm", "transport"}]
  /\ entry \in Life \cup {0} /\ links \subseteq Auth
  /\ auth \in [Auth -> AuthType]
  /\ hot \in [Client -> Auth \cup {0}] /\ cap \in [Client -> Auth \cup {0}]

AuthorityNumbers ==
  /\ entry <= made.lives
  /\ \A c \in Client : hot[c] <= made.auths /\ cap[c] <= made.auths
  /\ \A a \in links : a <= made.auths

LEMMA ValidSet ==
  ASSUME NEW r \in AuthType, NEW b \in BOOLEAN
  PROVE  LET q == [r EXCEPT !.valid = b]
         IN  q \in AuthType /\ q.kind = r.kind /\ q.c = r.c /\ q.life = r.life /\ q.valid = b
BY DEF AuthType

LEMMA Revoking ==
  ASSUME TypeOK, NEW as
  PROVE  /\ Revoked(as) \in [Auth -> AuthType]
         /\ \A a \in Auth :
              /\ Revoked(as)[a].kind = auth[a].kind /\ Revoked(as)[a].c = auth[a].c
              /\ Revoked(as)[a].life = auth[a].life
              /\ Revoked(as)[a].valid <=> auth[a].valid /\ a \notin as
<1>1. \A a \in Auth : auth[a] \in AuthType
  BY Types
<1>2. \A a \in Auth : Revoked(as)[a] = [auth[a] EXCEPT !.valid = @ /\ a \notin as]
  BY DEF Revoked
<1>3. ASSUME NEW a \in Auth
      PROVE  /\ Revoked(as)[a] \in AuthType
             /\ Revoked(as)[a].kind = auth[a].kind /\ Revoked(as)[a].c = auth[a].c
             /\ Revoked(as)[a].life = auth[a].life
             /\ Revoked(as)[a].valid = (auth[a].valid /\ a \notin as)
  <2>1. auth[a] \in AuthType /\ (auth[a].valid /\ a \notin as) \in BOOLEAN
    BY <1>1
  <2>2. Revoked(as)[a] = [auth[a] EXCEPT !.valid = auth[a].valid /\ a \notin as]
    BY <1>2
  <2> QED
    BY <2>1, <2>2, ValidSet, ZenonT(40)
<1> QED
  BY <1>3 DEF Revoked

LEMMA NewAuthType ==
  ASSUME NEW k \in {"nm", "transport"}, NEW c \in Client, NEW l \in Life \cup {0}
  PROVE  /\ NewAuth(k, c, l) \in AuthType
         /\ NewAuth(k, c, l).kind = k /\ NewAuth(k, c, l).c = c /\ NewAuth(k, c, l).life = l
BY DEF NewAuth, AuthType

\* Client c gives up its authorities hot[c] and x, and gets number n instead, or
\* none: what a refresh, or a connection that is made, comes to.
GetsAuthority(c, x, n, k, l) ==
  /\ \A a \in Auth : auth[a].valid /\ auth[a].c = c => a \in {hot[c], x}
  /\ x # 0 => auth[x].c = c
  /\ auth' = IF n = 0 THEN Revoked({hot[c], x}) ELSE [Revoked({hot[c], x}) EXCEPT ![n] = NewAuth(k, c, l)]
  /\ n # 0 => n = made.auths + 1 /\ n <= bound.auths /\ entry' # 0 /\ session'[c] = k
  /\ k = "nm" => l = entry' /\ hot'[c] = n /\ cap'[c] \in {0, cap[c]}
  /\ k = "transport" => hot'[c] = 0 /\ cap'[c] = n
  /\ \A d \in Client \ {c} : session'[d] = session[d] /\ hot'[d] = hot[d] /\ cap'[d] = cap[d]
  /\ session'[c] # "none" => entry' # 0
  /\ entry = 0 \/ entry' = entry
  /\ \A a \in links' : a \in links \/ (a = n /\ n # 0 /\ k = "transport")
  /\ made'.auths = IF n = 0 THEN made.auths ELSE n
  /\ made'.lives >= made.lives /\ entry' <= made'.lives

LEMMA Replaced ==
  ASSUME TypeOK, Numbered, Authority, AuthorityTypes', bound' = bound, NEW c \in Client, NEW x \in Auth \cup {0},
         NEW n \in Auth \cup {0}, NEW k \in {"nm", "transport"}, NEW l \in Life \cup {0},
         GetsAuthority(c, x, n, k, l)
  PROVE  Authority' /\ AuthorityMoves /\ AuthorityNumbers' /\ made'.auths <= bound.auths
<1> USE DEF GetsAuthority
<1> DEFINE R == Revoked({hot[c], x})
<1>1. /\ R \in [Auth -> AuthType]
      /\ \A a \in Auth :
           /\ R[a].kind = auth[a].kind /\ R[a].c = auth[a].c /\ R[a].life = auth[a].life
           /\ R[a].valid <=> auth[a].valid /\ a \notin {hot[c], x}
  BY Revoking
<1> HIDE DEF R
<1>2. /\ \A a \in Auth : a # n => auth'[a] = R[a]
      /\ n # 0 => auth'[n] = NewAuth(k, c, l)
  <2>1. CASE n = 0
    BY <2>1 DEF R
  <2>2. CASE n # 0
    BY <1>1, <2>2 DEF R
  <2> QED
    BY <2>1, <2>2
<1>3. /\ made.auths \in Nat /\ n \in Nat /\ \A a \in Auth : a <= made.auths => a # n
      /\ entry \in Nat /\ \A a \in Auth : a \in Nat /\ a # 0
  <2>1. made.auths \in Nat /\ entry \in Life \cup {0}
    BY Numbers, Types
  <2>2. n \in Nat /\ entry \in Nat /\ \A a \in Auth : a \in Nat /\ a # 0
    BY <2>1 DEF Auth, Life
  <2>3. n = 0 \/ n = made.auths + 1
    OBVIOUS
  <2> QED
    BY <2>1, <2>2, <2>3
<1>4. ASSUME NEW a \in Auth, a # n
      PROVE  /\ auth'[a].kind = auth[a].kind /\ auth'[a].c = auth[a].c /\ auth'[a].life = auth[a].life
             /\ auth'[a].valid => auth[a].valid /\ auth[a].c # c
  <2>1. auth'[a] = R[a]
    BY <1>2, <1>4
  <2>2. R[a].valid => auth[a].valid /\ a \notin {hot[c], x}
    BY <1>1
  <2>3. auth[a].valid /\ auth[a].c = c => a \in {hot[c], x}
    OBVIOUS
  <2> QED
    BY <1>1, <2>1, <2>2, <2>3
<1>5. \A a \in Auth : a # n /\ auth'[a].valid => entry' = entry
  BY <1>4 DEF Authority, Authorised
<1>6. AuthorityMoves
  <2>1. made.auths <= made'.auths
    BY <1>3
  <2> QED
    BY <1>3, <1>4, <1>5, <2>1 DEF AuthorityMoves
<1>7. AuthorityNumbers' /\ made'.auths <= bound.auths
  <2>1. made'.auths \in Nat /\ made.auths <= made'.auths /\ n <= made'.auths
    BY <1>3
  <2>2. \A d \in Client : hot'[d] \in Nat /\ cap'[d] \in Nat /\ hot[d] \in Nat /\ cap[d] \in Nat
    BY DEF AuthorityTypes, TypeOK, Auth
  <2>3. \A d \in Client : hot'[d] <= made'.auths /\ cap'[d] <= made'.auths
    <3> TAKE d \in Client
    <3>1. CASE d = c
      BY <1>3, <2>1, <2>2, <3>1 DEF Numbered
    <3>2. CASE d # c
      BY <1>3, <2>1, <2>2, <3>2 DEF Numbered
    <3> QED
      BY <3>1, <3>2
  <2>4. \A a \in links' : a <= made'.auths
    <3> TAKE a \in links'
    <3>1. CASE a \in links
      <4>1. a \in Nat /\ a <= made.auths
        BY <1>3, <3>1 DEF Numbered, TypeOK
      <4> QED
        BY <1>3, <2>1, <4>1
    <3> QED
      BY <2>1, <3>1
  <2>5. made'.auths <= bound.auths
    BY DEF Numbered
  <2> QED
    BY <2>3, <2>4, <2>5 DEF AuthorityNumbers
<1>8. n # 0 => /\ auth'[n].kind = k /\ auth'[n].c = c /\ auth'[n].life = l
  BY <1>2, NewAuthType
<1>13. \A d \in Client :
         /\ hot[d] # 0 => auth[hot[d]].kind = "nm" /\ auth[hot[d]].c = d
         /\ cap[d] # 0 => auth[cap[d]].kind = "transport" /\ auth[cap[d]].c = d
  BY DEF Authority
<1>14. \A a \in Auth : a # n => auth'[a].kind = auth[a].kind /\ auth'[a].c = auth[a].c
  BY <1>4
<1>9. \A d \in Client :
        /\ session'[d] # "none" => entry' # 0
        /\ hot'[d] # 0 => auth'[hot'[d]].kind = "nm" /\ auth'[hot'[d]].c = d
        /\ cap'[d] # 0 => auth'[cap'[d]].kind = "transport" /\ auth'[cap'[d]].c = d
  <2> TAKE d \in Client
  <2>1. CASE d = c
    <3>1. hot'[c] # 0 => n # 0 /\ k = "nm" /\ hot'[c] = n
      OBVIOUS
    <3>2. CASE k = "transport"
      BY <1>8, <2>1, <3>1, <3>2
    <3>3. CASE k = "nm" /\ cap'[c] = cap[c] /\ cap[c] # 0
      <4>1. cap[c] \in Auth /\ cap[c] # n
        BY <1>3, <3>3 DEF Numbered, TypeOK
      <4> QED
        <5>1. auth'[cap[c]].kind = auth[cap[c]].kind /\ auth'[cap[c]].c = auth[cap[c]].c
          BY <1>14, <4>1
        <5>2. auth[cap[c]].kind = "transport" /\ auth[cap[c]].c = c
          BY <1>13, <3>3
        <5>3. hot'[c] # 0 => auth'[hot'[c]].kind = "nm" /\ auth'[hot'[c]].c = c
          BY <1>8, <3>1
        <5> QED
          BY <2>1, <3>3, <5>1, <5>2, <5>3
    <3>4. CASE cap'[c] = 0
      BY <1>8, <2>1, <3>1, <3>4
    <3> QED
      BY <3>2, <3>3, <3>4
  <2>2. CASE d # c
    <3>1. session'[d] = session[d] /\ hot'[d] = hot[d] /\ cap'[d] = cap[d]
      BY <2>2
    <3>2. /\ hot[d] # 0 => hot[d] \in Auth /\ hot[d] # n
          /\ cap[d] # 0 => cap[d] \in Auth /\ cap[d] # n
      BY <1>3 DEF Numbered, TypeOK
    <3>3. session[d] # "none" => entry' # 0
      BY DEF Authority
    <3>4. /\ hot[d] # 0 => auth'[hot[d]].kind = "nm" /\ auth'[hot[d]].c = d
          /\ cap[d] # 0 => auth'[cap[d]].kind = "transport" /\ auth'[cap[d]].c = d
      <4>1. /\ hot[d] # 0 => auth'[hot[d]].kind = auth[hot[d]].kind /\ auth'[hot[d]].c = auth[hot[d]].c
            /\ cap[d] # 0 => auth'[cap[d]].kind = auth[cap[d]].kind /\ auth'[cap[d]].c = auth[cap[d]].c
        BY <1>14, <3>2
      <4>2. /\ hot[d] # 0 => auth[hot[d]].kind = "nm" /\ auth[hot[d]].c = d
            /\ cap[d] # 0 => auth[cap[d]].kind = "transport" /\ auth[cap[d]].c = d
        BY <1>13
      <4> QED
        BY <4>1, <4>2
    <3> QED
      BY <3>1, <3>3, <3>4
  <2> QED
    BY <2>1, <2>2
<1>10. \A a \in links' : auth'[a].kind = "transport"
  <2> TAKE a \in links'
  <2>1. CASE a = n /\ n # 0 /\ k = "transport"
    BY <1>8, <2>1
  <2>2. CASE a \in links
    <3>1. a \in Auth /\ a <= made.auths /\ auth[a].kind = "transport"
      BY <2>2 DEF Authority, Numbered, TypeOK
    <3> QED
      BY <1>3, <1>4, <3>1
  <2> QED
    BY <2>1, <2>2
<1>11. ASSUME NEW a \in Auth
       PROVE  /\ auth'[a].kind = "nm" => auth'[a].life # 0
              /\ auth'[a].kind # "none" => auth'[a].c \in Client
              /\ auth'[a].valid => auth'[a].kind # "none" /\ Authorised(a)'
  <2>1. CASE a = n
    <3>1. /\ n # 0 /\ auth'[a].kind = k /\ auth'[a].c = c /\ auth'[a].life = l
      BY <1>3, <1>8, <2>1
    <3>2. Authorised(a)'
      BY <2>1, <3>1 DEF Authorised
    <3> QED
      BY <2>1, <3>1, <3>2
  <2>2. CASE a # n
    <3>1. /\ auth'[a].kind = auth[a].kind /\ auth'[a].c = auth[a].c /\ auth'[a].life = auth[a].life
          /\ auth'[a].valid => auth[a].valid /\ auth[a].c # c /\ entry' = entry
      BY <1>4, <1>5, <2>2
    <3>2. auth'[a].valid => Authorised(a)'
      <4> HAVE auth'[a].valid
      <4>1. auth[a].valid /\ auth[a].c # c /\ entry' = entry /\ Authorised(a) /\ auth[a].c \in Client
        BY <3>1 DEF Authority
      <4>2. /\ session'[auth[a].c] = session[auth[a].c] /\ hot'[auth[a].c] = hot[auth[a].c]
            /\ cap'[auth[a].c] = cap[auth[a].c]
        BY <4>1
      <4> QED
        BY <3>1, <4>1, <4>2 DEF Authorised
    <3> QED
      BY <3>1, <3>2 DEF Authority
  <2> QED
    BY <2>1, <2>2
<1>12. Authority'
  BY <1>9, <1>10, <1>11 DEF Authority
<1> QED
  BY <1>6, <1>7, <1>12

MadeGrows ==
  /\ made' \in [Bounded -> Nat] /\ bound' = bound
  /\ made'.lives <= bound.lives /\ made'.auths <= bound.auths /\ made'.cmds <= bound.cmds
  /\ made.lives <= made'.lives /\ made.auths <= made'.auths /\ made.cmds <= made'.cmds

AuthorityGoesOn ==
  AuthorityTypes' /\ Authority' /\ AuthorityMoves /\ AuthorityNumbers' /\ MadeGrows

\* Another count goes up.
LEMMA MadeOther ==
  ASSUME TypeOK, Numbered, UNCHANGED bound, NEW b \in Bounded \ {"lives", "auths"},
         b = "cmds" => made.cmds < bound.cmds,
         made' = [made EXCEPT ![b] = @ + 1] \/ made' = made
  PROVE  MadeGrows /\ made'.lives = made.lives /\ made'.auths = made.auths
<1>1. made \in [Bounded -> Nat] /\ made.lives <= bound.lives /\ made.auths <= bound.auths
      /\ made.cmds <= bound.cmds
  BY DEF TypeOK, Numbered
<1>2. bound.lives \in Nat /\ bound.auths \in Nat /\ bound.cmds \in Nat
  BY Numbers, LimitAssumption
<1> QED
  BY <1>1, <1>2 DEF MadeGrows, Bounded

LEMMA AuthorityStays ==
  ASSUME TypeOK, Numbered, Authority, UNCHANGED authority, MadeGrows,
         made'.lives = made.lives, made'.auths = made.auths
  PROVE  AuthorityGoesOn
<1>1. UNCHANGED <<session, entry, auth, hot, cap, links>>
  BY DEF authority
<1>2. AuthorityTypes' /\ AuthorityNumbers' /\ AuthorityMoves
  BY <1>1 DEF TypeOK, AuthorityTypes, AuthType, Numbered, AuthorityNumbers, AuthorityMoves, MadeGrows
<1>3. Authority'
  BY <1>1 DEF Authority, Authorised
<1> QED
  BY <1>2, <1>3 DEF AuthorityGoesOn

LEMMA RefreshMade ==
  ASSUME TypeOK, Numbered, NEW c \in Client, NEW x, NEW sw \in {0, 1}, Refresh(c, x, sw), UNCHANGED bound,
         entry' \in Nat, entry' <= bound.lives
  PROVE  MadeGrows /\ entry' <= made'.lives
<1>1. made \in [Bounded -> Nat] /\ made.lives <= bound.lives /\ made.auths <= bound.auths
      /\ made.cmds <= bound.cmds
  BY DEF TypeOK, Numbered
<1>2. bound.lives \in Nat /\ bound.auths \in Nat /\ bound.cmds \in Nat
  BY Numbers, LimitAssumption
<1> DEFINE binds == session'[c] = "nm" /\ entry' # 0 /\ client[c].task # "left"
           as == IF binds THEN made.auths + 1 ELSE made.auths
           ls == IF entry' > made.lives THEN entry' ELSE made.lives
<1>3. /\ as \in Nat /\ as <= bound.auths /\ made.auths <= as
      /\ ls \in Nat /\ ls <= bound.lives /\ made.lives <= ls /\ entry' <= ls
  <2>1. binds => made.auths + 1 <= bound.auths
    BY DEF Refresh
  <2>2. made.auths \in Nat /\ made.lives \in Nat
    BY Numbers
  <2> HIDE DEF binds
  <2> QED
    BY <1>1, <1>2, <2>1, <2>2
<1>4. made' = [made EXCEPT !.auths = as, !.lives = ls, !.switches = @ + sw]
  BY DEF Refresh
<1>5. PICK A \in Nat, L \in Nat :
        /\ A <= bound.auths /\ made.auths <= A
        /\ L <= bound.lives /\ made.lives <= L /\ entry' <= L
        /\ made' = [[[made EXCEPT !.auths = A] EXCEPT !.lives = L] EXCEPT !.switches = @ + sw]
  <2> HIDE DEF as, ls
  <2>1. made' = [[[made EXCEPT !.auths = as] EXCEPT !.lives = ls] EXCEPT !.switches = @ + sw]
    BY <1>4
  <2> QED
    BY <1>3, <2>1
<1> HIDE DEF as, ls
<1>6. [made EXCEPT !.auths = A] \in [Bounded -> Nat]
  BY <1>1
<1>7. [[made EXCEPT !.auths = A] EXCEPT !.lives = L] \in [Bounded -> Nat]
  BY <1>6
<1>8. made' \in [Bounded -> Nat]
  <2> DEFINE m == [[made EXCEPT !.auths = A] EXCEPT !.lives = L]
  <2>1. m \in [Bounded -> Nat]
    BY <1>7
  <2> HIDE DEF m
  <2>2. m.switches + sw \in Nat
    BY <2>1 DEF Bounded
  <2>3. made' = [m EXCEPT !.switches = @ + sw]
    BY <1>5 DEF m
  <2> QED
    BY <2>1, <2>2, <2>3
<1>9. made'.cmds = made.cmds /\ made'.auths = A /\ made'.lives = L
  BY <1>1, <1>5 DEF Bounded
<1>10. made.cmds \in Nat
  BY <1>1 DEF Bounded
<1> QED
  BY <1>1, <1>2, <1>5, <1>8, <1>9, <1>10 DEF MadeGrows

\* refresh_nm_hot_locked for a client whose other authority is x.
LEMMA RefreshStep ==
  ASSUME TypeOK, Numbered, Authority, NEW c \in Client, NEW x \in Auth \cup {0}, NEW sw \in {0, 1},
         Refresh(c, x, sw), UNCHANGED bound,
         session' \in [Client -> {"none", "nm", "transport"}], entry' \in Life \cup {0},
         cap' \in [Client -> Auth \cup {0}], links' \subseteq links,
         \A d \in Client \ {c} : session'[d] = session[d] /\ cap'[d] = cap[d],
         cap'[c] \in {0, cap[c]},
         \A a \in Auth : auth[a].valid /\ auth[a].c = c => a \in {hot[c], x},
         x # 0 => auth[x].c = c,
         entry = 0 \/ entry' = entry, entry' <= bound.lives, session'[c] # "none" => entry' # 0
  PROVE  AuthorityGoesOn
<1> DEFINE binds == session'[c] = "nm" /\ entry' # 0 /\ client[c].task # "left"
           n == IF binds THEN made.auths + 1 ELSE 0
<1>1. made.auths \in Nat /\ bound.auths \in 0..MaxAuths /\ entry' \in Nat
  BY Numbers DEF Life
<1>2. /\ MadeGrows /\ entry' <= made'.lives
  BY <1>1, RefreshMade
<1>3. /\ binds => made.auths + 1 <= bound.auths
      /\ auth' = IF binds THEN [Revoked({hot[c], x}) EXCEPT ![made.auths + 1] = NewAuth("nm", c, entry')]
                 ELSE Revoked({hot[c], x})
      /\ hot' = [hot EXCEPT ![c] = IF binds THEN made.auths + 1 ELSE 0]
      /\ made' = [made EXCEPT !.auths = IF binds THEN made.auths + 1 ELSE @,
                              !.lives = IF entry' > @ THEN entry' ELSE @,
                              !.switches = @ + sw]
  BY DEF Refresh
<1> HIDE DEF binds
<1>4. n \in Auth \cup {0} /\ (n # 0 => n = made.auths + 1 /\ n <= bound.auths) /\ (n # 0 <=> binds)
  BY <1>1, <1>3, LimitAssumption DEF Auth
<1>5. auth' = IF n = 0 THEN Revoked({hot[c], x}) ELSE [Revoked({hot[c], x}) EXCEPT ![n] = NewAuth("nm", c, entry')]
  BY <1>3, <1>4
<1>6. hot' = [hot EXCEPT ![c] = n] /\ made'.auths = (IF n = 0 THEN made.auths ELSE n)
  BY <1>3, <1>4 DEF TypeOK, Bounded
<1> HIDE DEF n
<1>7. AuthorityTypes'
  <2>1. NewAuth("nm", c, entry') \in AuthType
    BY NewAuthType
  <2>2. auth' \in [Auth -> AuthType]
    BY <1>4, <1>5, <2>1, Revoking
  <2>3. hot' \in [Client -> Auth \cup {0}]
    BY <1>4, <1>6 DEF TypeOK
  <2> QED
    BY <2>2, <2>3 DEF AuthorityTypes, TypeOK
<1>8. hot'[c] = n /\ \A d \in Client \ {c} : hot'[d] = hot[d]
  BY <1>6 DEF TypeOK
<1>9. n # 0 => entry' # 0 /\ session'[c] = "nm"
  BY <1>4 DEF binds
<1>10. n # 0 => cap'[c] # n
  <2>1. cap[c] <= made.auths /\ cap[c] \in Nat
    BY DEF TypeOK, Numbered, Auth
  <2> QED
    BY <1>1, <1>4, <2>1
<1>11. made'.lives >= made.lives
  BY <1>2 DEF MadeGrows
<1>12. Authority' /\ AuthorityMoves /\ AuthorityNumbers'
  <2>1. GetsAuthority(c, x, n, "nm", entry')
    <3>1. n # 0 => n = made.auths + 1 /\ n <= bound.auths /\ entry' # 0 /\ session'[c] = "nm"
      BY <1>4, <1>9
    <3>2. \A d \in Client \ {c} : session'[d] = session[d] /\ hot'[d] = hot[d] /\ cap'[d] = cap[d]
      BY <1>8
    <3>3. "nm" # "transport"
      OBVIOUS
    <3> QED
      BY <1>2, <1>5, <1>6, <1>8, <1>11, <3>1, <3>2, <3>3 DEF GetsAuthority
  <2> QED
    BY <1>4, <1>7, <2>1, Replaced
<1> QED
  BY <1>2, <1>7, <1>12 DEF AuthorityGoesOn

\* Every valid authority is one of these.
LEMMA ValidOnes ==
  ASSUME Authority, NEW a \in Auth, auth[a].valid
  PROVE  /\ auth[a].c \in Client /\ entry # 0
         /\ \/ a = hot[auth[a].c] /\ session[auth[a].c] = "nm"
            \/ a = cap[auth[a].c] /\ session[auth[a].c] = "transport"
BY DEF Authority, Authorised

\* No authority is valid any more, no client has one.
LEMMA KindsStay ==
  ASSUME TypeOK, Authority,
         \A a \in Auth : auth'[a].kind = auth[a].kind /\ auth'[a].c = auth[a].c /\ auth'[a].life = auth[a].life
  PROVE  /\ \A c \in Client :
              /\ hot[c] # 0 => auth'[hot[c]].kind = "nm" /\ auth'[hot[c]].c = c
              /\ cap[c] # 0 => auth'[cap[c]].kind = "transport" /\ auth'[cap[c]].c = c
         /\ \A a \in links : auth'[a].kind = "transport"
         /\ \A a \in Auth : /\ auth'[a].kind = "nm" => auth'[a].life # 0
                            /\ auth'[a].kind # "none" => auth'[a].c \in Client
<1>1. \A c \in Client : hot[c] \in Auth \cup {0} /\ cap[c] \in Auth \cup {0}
  BY DEF TypeOK
<1>2. \A c \in Client : /\ hot[c] # 0 => auth[hot[c]].kind = "nm" /\ auth[hot[c]].c = c
                        /\ cap[c] # 0 => auth[cap[c]].kind = "transport" /\ auth[cap[c]].c = c
  BY DEF Authority
<1>3. \A a \in links : a \in Auth /\ auth[a].kind = "transport"
  BY DEF Authority, TypeOK
<1>4. \A a \in Auth : /\ auth[a].kind = "nm" => auth[a].life # 0
                      /\ auth[a].kind # "none" => auth[a].c \in Client
  BY DEF Authority
<1>5. ASSUME NEW c \in Client
      PROVE  /\ hot[c] # 0 => auth'[hot[c]].kind = "nm" /\ auth'[hot[c]].c = c
             /\ cap[c] # 0 => auth'[cap[c]].kind = "transport" /\ auth'[cap[c]].c = c
  <2>1. hot[c] # 0 => auth'[hot[c]].kind = auth[hot[c]].kind /\ auth'[hot[c]].c = auth[hot[c]].c
    BY <1>1
  <2>2. cap[c] # 0 => auth'[cap[c]].kind = auth[cap[c]].kind /\ auth'[cap[c]].c = auth[cap[c]].c
    BY <1>1
  <2>3. hot[c] # 0 => auth[hot[c]].kind = "nm" /\ auth[hot[c]].c = c
    BY <1>2
  <2>4. cap[c] # 0 => auth[cap[c]].kind = "transport" /\ auth[cap[c]].c = c
    BY <1>2
  <2>5. hot[c] # 0 => auth'[hot[c]].kind = "nm" /\ auth'[hot[c]].c = c
    BY <2>1, <2>3
  <2>6. cap[c] # 0 => auth'[cap[c]].kind = "transport" /\ auth'[cap[c]].c = c
    BY <2>2, <2>4
  <2> QED
    BY <2>5, <2>6
<1>6. \A a \in links : auth'[a].kind = "transport"
  BY <1>3
<1>7. \A a \in Auth : /\ auth'[a].kind = "nm" => auth'[a].life # 0
                      /\ auth'[a].kind # "none" => auth'[a].c \in Client
  BY <1>4
<1> QED
  BY <1>5, <1>6, <1>7

LEMMA AllRevoked ==
  ASSUME TypeOK, Numbered, Authority, NEW as, auth' = Revoked(as), entry' = 0, UNCHANGED <<links, made, bound>>,
         hot' = [c \in Client |-> 0], session' = [c \in Client |-> "none"],
         cap' \in [Client -> Auth \cup {0}], \A c \in Client : cap'[c] \in {0, cap[c]},
         \A a \in Auth : auth[a].valid => a \in as
  PROVE  AuthorityGoesOn
<1>1. /\ auth' \in [Auth -> AuthType]
      /\ \A a \in Auth : auth'[a].kind = auth[a].kind /\ auth'[a].c = auth[a].c /\ auth'[a].life = auth[a].life
  BY Revoking
<1>2. AuthorityTypes'
  BY <1>1 DEF TypeOK, AuthorityTypes
<1>7. \A a \in Auth : ~auth'[a].valid
  BY Revoking
<1>3. Authority'
  <2>1. \A c \in Client : session'[c] = "none" /\ hot'[c] = 0 /\ (cap'[c] = 0 \/ cap'[c] = cap[c])
    OBVIOUS
  <2>2. \A a \in links' : auth'[a].kind = "transport"
    BY <1>1, KindsStay
  <2>3. \A c \in Client :
          /\ session'[c] # "none" => entry' # 0
          /\ hot'[c] # 0 => auth'[hot'[c]].kind = "nm" /\ auth'[hot'[c]].c = c
          /\ cap'[c] # 0 => auth'[cap'[c]].kind = "transport" /\ auth'[cap'[c]].c = c
    <3> TAKE c \in Client
    <3>1. cap[c] # 0 => auth'[cap[c]].kind = "transport" /\ auth'[cap[c]].c = c
      BY <1>1, KindsStay
    <3> QED
      BY <2>1, <3>1
  <2>4. \A a \in Auth : /\ auth'[a].kind = "nm" => auth'[a].life # 0
                        /\ auth'[a].kind # "none" => auth'[a].c \in Client
    BY <1>1, KindsStay
  <2> QED
    BY <1>7, <2>2, <2>3, <2>4 DEF Authority
<1>4. made.auths \in Nat /\ made.lives \in Nat /\ made.cmds \in Nat
  BY Numbers
<1>5. AuthorityMoves
  <2>1. made.auths <= made'.auths
    BY <1>4
  <2> QED
    BY <1>1, <1>7, <2>1 DEF AuthorityMoves
<1>6. AuthorityNumbers'
  <2>1. \A c \in Client : hot'[c] <= made'.auths /\ cap'[c] <= made'.auths
    BY <1>4 DEF Numbered
  <2> QED
    BY <1>4, <2>1 DEF AuthorityNumbers, Numbered
<1>8. MadeGrows
  BY <1>4 DEF MadeGrows, Numbered, TypeOK
<1> QED
  BY <1>2, <1>3, <1>5, <1>6, <1>8 DEF AuthorityGoesOn

LEMMA DetachAllStep ==
  ASSUME TypeOK, Numbered, Authority, NEW v, DetachAll(v), UNCHANGED <<links, made, bound>>
  PROVE  AuthorityGoesOn
<1>1. \A a \in Auth : auth[a].valid => a \in {hot[c] : c \in Client} \cup {cap[c] : c \in Client}
  BY ValidOnes
<1> QED
  BY <1>1, AllRevoked DEF DetachAll, TypeOK

LEMMA OpenStep ==
  ASSUME TypeOK, Numbered, Authority, NEW c \in Client, Open(c)
  PROVE  AuthorityGoesOn
<1>1. Numbered /\ made.lives \in Nat /\ bound.lives \in 0..MaxLives /\ MaxLives \in Nat
  BY Numbers, LimitAssumption
<1>2. entry' \in Life \cup {0} /\ entry' <= bound.lives /\ (entry = 0 \/ entry' = entry) /\ entry' # 0
  <2>1. CASE entry # 0 /\ UNCHANGED <<entry, lives>>
    BY <1>1, <2>1 DEF Numbered, TypeOK, Life
  <2>2. CASE entry = 0 /\ made.lives < bound.lives /\ entry' = made.lives + 1
    BY <1>1, <2>2 DEF Life
  <2> QED
    BY <2>1, <2>2 DEF Open
<1>3. /\ session[c] = "none" /\ session' = [session EXCEPT ![c] = "nm"] /\ Refresh(c, 0, 0)
      /\ UNCHANGED <<cap, links, bound>>
  BY DEF Open
<1>4. session' \in [Client -> {"none", "nm", "transport"}] /\ cap' \in [Client -> Auth \cup {0}]
  BY <1>3 DEF TypeOK
<1>5. \A d \in Client \ {c} : session'[d] = session[d] /\ cap'[d] = cap[d]
  BY <1>3 DEF TypeOK
<1>6. \A a \in Auth : auth[a].valid /\ auth[a].c = c => a \in {hot[c], 0}
  BY <1>3, ValidOnes
<1>7. cap'[c] \in {0, cap[c]} /\ links' \subseteq links /\ 0 \in Auth \cup {0} /\ 0 \in {0, 1}
  BY <1>3
<1> QED
  BY <1>2, <1>3, <1>4, <1>5, <1>6, <1>7, RefreshStep

LEMMA SwitchStep ==
  ASSUME TypeOK, Numbered, Authority, NEW c \in Client, SetDataplaneMode(c)
  PROVE  AuthorityGoesOn
<1>1. /\ session[c] # "none" /\ Refresh(c, cap[c], 1) /\ UNCHANGED <<entry, links, bound>>
      /\ cap' = [cap EXCEPT ![c] = 0]
  BY DEF SetDataplaneMode
<1>2. PICK m \in {"nm", "transport"} : session' = [session EXCEPT ![c] = m]
  BY DEF SetDataplaneMode
<1>3. entry' \in Life \cup {0} /\ entry' <= bound.lives /\ entry' = entry /\ entry' # 0
  <2>1. entry \in Life \cup {0} /\ entry <= made.lives /\ made.lives <= bound.lives /\ entry # 0
    BY <1>1 DEF TypeOK, Numbered, Authority
  <2>2. made.lives \in Nat /\ bound.lives \in 0..MaxLives /\ MaxLives \in Nat
    BY Numbers, LimitAssumption
  <2> QED
    BY <1>1, <2>1, <2>2 DEF Life
<1>4. session' \in [Client -> {"none", "nm", "transport"}] /\ cap' \in [Client -> Auth \cup {0}]
  BY <1>1, <1>2 DEF TypeOK
<1>5. \A d \in Client \ {c} : session'[d] = session[d] /\ cap'[d] = cap[d]
  BY <1>1, <1>2 DEF TypeOK
<1>6. \A a \in Auth : auth[a].valid /\ auth[a].c = c => a \in {hot[c], cap[c]}
  BY ValidOnes
<1>7. cap'[c] \in {0, cap[c]} /\ links' \subseteq links /\ cap[c] \in Auth \cup {0} /\ 1 \in {0, 1}
      /\ (cap[c] # 0 => auth[cap[c]].c = c)
  BY <1>1 DEF TypeOK, Authority
<1> QED
  BY <1>1, <1>3, <1>4, <1>5, <1>6, <1>7, RefreshStep

LEMMA ConnectStep ==
  ASSUME TypeOK, Numbered, Authority, NEW c \in Client, TransportConnect(c)
  PROVE  AuthorityGoesOn
<1> DEFINE n == made.auths + 1
<1>1. /\ session[c] # "none" /\ made.auths < bound.auths
      /\ session' = [session EXCEPT ![c] = "transport"]
      /\ auth' = [Revoked({hot[c], cap[c]}) EXCEPT ![n] = NewAuth("transport", c, 0)]
      /\ hot' = [hot EXCEPT ![c] = 0] /\ cap' = [cap EXCEPT ![c] = n]
      /\ links' = links \cup {n} /\ UNCHANGED <<entry, bound>>
      /\ made' = [made EXCEPT !.auths = @ + 1, !.connects = @ + 1]
  BY DEF TransportConnect
<1>2. made.auths \in Nat /\ bound.auths \in 0..MaxAuths /\ MaxAuths \in Nat
  BY Numbers, LimitAssumption
<1>3. n \in Auth /\ n # 0 /\ n <= bound.auths
  BY <1>1, <1>2 DEF Auth
<1>4. AuthorityTypes'
  <2>1. NewAuth("transport", c, 0) \in AuthType
    BY NewAuthType
  <2>2. auth' \in [Auth -> AuthType]
    BY <1>1, <1>3, <2>1, Revoking
  <2> HIDE DEF n
  <2> QED
    BY <1>1, <1>3, <2>2 DEF AuthorityTypes, TypeOK
<1>5. /\ made' \in [Bounded -> Nat] /\ made'.auths = n /\ made'.lives = made.lives /\ made'.cmds = made.cmds
  <2>1. made \in [Bounded -> Nat]
    BY DEF TypeOK
  <2> DEFINE m == [made EXCEPT !.auths = n]
  <2>2. m \in [Bounded -> Nat] /\ m.auths = n /\ m.lives = made.lives /\ m.cmds = made.cmds
    BY <1>2, <2>1 DEF Bounded
  <2>3. made' = [m EXCEPT !.connects = @ + 1]
    BY <1>1, <2>1 DEF Bounded
  <2> HIDE DEF m
  <2>4. m.connects \in Nat
    BY <2>2 DEF Bounded
  <2> QED
    BY <2>2, <2>3, <2>4 DEF Bounded
<1>6. MadeGrows
  <2>1. made.auths \in Nat /\ made.lives \in Nat /\ made.cmds \in Nat
    BY Numbers
  <2> QED
    BY <1>1, <1>3, <1>5, <2>1 DEF MadeGrows, Numbered
<1>7. GetsAuthority(c, cap[c], n, "transport", 0)
  <2>1. \A a \in Auth : auth[a].valid /\ auth[a].c = c => a \in {hot[c], cap[c]}
    BY ValidOnes
  <2>2. cap[c] # 0 => auth[cap[c]].c = c
    BY DEF Authority
  <2>3. /\ session'[c] = "transport" /\ hot'[c] = 0 /\ cap'[c] = n
        /\ \A d \in Client \ {c} : session'[d] = session[d] /\ hot'[d] = hot[d] /\ cap'[d] = cap[d]
    BY <1>1 DEF TypeOK
  <2>4. entry # 0 /\ entry' = entry /\ entry' <= made'.lives
    BY <1>1, <1>5 DEF Authority, Numbered
  <2>5. made'.lives >= made.lives
    BY <1>5, Numbers
  <2>6. \A a \in links' : a \in links \/ a = n
    BY <1>1
  <2> HIDE DEF n
  <2>7. n = made.auths + 1
    BY DEF n
  <2>8. "transport" # "nm"
    OBVIOUS
  <2> QED
    BY <1>1, <1>3, <1>5, <2>1, <2>2, <2>3, <2>4, <2>5, <2>6, <2>7, <2>8 DEF GetsAuthority
<1>8. Authority' /\ AuthorityMoves /\ AuthorityNumbers'
  <2>1. cap[c] \in Auth \cup {0} /\ bound' = bound
    BY <1>1 DEF TypeOK
  <2> HIDE DEF n
  <2> QED
    BY <1>3, <1>4, <1>7, <2>1, Replaced
<1> QED
  BY <1>4, <1>6, <1>8 DEF AuthorityGoesOn

LEMMA CloseStep ==
  ASSUME TypeOK, Numbered, Authority, NEW c \in Client, Close(c)
  PROVE  AuthorityGoesOn
<1>1. /\ session[c] # "none" /\ session' = [session EXCEPT ![c] = "none"]
      /\ cap' = [cap EXCEPT ![c] = 0] /\ UNCHANGED <<links, bound>>
  BY DEF Close
<1>2. CASE UNCHANGED entry /\ Refresh(c, cap[c], 0)
  <2>1. entry' \in Life \cup {0} /\ entry' <= bound.lives /\ entry' = entry
    <3>1. entry \in Life \cup {0} /\ entry <= made.lives /\ made.lives <= bound.lives
      BY DEF TypeOK, Numbered
    <3>2. made.lives \in Nat /\ bound.lives \in 0..MaxLives /\ MaxLives \in Nat
      BY Numbers, LimitAssumption
    <3> QED
      BY <1>2, <3>1, <3>2 DEF Life
  <2>2. session' \in [Client -> {"none", "nm", "transport"}] /\ cap' \in [Client -> Auth \cup {0}]
    BY <1>1 DEF TypeOK
  <2>3. \A d \in Client \ {c} : session'[d] = session[d] /\ cap'[d] = cap[d]
    BY <1>1 DEF TypeOK
  <2>4. \A a \in Auth : auth[a].valid /\ auth[a].c = c => a \in {hot[c], cap[c]}
    BY ValidOnes
  <2>5. cap'[c] \in {0, cap[c]} /\ links' \subseteq links /\ cap[c] \in Auth \cup {0} /\ 0 \in {0, 1}
        /\ (cap[c] # 0 => auth[cap[c]].c = c) /\ session'[c] = "none"
    BY <1>1 DEF TypeOK, Authority
  <2> QED
    BY <1>1, <1>2, <2>1, <2>2, <2>3, <2>4, <2>5, RefreshStep
<1>3. CASE (\A d \in Client \ {c} : session[d] = "none") /\ Detach(c, {cap[c]}) /\ UNCHANGED made
  <2>1. session' = [d \in Client |-> "none"]
    <3>1. session \in [Client -> {"none", "nm", "transport"}]
      BY DEF TypeOK
    <3>2. session' = [d \in Client |-> IF d = c THEN "none" ELSE session[d]]
      BY <1>1, <3>1
    <3>3. \A d \in Client : (IF d = c THEN "none" ELSE session[d]) = "none"
      BY <1>3
    <3> QED
      BY <3>2, <3>3
  <2>2. \A a \in Auth : auth[a].valid => a \in {cap[c]} \cup {hot[d] : d \in Client}
    BY <1>3, ValidOnes
  <2>4. auth' = Revoked({cap[c]} \cup {hot[d] : d \in Client}) /\ entry' = 0 /\ hot' = [d \in Client |-> 0]
    BY <1>3 DEF Detach
  <2>5. cap' \in [Client -> Auth \cup {0}] /\ \A d \in Client : cap'[d] \in {0, cap[d]}
    BY <1>1 DEF TypeOK
  <2> QED
    BY <1>1, <1>3, <2>1, <2>2, <2>4, <2>5, AllRevoked
<1> QED
  BY <1>2, <1>3 DEF Close

LEMMA ConnectionEndsStep ==
  ASSUME TypeOK, Numbered, Authority, NEW a \in Auth, ConnectionEnds(a)
  PROVE  AuthorityGoesOn
<1> DEFINE c == auth[a].c
           current == session[c] = "transport" /\ cap[c] = a
<1>1. /\ a \in links /\ links' = links \ {a} /\ UNCHANGED <<entry, bound>>
      /\ session' = IF current THEN [session EXCEPT ![c] = "nm"] ELSE session
      /\ cap' = IF current THEN [cap EXCEPT ![c] = 0] ELSE cap
      /\ IF current THEN Refresh(c, a, 0) ELSE UNCHANGED <<auth, hot, made>>
  BY DEF ConnectionEnds
<1>2. c \in Client
  BY <1>1 DEF Authority
<1> HIDE DEF c
<1>3. CASE current
  <2>1. entry' \in Life \cup {0} /\ entry' <= bound.lives /\ entry' = entry /\ entry' # 0
    <3>1. entry \in Life \cup {0} /\ entry <= made.lives /\ made.lives <= bound.lives /\ entry # 0
      BY <1>2, <1>3 DEF TypeOK, Numbered, Authority
    <3>2. made.lives \in Nat /\ bound.lives \in 0..MaxLives /\ MaxLives \in Nat
      BY Numbers, LimitAssumption
    <3> QED
      BY <1>1, <3>1, <3>2 DEF Life
  <2>2. session' \in [Client -> {"none", "nm", "transport"}] /\ cap' \in [Client -> Auth \cup {0}]
    BY <1>1, <1>2, <1>3 DEF TypeOK
  <2>3. \A d \in Client \ {c} : session'[d] = session[d] /\ cap'[d] = cap[d]
    BY <1>1, <1>2, <1>3 DEF TypeOK
  <2>4. \A b \in Auth : auth[b].valid /\ auth[b].c = c => b \in {hot[c], a}
    BY <1>3, ValidOnes
  <2>5. cap'[c] \in {0, cap[c]} /\ links' \subseteq links /\ a \in Auth \cup {0} /\ 0 \in {0, 1}
        /\ (a # 0 => auth[a].c = c)
    BY <1>1, <1>2, <1>3 DEF TypeOK, c
  <2> QED
    BY <1>1, <1>2, <1>3, <2>1, <2>2, <2>3, <2>4, <2>5, RefreshStep
<1>4. CASE ~current
  <2>1. UNCHANGED <<session, entry, auth, hot, cap, made, bound>> /\ links' \subseteq links
    BY <1>1, <1>4
  <2>2. made.auths \in Nat /\ made.lives \in Nat /\ made.cmds \in Nat
    BY Numbers
  <2>3. AuthorityTypes' /\ AuthorityNumbers' /\ AuthorityMoves /\ MadeGrows
    BY <2>1, <2>2 DEF TypeOK, AuthorityTypes, AuthType, Numbered, AuthorityNumbers, AuthorityMoves, MadeGrows
  <2>4. Authority'
    BY <2>1 DEF Authority, Authorised
  <2> QED
    BY <2>3, <2>4 DEF AuthorityGoesOn
<1> QED
  BY <1>3, <1>4

LEMMA LeaveStep ==
  ASSUME TypeOK, Numbered, Authority, NEW c \in Client, Leave(c)
  PROVE  AuthorityGoesOn
<1>1. /\ auth' = Revoked({hot[c]}) /\ hot' = [hot EXCEPT ![c] = 0]
      /\ UNCHANGED <<session, entry, cap, links, made, bound>>
  BY DEF Leave
<1>2. /\ auth' \in [Auth -> AuthType]
      /\ \A a \in Auth : /\ auth'[a].kind = auth[a].kind /\ auth'[a].c = auth[a].c
                         /\ auth'[a].life = auth[a].life
                         /\ auth'[a].valid => auth[a].valid /\ a # hot[c]
  BY <1>1, Revoking
<1>3. /\ hot' \in [Client -> Auth \cup {0}] /\ hot'[c] = 0
      /\ \A d \in Client : d # c => hot'[d] = hot[d]
  BY <1>1 DEF TypeOK
<1>4. made.auths \in Nat /\ made.lives \in Nat /\ made.cmds \in Nat
  BY Numbers
<1>5. AuthorityTypes'
  BY <1>1, <1>2, <1>3 DEF TypeOK, AuthorityTypes
<1>11. made.auths <= made'.auths
  BY <1>1, <1>4
<1>6. AuthorityMoves /\ MadeGrows
  <2>1. AuthorityMoves
    BY <1>1, <1>2, <1>11 DEF AuthorityMoves
  <2>2. MadeGrows
    BY <1>1, <1>4 DEF MadeGrows, TypeOK, Numbered
  <2> QED
    BY <2>1, <2>2
<1>7. AuthorityNumbers'
  BY <1>1, <1>3, <1>4 DEF AuthorityNumbers, Numbered
<1>8. \A a \in Auth : auth'[a].valid => Authorised(a)'
  <2> TAKE a \in Auth
  <2> HAVE auth'[a].valid
  <2>1. auth[a].valid /\ a # hot[c] /\ Authorised(a) /\ auth[a].c \in Client
    BY <1>2 DEF Authority
  <2> QED
    BY <1>1, <1>2, <1>3, <2>1, ZenonT(40) DEF Authorised
<1>9. \A a \in Auth : auth'[a].kind = auth[a].kind /\ auth'[a].c = auth[a].c /\ auth'[a].life = auth[a].life
  BY <1>2
<1>10. Authority'
  <2>1. \A d \in Client : /\ session'[d] = session[d] /\ cap'[d] = cap[d]
                          /\ hot'[d] = 0 \/ hot'[d] = hot[d]
    BY <1>1, <1>3
  <2>2. \A d \in Client : session[d] # "none" => entry # 0
    BY DEF Authority
  <2>3. \A a \in Auth : auth'[a].valid => auth'[a].kind # "none"
    BY <1>2 DEF Authority
  <2>4. \A a \in links' : auth'[a].kind = "transport"
    BY <1>1, <1>9, KindsStay
  <2>5. \A d \in Client :
          /\ session'[d] # "none" => entry' # 0
          /\ hot'[d] # 0 => auth'[hot'[d]].kind = "nm" /\ auth'[hot'[d]].c = d
          /\ cap'[d] # 0 => auth'[cap'[d]].kind = "transport" /\ auth'[cap'[d]].c = d
    <3> TAKE d \in Client
    <3>1. /\ hot[d] # 0 => auth'[hot[d]].kind = "nm" /\ auth'[hot[d]].c = d
          /\ cap[d] # 0 => auth'[cap[d]].kind = "transport" /\ auth'[cap[d]].c = d
      BY <1>9, KindsStay
    <3>2. entry' = entry
      BY <1>1
    <3> QED
      BY <2>1, <2>2, <3>1, <3>2
  <2>6. \A a \in Auth : /\ auth'[a].kind = "nm" => auth'[a].life # 0
                        /\ auth'[a].kind # "none" => auth'[a].c \in Client
    BY <1>9, KindsStay
  <2> QED
    BY <1>8, <2>3, <2>4, <2>5, <2>6 DEF Authority
<1> QED
  BY <1>5, <1>6, <1>7, <1>10 DEF AuthorityGoesOn

LEMMA AuthorityStep ==
  ASSUME TypeOK, Numbered, Authority, Next
  PROVE  AuthorityGoesOn
<1>1. CASE UNCHANGED <<authority, made, bound>>
  BY <1>1, AuthorityStays, MadeOther DEF Bounded
<1>2. ASSUME NEW c \in Client, AskNm(c) PROVE AuthorityGoesOn
  <2>1. UNCHANGED <<authority, bound>> /\ made.cmds < bound.cmds /\ made' = [made EXCEPT !["cmds"] = @ + 1]
    BY <1>2 DEF AskNm, NewCmd
  <2>2. "cmds" \in Bounded \ {"lives", "auths"}
    BY DEF Bounded
  <2>3. MadeGrows /\ made'.lives = made.lives /\ made'.auths = made.auths
    BY <2>1, <2>2, MadeOther
  <2> QED
    BY <2>1, <2>3, AuthorityStays
<1>3. ASSUME NEW a \in Auth, AskTransport(a) PROVE AuthorityGoesOn
  <2>1. UNCHANGED <<authority, bound>> /\ made.cmds < bound.cmds /\ made' = [made EXCEPT !["cmds"] = @ + 1]
    BY <1>3 DEF AskTransport, NewCmd
  <2>2. "cmds" \in Bounded \ {"lives", "auths"}
    BY DEF Bounded
  <2>3. MadeGrows /\ made'.lives = made.lives /\ made'.auths = made.auths
    BY <2>1, <2>2, MadeOther
  <2> QED
    BY <2>1, <2>3, AuthorityStays
<1>4. ASSUME NEW l \in Life, ReaderReads(l) PROVE AuthorityGoesOn
  <2>1. UNCHANGED <<authority, bound>> /\ made' = [made EXCEPT !["inputs"] = @ + 1]
    BY <1>4 DEF ReaderReads
  <2>2. "inputs" \in Bounded \ {"lives", "auths", "cmds"}
    BY DEF Bounded
  <2>3. MadeGrows /\ made'.lives = made.lives /\ made'.auths = made.auths
    BY <2>1, <2>2, MadeOther
  <2> QED
    BY <2>1, <2>3, AuthorityStays
<1>5. ASSUME NEW c \in Client, WriteFails(c) PROVE AuthorityGoesOn
  <2>1. UNCHANGED <<authority, bound>> /\ made' = [made EXCEPT !["failures"] = @ + 1]
    BY <1>5 DEF WriteFails, Make
  <2>2. "failures" \in Bounded \ {"lives", "auths", "cmds"}
    BY DEF Bounded
  <2>3. MadeGrows /\ made'.lives = made.lives /\ made'.auths = made.auths
    BY <2>1, <2>2, MadeOther
  <2> QED
    BY <2>1, <2>3, AuthorityStays
<1>6. ASSUME NEW l \in Life, ReaderFails(l) PROVE AuthorityGoesOn
  BY <1>1, <1>6, DetachAllStep DEF ReaderFails, authority
<1>7. CASE ForceClose
  BY <1>7, DetachAllStep DEF ForceClose
<1>8. \A c \in Client : Reply(c) \/ Writes(c) => UNCHANGED <<authority, made, bound>>
  BY DEF Reply, Writes
<1>9. \A k \in Cmd : LookUp(k) \/ Enqueue(k) \/ TransportReplies(k) => UNCHANGED <<authority, made, bound>>
  BY DEF LookUp, Enqueue, TransportReplies
<1>10. \A l \in Life :
         \/ Receive(l) \/ Reject(l) \/ Accept(l) \/ HidBegins(l) \/ HidReturns(l) \/ WorkerExits(l)
         \/ Signal(l) \/ RequestShutdown(l) \/ JoinThreads(l)
         \/ ReaderStops(l) \/ RouteChecks(l) \/ RouteSends(l)
         => UNCHANGED <<authority, made, bound>>
  BY DEF Receive, Reject, Accept, HidBegins, HidReturns, Answers, Proceeds, WorkerExits,
         Signal, RequestShutdown, JoinThreads,
         ReaderStops, RouteChecks, RouteSends
<1> QED
  BY <1>1, <1>2, <1>3, <1>4, <1>5, <1>6, <1>7, <1>8, <1>9, <1>10, OpenStep, ConnectStep, SwitchStep,
     CloseStep, ConnectionEndsStep, LeaveStep DEF Next

-----------------------------------------------------------------------------
(* Commands *)

\* What a step may do with a command there is.
CmdGoesOn(k) ==
  \/ cmds'[k] = cmds[k]
  \/ cmds'[k] = Over /\ cmds[k].st # "none"
  \/ /\ cmds'[k].auth = cmds[k].auth
     /\ cmds[k].st \notin {"none", "done"} /\ cmds'[k].st \notin {"none", "done"}
     /\ cmds'[k].st \in {"looked", "sent", "received", "accepted", "running"} =>
          \/ cmds[k].st \in {"looked", "sent", "received", "accepted", "running"} /\ cmds'[k].life = cmds[k].life
          \/ cmds'[k].life = entry /\ entry # 0 /\ entry' = entry
     /\ cmds[k].st # "checked" => cmds'[k].st # "checked" /\ cmds'[k].life = cmds[k].life

CommandNumbers ==
  \A k \in Cmd : cmds[k].auth <= made.auths /\ (k > made.cmds => cmds[k].st = "none")

LEMMA CommandsGoOn ==
  ASSUME TypeOK, Numbered, Commands, AuthorityGoesOn, cmds' \in [Cmd -> CmdType],
         \A k \in Cmd : CmdGoesOn(k)
  PROVE  Commands' /\ CommandNumbers'
<1>1. /\ made.auths \in Nat /\ made'.auths \in Nat /\ made.auths <= made'.auths
      /\ made.cmds \in Nat /\ made'.cmds \in Nat /\ made.cmds <= made'.cmds
  BY Numbers DEF AuthorityGoesOn, MadeGrows, Bounded
<1>2. ASSUME NEW a \in Auth, a <= made.auths
      PROVE  /\ auth'[a].kind = auth[a].kind /\ auth'[a].life = auth[a].life
             /\ auth'[a].valid => auth[a].valid /\ entry' = entry
  BY <1>2 DEF AuthorityGoesOn, AuthorityMoves
<1>3. ASSUME NEW k \in Cmd
      PROVE  /\ cmds[k].auth \in Auth \cup {0} /\ cmds[k].auth <= made.auths
             /\ cmds[k].auth = 0 <=> cmds[k].st \in {"none", "done"}
             /\ cmds[k].st \in {"looked", "sent", "received", "accepted", "running"} =>
                  cmds[k].life # 0 /\ (auth[cmds[k].auth].valid => cmds[k].life = entry)
             /\ k > made.cmds => cmds[k].st = "none"
  BY DEF Commands, Numbered, TypeOK
<1>4. Over.auth = 0 /\ Over.st = "done"
  BY DEF Over
<1>5. ASSUME NEW k \in Cmd
      PROVE  /\ cmds'[k].auth = 0 <=> cmds'[k].st \in {"none", "done"}
             /\ cmds'[k].auth \in {0, cmds[k].auth}
  BY <1>3, <1>4 DEF CmdGoesOn
<1>6. ASSUME NEW k \in Cmd, cmds'[k].st \in {"looked", "sent", "received", "accepted", "running"}
      PROVE  cmds'[k].life # 0 /\ (auth'[cmds'[k].auth].valid => cmds'[k].life = entry')
  <2>1. cmds'[k].auth # 0 /\ cmds'[k].auth = cmds[k].auth /\ cmds[k].auth \in Auth
    BY <1>3, <1>5, <1>6
  <2>2. auth'[cmds[k].auth].valid => auth[cmds[k].auth].valid /\ entry' = entry
    BY <1>2, <1>3, <2>1
  <2>3. \/ cmds[k].st \in {"looked", "sent", "received", "accepted", "running"} /\ cmds'[k].life = cmds[k].life
        \/ cmds'[k].life = entry /\ entry # 0 /\ entry' = entry
    BY <1>4, <1>6 DEF CmdGoesOn
  <2> QED
    BY <1>3, <2>1, <2>2, <2>3
<1>7. ASSUME NEW j \in Cmd, NEW k \in Cmd, cmds'[j].auth = cmds'[k].auth, cmds'[k].auth # 0,
             auth'[cmds'[k].auth].kind = "transport"
      PROVE  j = k
  <2>1. cmds'[k].auth = cmds[k].auth /\ cmds'[j].auth = cmds[j].auth /\ cmds[k].auth \in Auth
    BY <1>3, <1>5, <1>7
  <2>2. auth[cmds[k].auth].kind = "transport"
    BY <1>2, <1>3, <1>7, <2>1
  <2> QED
    BY <1>7, <2>1, <2>2 DEF Commands
<1>9. ASSUME NEW k \in Cmd, cmds'[k].auth # 0, auth'[cmds'[k].auth].kind # "transport"
      PROVE  cmds'[k].st # "checked" /\ cmds'[k].life = auth'[cmds'[k].auth].life
  <2>1. cmds'[k].auth = cmds[k].auth /\ cmds[k].auth \in Auth
    BY <1>3, <1>5, <1>9
  <2>2. auth[cmds[k].auth].kind # "transport" /\ auth'[cmds[k].auth].life = auth[cmds[k].auth].life
    BY <1>2, <1>3, <1>9, <2>1
  <2>3. cmds[k].st # "checked" /\ cmds[k].life = auth[cmds[k].auth].life
    BY <1>9, <2>1, <2>2 DEF Commands
  <2>4. cmds'[k].st # "checked" /\ cmds'[k].life = cmds[k].life
    BY <1>4, <1>9, <2>3 DEF CmdGoesOn
  <2> QED
    BY <2>1, <2>2, <2>3, <2>4
<1>8. CommandNumbers'
  <2>1. ASSUME NEW k \in Cmd PROVE cmds'[k].auth <= made'.auths
    <3>1. cmds[k].auth \in Nat
      BY <1>3 DEF Auth
    <3> QED
      BY <1>1, <1>3, <1>5, <3>1
  <2>2. ASSUME NEW k \in Cmd, k > made'.cmds PROVE cmds'[k].st = "none"
    <3>1. k > made.cmds /\ cmds[k].st = "none"
      BY <1>1, <1>3, <2>2 DEF Cmd
    <3> QED
      BY <3>1 DEF CmdGoesOn
  <2> QED
    BY <2>1, <2>2 DEF CommandNumbers
<1> QED
  BY <1>5, <1>6, <1>7, <1>8, <1>9 DEF Commands

\* A command is made on the authority a.
LEMMA NewCommand ==
  ASSUME TypeOK, Numbered, Commands, NEW a \in Auth, a <= made.auths, NEW l \in Life \cup {0},
         NEW st \in {"checked", "looked"}, NewCmd(a, l, st), UNCHANGED authority,
         st = "looked" => l # 0 /\ (auth[a].valid => l = entry),
         auth[a].kind = "transport" => \A k \in Cmd : cmds[k].auth # a,
         auth[a].kind # "transport" => st = "looked" /\ l = auth[a].life
  PROVE  /\ cmds' \in [Cmd -> CmdType] /\ Commands' /\ CommandNumbers'
         /\ \E n \in Cmd : /\ cmds[n].st = "none" /\ cmds'[n].st = st
                           /\ \A k \in Cmd \ {n} : cmds'[k] = cmds[k]
<1> DEFINE n == made.cmds + 1
           r == [auth |-> a, life |-> l, epoch |-> FALSE, st |-> st]
<1>1. /\ made.cmds \in Nat /\ bound.cmds \in 0..MaxCommands /\ made.cmds < bound.cmds /\ MaxCommands \in Nat
      /\ cmds' = [cmds EXCEPT ![n] = r] /\ made' = [made EXCEPT !.cmds = @ + 1]
  BY Numbers, LimitAssumption DEF NewCmd
<1>2. n \in Cmd /\ n > made.cmds /\ n \in Nat
  BY <1>1 DEF Cmd
<1>3. r \in CmdType /\ r.auth = a /\ r.life = l /\ r.st = st
  BY DEF CmdType
<1>4. made'.cmds = n /\ made'.auths = made.auths
  BY <1>1 DEF TypeOK, Bounded
<1>5. cmds \in [Cmd -> CmdType]
  BY Types
<1> HIDE DEF n, r
<1>6. /\ cmds' \in [Cmd -> CmdType] /\ cmds'[n] = r
      /\ \A k \in Cmd \ {n} : cmds'[k] = cmds[k]
  BY <1>1, <1>2, <1>3, <1>5
<1>7. cmds[n].st = "none"
  BY <1>2 DEF Numbered
<1>8. auth' = auth /\ entry' = entry
  BY DEF authority
<1>9. CommandNumbers'
  <2>1. \A k \in Cmd : k \in Nat
    BY DEF Cmd
  <2>2. ASSUME NEW k \in Cmd PROVE cmds'[k].auth <= made'.auths /\ (k > made'.cmds => cmds'[k].st = "none")
    <3>1. CASE k = n
      BY <1>2, <1>3, <1>4, <1>6, <2>1, <3>1
    <3>2. CASE k # n
      <4>1. cmds'[k] = cmds[k] /\ cmds[k].auth <= made.auths /\ (k > made.cmds => cmds[k].st = "none")
        BY <1>6, <3>2 DEF Numbered
      <4>2. k > made'.cmds => k > made.cmds
        BY <1>1, <1>2, <1>4, <2>1
      <4> QED
        BY <1>4, <4>1, <4>2
    <3> QED
      BY <3>1, <3>2
  <2> QED
    BY <2>2 DEF CommandNumbers
<1>10. ASSUME NEW k \in Cmd
       PROVE  /\ cmds'[k].auth = 0 <=> cmds'[k].st \in {"none", "done"}
              /\ cmds'[k].st \in {"looked", "sent", "received", "accepted", "running"} =>
                   cmds'[k].life # 0 /\ (auth'[cmds'[k].auth].valid => cmds'[k].life = entry')
  <2>1. CASE k = n
    <3>1. a # 0
      BY DEF Auth
    <3> QED
      BY <1>3, <1>6, <1>8, <2>1, <3>1
  <2>2. CASE k # n
    BY <1>6, <1>8, <2>2 DEF Commands
  <2> QED
    BY <2>1, <2>2
<1>11. ASSUME NEW j \in Cmd, NEW k \in Cmd, cmds'[j].auth = cmds'[k].auth, cmds'[k].auth # 0,
              auth'[cmds'[k].auth].kind = "transport"
       PROVE  j = k
  <2>1. CASE j = n /\ k # n
    BY <1>3, <1>6, <1>8, <1>11, <2>1
  <2>2. CASE k = n /\ j # n
    BY <1>3, <1>6, <1>8, <1>11, <2>2
  <2>3. CASE k # n /\ j # n
    BY <1>6, <1>8, <1>11, <2>3 DEF Commands
  <2> QED
    BY <2>1, <2>2, <2>3
<1>14. ASSUME NEW k \in Cmd, cmds'[k].auth # 0, auth'[cmds'[k].auth].kind # "transport"
       PROVE  cmds'[k].st # "checked" /\ cmds'[k].life = auth'[cmds'[k].auth].life
  <2>1. CASE k = n
    BY <1>3, <1>6, <1>8, <1>14, <2>1
  <2>2. CASE k # n
    BY <1>6, <1>8, <1>14, <2>2 DEF Commands
  <2> QED
    BY <2>1, <2>2
<1>12. Commands'
  BY <1>10, <1>11, <1>14 DEF Commands
<1>13. cmds'[n].st = st
  BY <1>3, <1>6
<1> QED
  BY <1>2, <1>6, <1>7, <1>9, <1>12, <1>13

CmdStates == {"none", "checked", "looked", "sent", "received", "accepted", "running", "answered", "done"}

LEMMA CmdRecord ==
  ASSUME NEW r \in CmdType, NEW l \in Life \cup {0}, NEW e \in BOOLEAN, NEW st \in CmdStates
  PROVE  LET s == [r EXCEPT !.st = st]
             f == [r EXCEPT !.life = l, !.st = st]
             g == [r EXCEPT !.epoch = e, !.st = st]
         IN  /\ s \in CmdType /\ s.auth = r.auth /\ s.life = r.life /\ s.st = st
             /\ f \in CmdType /\ f.auth = r.auth /\ f.life = l /\ f.st = st
             /\ g \in CmdType /\ g.auth = r.auth /\ g.life = r.life /\ g.st = st
<1>1. LET s == [r EXCEPT !.st = st]
      IN  s \in CmdType /\ s.auth = r.auth /\ s.life = r.life /\ s.st = st
  BY DEF CmdType, CmdStates
<1>2. LET f == [r EXCEPT !.life = l, !.st = st]
      IN  f \in CmdType /\ f.auth = r.auth /\ f.life = l /\ f.st = st
  BY DEF CmdType, CmdStates
<1>3. LET g == [r EXCEPT !.epoch = e, !.st = st]
      IN  g \in CmdType /\ g.auth = r.auth /\ g.life = r.life /\ g.st = st
  BY DEF CmdType, CmdStates
<1> QED
  BY <1>1, <1>2, <1>3

\* One command changes.
LEMMA CmdChanges ==
  ASSUME TypeOK, NEW k \in Cmd, NEW r \in CmdType, cmds' = [cmds EXCEPT ![k] = r]
  PROVE  /\ cmds' \in [Cmd -> CmdType] /\ cmds'[k] = r
         /\ \A j \in Cmd \ {k} : cmds'[j] = cmds[j]
<1>1. cmds \in [Cmd -> CmdType]
  BY Types
<1> QED
  BY <1>1

\* Only its state does.
LEMMA CmdGetsState ==
  ASSUME TypeOK, NEW k \in Cmd, NEW st \in CmdStates, cmds' = [cmds EXCEPT ![k].st = st]
  PROVE  /\ cmds' \in [Cmd -> CmdType]
         /\ cmds'[k].auth = cmds[k].auth /\ cmds'[k].life = cmds[k].life /\ cmds'[k].st = st
         /\ \A j \in Cmd \ {k} : cmds'[j] = cmds[j]
<1> DEFINE r == [cmds[k] EXCEPT !.st = st]
<1>1. cmds[k] \in CmdType /\ cmds' = [cmds EXCEPT ![k] = r]
  BY Types
<1>2. r \in CmdType /\ r.auth = cmds[k].auth /\ r.life = cmds[k].life /\ r.st = st
  BY <1>1, CmdRecord DEF CmdType
<1> HIDE DEF r
<1> QED
  BY <1>1, <1>2, CmdChanges

LEMMA LineType ==
  ASSUME TypeOK, NEW l \in Life
  PROVE  /\ lives[l].queue \in Seq(Cmd \cup {0}) /\ lives[l].waiting \in Seq(Cmd \cup {0})
         /\ Line(l) \in Seq(Cmd \cup {0})
         /\ Len(Line(l)) = Len(lives[l].queue) + Len(lives[l].waiting)
         /\ DOMAIN Line(l) = 1..Len(Line(l))
         /\ \A i \in 1..Len(lives[l].queue) : Line(l)[i] = lives[l].queue[i]
         /\ \A i \in 1..Len(lives[l].waiting) : Line(l)[Len(lives[l].queue) + i] = lives[l].waiting[i]
<1>1. lives[l].queue \in Seq(Cmd \cup {0}) /\ lives[l].waiting \in Seq(Cmd \cup {0})
  BY DEF TypeOK, Shutdown
<1> QED
  <2> DEFINE q == lives[l].queue
             w == lives[l].waiting
  <2>1. q \in Seq(Cmd \cup {0}) /\ w \in Seq(Cmd \cup {0}) /\ Line(l) = q \o w
    BY <1>1 DEF Line
  <2> HIDE DEF q, w
  <2>2. /\ Line(l) \in Seq(Cmd \cup {0}) /\ Len(Line(l)) = Len(q) + Len(w)
        /\ \A i \in 1..Len(q) + Len(w) : Line(l)[i] = IF i <= Len(q) THEN q[i] ELSE w[i - Len(q)]
    BY <2>1, ConcatProperties
  <2>3. Len(q) \in Nat /\ Len(w) \in Nat /\ DOMAIN Line(l) = 1..Len(Line(l))
    BY <2>1, <2>2
  <2>4. \A i \in 1..Len(q) : Line(l)[i] = q[i]
    BY <2>2, <2>3
  <2>5. ASSUME NEW i \in 1..Len(w) PROVE Line(l)[Len(q) + i] = w[i]
    <3>1. Len(q) + i \in 1..Len(q) + Len(w) /\ ~(Len(q) + i <= Len(q)) /\ (Len(q) + i) - Len(q) = i
      BY <2>3
    <3> QED
      BY <2>2, <3>1
  <2> QED
    BY <2>1, <2>2, <2>3, <2>4, <2>5 DEF q, w

\* What a worker receives.
LEMMA HeadOfLine ==
  ASSUME TypeOK, Lines, NEW l \in Life, Receives(l), Head(lives[l].queue) # Shutdown
  PROVE  LET k == Head(lives[l].queue)
         IN  /\ k \in Cmd /\ Line(l)[1] = k /\ 1 \in DOMAIN Line(l)
             /\ cmds[k].st = "sent" /\ cmds[k].life = l
<1>1. lives[l].queue \in Seq(Cmd \cup {0}) /\ lives[l].queue # <<>>
  BY LineType DEF Receives
<1>2. Len(lives[l].queue) \in Nat /\ Len(lives[l].queue) > 0 /\ Head(lives[l].queue) = lives[l].queue[1]
      /\ Head(lives[l].queue) \in Cmd \cup {0} /\ Len(lives[l].waiting) \in Nat
  BY <1>1, LineType, EmptySeq
<1>3. 1 \in DOMAIN Line(l) /\ Line(l)[1] = Head(lives[l].queue)
  <2> DEFINE n == Len(lives[l].queue)
             m == Len(lives[l].waiting)
  <2>1. Len(Line(l)) = n + m /\ DOMAIN Line(l) = 1..Len(Line(l)) /\ n \in Nat /\ n > 0 /\ m \in Nat
    BY <1>2, LineType
  <2>2. \A i \in 1..n : Line(l)[i] = lives[l].queue[i]
    BY LineType
  <2> HIDE DEF n, m
  <2>3. 1 \in 1..n /\ 1 \in 1..n + m
    BY <2>1
  <2> QED
    BY <1>2, <2>1, <2>2, <2>3
<1> QED
  BY <1>2, <1>3 DEF Lines, Shutdown

LEMMA CommandsStep ==
  ASSUME TypeOK, Numbered, Authority, Commands, Lines, Threads, Next
  PROVE  cmds' \in [Cmd -> CmdType] /\ Commands' /\ CommandNumbers'
<1>1. ASSUME cmds' \in [Cmd -> CmdType], \A k \in Cmd : CmdGoesOn(k)
      PROVE  cmds' \in [Cmd -> CmdType] /\ Commands' /\ CommandNumbers'
  BY <1>1, AuthorityStep, CommandsGoOn
<1>2. CASE UNCHANGED cmds
  <2>1. cmds' \in [Cmd -> CmdType]
    BY <1>2, Types
  <2> QED
    BY <1>1, <1>2, <2>1 DEF CmdGoesOn
<1> DEFINE G == cmds' \in [Cmd -> CmdType] /\ Commands' /\ CommandNumbers'
<1> HIDE DEF G
<1>3. ASSUME NEW k \in Cmd, NEW st \in CmdStates \ {"none", "done", "checked"}, cmds' = [cmds EXCEPT ![k].st = st],
             cmds[k].st \notin {"none", "done"},
             st \in {"looked", "sent", "received", "accepted", "running"} => cmds[k].st \in {"looked", "sent", "received", "accepted", "running"}
      PROVE  G
  <2>1. /\ cmds' \in [Cmd -> CmdType]
        /\ cmds'[k].auth = cmds[k].auth /\ cmds'[k].life = cmds[k].life /\ cmds'[k].st = st
        /\ \A j \in Cmd \ {k} : cmds'[j] = cmds[j]
    BY <1>3, CmdGetsState
  <2>2. \A j \in Cmd : CmdGoesOn(j)
    BY <1>3, <2>1 DEF CmdGoesOn
  <2> QED
    BY <1>1, <2>1, <2>2 DEF G
<1>4. ASSUME NEW ks, ks \subseteq Cmd, \A k \in ks : cmds[k].st # "none",
             cmds' = [k \in Cmd |-> IF k \in ks THEN Over ELSE cmds[k]]
      PROVE  G
  <2>1. Over \in CmdType
    BY DEF Over, CmdType
  <2>2. cmds \in [Cmd -> CmdType]
    BY Types
  <2>3. cmds' \in [Cmd -> CmdType] /\ \A k \in Cmd : CmdGoesOn(k)
    BY <1>4, <2>1, <2>2 DEF CmdGoesOn
  <2> QED
    BY <1>1, <2>3 DEF G
<1>5. ASSUME NEW c \in Client, AskNm(c) PROVE G
  <2> DEFINE a == hot[c]
  <2>1. a \in Auth /\ a <= made.auths /\ auth[a].kind = "nm" /\ auth[a].life # 0 /\ auth[a].life \in Life \cup {0}
    BY <1>5 DEF AskNm, TypeOK, Numbered, Authority
  <2>2. auth[a].valid => auth[a].life = entry
    BY <2>1 DEF Authority, Authorised
  <2>3. NewCmd(a, auth[a].life, "looked") /\ UNCHANGED authority
    BY <1>5 DEF AskNm
  <2> HIDE DEF a
  <2> QED
    BY <2>1, <2>2, <2>3, NewCommand DEF G
<1>6. ASSUME NEW a \in Auth, AskTransport(a) PROVE G
  <2>1. a <= made.auths /\ NewCmd(a, 0, "checked") /\ UNCHANGED authority /\ auth[a].kind = "transport"
    BY <1>6 DEF AskTransport, Numbered, Authority
  <2>2. \A k \in Cmd : cmds[k].auth # a
    <3>1. \A k \in Cmd : cmds[k].auth = a => cmds[k].st = "done"
      BY <1>6 DEF AskTransport
    <3>2. \A k \in Cmd : cmds[k].st = "done" => cmds[k].auth = 0
      BY DEF Commands
    <3>3. a # 0
      BY DEF Auth
    <3> QED
      BY <3>1, <3>2, <3>3
  <2> QED
    BY <2>1, <2>2, NewCommand DEF G
<1>7. ASSUME NEW k \in Cmd, LookUp(k) PROVE G
  <2> DEFINE st == IF entry = 0 THEN "answered" ELSE "looked"
             r == [cmds[k] EXCEPT !.life = entry, !.st = st]
  <2>1. entry \in Life \cup {0} /\ cmds[k] \in CmdType /\ cmds' = [cmds EXCEPT ![k] = r]
    BY <1>7, Types DEF LookUp
  <2>2. st \in CmdStates /\ (st = "looked" => entry # 0) /\ st \in {"answered", "looked"}
    BY <2>1 DEF CmdStates
  <2> HIDE DEF st
  <2>3. r \in CmdType /\ r.auth = cmds[k].auth /\ r.life = entry /\ r.st = st
    BY <2>1, <2>2, CmdRecord DEF CmdType
  <2> HIDE DEF r
  <2>4. cmds' \in [Cmd -> CmdType] /\ cmds'[k] = r /\ \A j \in Cmd \ {k} : cmds'[j] = cmds[j]
    BY <2>1, <2>3, CmdChanges
  <2>5. entry' = entry /\ cmds[k].st = "checked"
    BY <1>7 DEF LookUp, authority
  <2>6. \A j \in Cmd : CmdGoesOn(j)
    BY <2>2, <2>3, <2>4, <2>5 DEF CmdGoesOn
  <2> QED
    BY <1>1, <2>4, <2>6 DEF G
<1>8. ASSUME NEW k \in Cmd, Enqueue(k) PROVE G
  <2> DEFINE l == cmds[k].life
             st == IF lives[l].closed THEN "answered" ELSE "sent"
             r == [cmds[k] EXCEPT !.epoch = lives[l].stopped, !.st = st]
  <2>1. cmds[k] \in CmdType /\ cmds[k].st = "looked" /\ cmds' = [cmds EXCEPT ![k] = r]
    BY <1>8, Types DEF Enqueue
  <2>2. lives[l].stopped \in BOOLEAN
    <3>1. l \in Life
      BY <2>1 DEF Commands, CmdType
    <3> QED
      BY <3>1, Types DEF LifeType
  <2>3. st \in CmdStates /\ st \in {"answered", "sent"}
    BY DEF CmdStates
  <2> HIDE DEF st
  <2>4. r \in CmdType /\ r.auth = cmds[k].auth /\ r.life = cmds[k].life /\ r.st = st
    BY <2>1, <2>2, <2>3, CmdRecord, ZenonT(40) DEF CmdType
  <2> HIDE DEF r
  <2>5. cmds' \in [Cmd -> CmdType] /\ cmds'[k] = r /\ \A j \in Cmd \ {k} : cmds'[j] = cmds[j]
    BY <2>1, <2>4, CmdChanges
  <2>6. \A j \in Cmd : CmdGoesOn(j)
    BY <2>1, <2>3, <2>4, <2>5 DEF CmdGoesOn
  <2> QED
    BY <1>1, <2>5, <2>6 DEF G
<1>9. ASSUME NEW c \in Client, Reply(c) PROVE G
  <2> DEFINE ks == {k \in Cmd : cmds[k].st = "answered" /\ NmCommandOf(k, c)}
  <2>1. ks \subseteq Cmd /\ \A k \in ks : cmds[k].st # "none"
    OBVIOUS
  <2>2. cmds' = [k \in Cmd |-> IF k \in ks THEN Over ELSE cmds[k]]
    BY <1>9 DEF Reply
  <2> HIDE DEF ks
  <2> QED
    BY <1>4, <2>1, <2>2
<1>10. ASSUME NEW a \in Auth, ConnectionEnds(a) PROVE G
  <2>1. Dropped(a) \subseteq Cmd /\ \A k \in Dropped(a) : cmds[k].st # "none"
    BY DEF Dropped
  <2>2. cmds' = [k \in Cmd |-> IF k \in Dropped(a) THEN Over ELSE cmds[k]]
    BY <1>10 DEF ConnectionEnds
  <2> QED
    BY <1>4, <2>1, <2>2
<1>11. ASSUME NEW k \in Cmd, TransportReplies(k) PROVE G
  <2> DEFINE ks == {k}
  <2>1. cmds' = [j \in Cmd |-> IF j \in ks THEN Over ELSE cmds[j]]
    BY <1>11, Types DEF TransportReplies
  <2>2. ks \subseteq Cmd /\ \A j \in ks : cmds[j].st # "none"
    BY <1>11 DEF TransportReplies
  <2> HIDE DEF ks
  <2> QED
    BY <1>4, <2>1, <2>2
<1>12. ASSUME NEW l \in Life, Receive(l) PROVE G
  <2> DEFINE k == Head(lives[l].queue)
  <2>1. k \in Cmd /\ cmds[k].st = "sent"
    BY <1>12, HeadOfLine DEF Receive
  <2>2. cmds' = [cmds EXCEPT ![k].st = "received"]
    BY <1>12 DEF Receive
  <2> HIDE DEF k
  <2>3. "received" \in CmdStates \ {"none", "done", "checked"}
    BY DEF CmdStates
  <2> QED
    BY <1>3, <2>1, <2>2, <2>3
<1>13. ASSUME NEW l \in Life, Reject(l) \/ Accept(l) \/ HidBegins(l) \/ HidReturns(l) PROVE G
  <2> DEFINE k == lives[l].call
  <2>1. k # 0 /\ k \in Cmd /\ cmds[k].st \in {"received", "accepted", "running"}
    BY <1>13 DEF Reject, Accept, HidBegins, HidReturns, InHand, TypeOK
  <2>2. PICK st \in {"accepted", "running", "answered"} : cmds' = [cmds EXCEPT ![k].st = st]
    BY <1>13 DEF Reject, Accept, HidBegins, HidReturns, Answers, Proceeds
  <2> HIDE DEF k
  <2>3. st \in CmdStates \ {"none", "done", "checked"}
    BY DEF CmdStates
  <2> QED
    BY <1>3, <2>1, <2>2, <2>3
<1>14. ASSUME NEW l \in Life, WorkerExits(l) PROVE G
  <2>1. cmds' = [k \in Cmd |-> IF cmds[k].st = "sent" /\ cmds[k].life = l
                               THEN [cmds[k] EXCEPT !.st = "answered"] ELSE cmds[k]]
    BY <1>14 DEF WorkerExits
  <2>2. ASSUME NEW k \in Cmd PROVE cmds'[k] \in CmdType /\ CmdGoesOn(k)
    <3>1. cmds[k] \in CmdType
      BY Types
    <3>2. CASE cmds[k].st = "sent" /\ cmds[k].life = l
      <4>1. cmds'[k] = [cmds[k] EXCEPT !.st = "answered"]
        BY <2>1, <3>2
      <4> QED
        BY <3>1, <3>2, <4>1 DEF CmdGoesOn, CmdType
    <3>3. CASE ~(cmds[k].st = "sent" /\ cmds[k].life = l)
      BY <2>1, <3>1, <3>3 DEF CmdGoesOn
    <3> QED
      BY <3>2, <3>3
  <2>3. cmds' \in [Cmd -> CmdType]
    BY <2>1, <2>2
  <2> QED
    BY <1>1, <2>2, <2>3 DEF G
<1>15. ForceClose => UNCHANGED cmds
  BY DEF ForceClose
<1>16. \A c \in Client : Open(c) \/ TransportConnect(c) \/ SetDataplaneMode(c) \/ Close(c)
                        \/ Writes(c) \/ WriteFails(c) \/ Leave(c) => UNCHANGED cmds
  BY DEF Open, TransportConnect, SetDataplaneMode, Close, Writes, WriteFails, Leave
<1>17. \A l \in Life : \/ Signal(l) \/ RequestShutdown(l) \/ JoinThreads(l)
                       \/ ReaderStops(l) \/ ReaderReads(l) \/ ReaderFails(l) \/ RouteChecks(l) \/ RouteSends(l)
                       => UNCHANGED cmds
  BY DEF Signal, RequestShutdown, JoinThreads, ReaderStops, ReaderReads, ReaderFails, RouteChecks, RouteSends
<1>18. G
  <2>1. UNCHANGED cmds => G
    BY <1>2 DEF G
  <2> QED
    BY <1>5, <1>6, <1>7, <1>8, <1>9, <1>10, <1>11, <1>12, <1>13, <1>14, <1>15, <1>16, <1>17, <2>1 DEF Next
<1> QED
  BY <1>18 DEF G

-----------------------------------------------------------------------------
(* Threads and lines *)

\* What a step may make of the record of the lifetime l.
RecordGoesOn(l, r) ==
  /\ r.victim = lives[l].victim \/ (lives[l].victim = 0 /\ r.reader = "stopping")
  /\ lives[l].reader = "exited" => r.reader = "exited"
  /\ lives[l].victim # 0 => r.reader \in {"stopping", "exited"}
  /\ r.stop = "done" => lives[l].stop = "done" \/ (lives[l].closed /\ ReaderJoined(l))
  /\ lives[l].closed => r.closed
  /\ l > made'.lives => r.reader = "none" /\ r.stop = "no"

SameWork(l, r) ==
  /\ r.queue = lives[l].queue /\ r.waiting = lives[l].waiting
  /\ r.call = lives[l].call /\ r.closed = lives[l].closed

\* What a worker knows of a command stays.
SameUse(k) ==
  cmds[k].st \in {"sent", "received", "accepted", "running"} \/ cmds'[k].st \in {"sent", "received", "accepted", "running"} =>
    cmds'[k].st = cmds[k].st /\ cmds'[k].life = cmds[k].life

LifeNumbers == \A l \in Life : l > made.lives => lives[l].reader = "none" /\ lives[l].stop = "no"

LivesGoOn == lives' \in [Life -> LifeType] /\ LifeNumbers' /\ Lines' /\ Threads'

LEMMA RecordStays ==
  ASSUME TypeOK, Numbered, Threads, MadeGrows, NEW l \in Life
  PROVE  RecordGoesOn(l, lives[l]) /\ SameWork(l, lives[l])
<1>1. l \in Nat /\ made.lives \in Nat /\ made'.lives \in Nat /\ made.lives <= made'.lives
  BY Numbers DEF Life, MadeGrows, Bounded
<1>2. l > made'.lives => lives[l].reader = "none" /\ lives[l].stop = "no"
  BY <1>1 DEF Numbered
<1>3. lives[l].victim # 0 => lives[l].reader \in {"stopping", "exited"}
  BY DEF Threads
<1> QED
  BY <1>2, <1>3 DEF RecordGoesOn, SameWork

\* One record changes.
LEMMA OneLife ==
  ASSUME TypeOK, Numbered, Threads, MadeGrows, NEW l \in Life, NEW r \in LifeType,
         lives' = [lives EXCEPT ![l] = r], RecordGoesOn(l, r)
  PROVE  /\ lives' \in [Life -> LifeType] /\ lives'[l] = r
         /\ \A j \in Life \ {l} : lives'[j] = lives[j]
         /\ \A j \in Life : RecordGoesOn(j, lives'[j])
<1>1. lives \in [Life -> LifeType]
  BY Types
<1>2. lives' \in [Life -> LifeType] /\ lives'[l] = r /\ \A j \in Life \ {l} : lives'[j] = lives[j]
  BY <1>1
<1>3. ASSUME NEW j \in Life PROVE RecordGoesOn(j, lives'[j])
  <2>1. CASE j = l
    BY <1>2, <2>1
  <2>2. CASE j # l
    <3>1. lives'[j] = lives[j] /\ RecordGoesOn(j, lives[j])
      BY <1>2, <2>2, RecordStays
    <3> QED
      BY <3>1
  <2> QED
    BY <2>1, <2>2
<1> QED
  BY <1>2, <1>3

\* Readers and stops, whatever the workers do.
LEMMA StopsGoOn ==
  ASSUME TypeOK, Threads, \A l \in Life : RecordGoesOn(l, lives'[l])
  PROVE  /\ LifeNumbers'
         /\ \A l \in Life :
              /\ lives'[l].victim # 0 => lives'[l].reader \in {"stopping", "exited"}
              /\ lives'[l].stop = "done" => lives'[l].closed /\ ReaderJoined(l)'
<1>1. LifeNumbers'
  BY DEF LifeNumbers, RecordGoesOn
<1>2. ASSUME NEW l \in Life
      PROVE  lives'[l].victim # 0 => lives'[l].reader \in {"stopping", "exited"}
  BY DEF RecordGoesOn
<1>3. ASSUME NEW l \in Life, ReaderJoined(l) PROVE ReaderJoined(l)'
  <2>1. CASE lives[l].reader = "exited"
    BY <2>1 DEF ReaderJoined, RecordGoesOn
  <2>2. CASE \E r \in Life : lives[r].victim = l
    <3>1. PICK r \in Life : lives[r].victim = l
      BY <2>2
    <3>2. l # 0 /\ RecordGoesOn(r, lives'[r])
      BY DEF Life
    <3>3. lives'[r].victim = l
      BY <3>1, <3>2 DEF RecordGoesOn
    <3> QED
      BY <3>3 DEF ReaderJoined
  <2> QED
    BY <1>3, <2>1, <2>2 DEF ReaderJoined
<1>4. ASSUME NEW l \in Life, lives'[l].stop = "done" PROVE lives'[l].closed /\ ReaderJoined(l)'
  <2>1. lives[l].closed /\ ReaderJoined(l)
    BY <1>4 DEF RecordGoesOn, Threads
  <2>2. lives'[l].closed
    BY <2>1 DEF RecordGoesOn
  <2> QED
    BY <1>3, <2>1, <2>2
<1> QED
  BY <1>1, <1>2, <1>4

\* No worker and no line is concerned.
LEMMA Bystander ==
  ASSUME TypeOK, Lines, Threads, lives' \in [Life -> LifeType],
         \A l \in Life : RecordGoesOn(l, lives'[l]) /\ SameWork(l, lives'[l]),
         \A k \in Cmd : SameUse(k)
  PROVE  LivesGoOn
<1>1. \A l \in Life : Line(l)' = Line(l)
  BY DEF Line, SameWork
<1>2. ASSUME NEW l \in Life, NEW i \in DOMAIN Line(l), Line(l)[i] # Shutdown
      PROVE  /\ cmds'[Line(l)[i]].st = "sent" /\ cmds'[Line(l)[i]].life = l
             /\ \A j \in DOMAIN Line(l) : Line(l)[j] = Line(l)[i] => j = i
  <2>1. Line(l)[i] \in Cmd
    <3>1. Line(l) \in Seq(Cmd \cup {0})
      BY LineType
    <3>2. Line(l)[i] \in Cmd \cup {0}
      BY <3>1
    <3> QED
      BY <1>2, <3>2 DEF Shutdown
  <2>2. /\ cmds[Line(l)[i]].st = "sent" /\ cmds[Line(l)[i]].life = l
        /\ \A j \in DOMAIN Line(l) : Line(l)[j] = Line(l)[i] => j = i
    BY <1>2 DEF Lines
  <2> QED
    BY <2>1, <2>2 DEF SameUse
<1>3. Lines'
  BY <1>1, <1>2 DEF Lines
<1>4. ASSUME NEW l \in Life, lives'[l].call # 0
      PROVE  cmds'[lives'[l].call].st \in {"received", "accepted", "running"} /\ cmds'[lives'[l].call].life = l
  <2>1. lives'[l].call = lives[l].call /\ lives[l].call \in Cmd
    BY <1>4 DEF SameWork, TypeOK
  <2>2. cmds[lives[l].call].st \in {"received", "accepted", "running"} /\ cmds[lives[l].call].life = l
    BY <1>4, <2>1 DEF Threads
  <2> QED
    BY <2>1, <2>2 DEF SameUse
<1>5. ASSUME NEW l \in Life, lives'[l].closed
      PROVE  /\ lives'[l].call = 0 /\ lives'[l].queue = <<>> /\ lives'[l].waiting = <<>>
             /\ \A k \in Cmd : cmds'[k].life = l => cmds'[k].st # "sent"
  <2>1. SameWork(l, lives'[l]) /\ lives[l].closed
    BY <1>5 DEF SameWork
  <2>2. /\ lives[l].call = 0 /\ lives[l].queue = <<>> /\ lives[l].waiting = <<>>
        /\ \A k \in Cmd : cmds[k].life = l => cmds[k].st # "sent"
    BY <2>1 DEF Threads
  <2>3. \A k \in Cmd : cmds'[k].life = l => cmds'[k].st # "sent"
    BY <2>2 DEF SameUse
  <2> QED
    BY <2>1, <2>2, <2>3 DEF SameWork
<1>6. ASSUME NEW k \in Cmd, cmds'[k].st \in {"received", "accepted", "running"}
      PROVE  cmds'[k].life # 0 /\ lives'[cmds'[k].life].call = k
  <2>1. cmds[k].st \in {"received", "accepted", "running"} /\ cmds'[k].life = cmds[k].life
    BY <1>6 DEF SameUse
  <2>2. cmds[k].life # 0 /\ lives[cmds[k].life].call = k /\ cmds[k].life \in Life
    BY <2>1 DEF Threads, TypeOK
  <2> QED
    BY <2>1, <2>2 DEF SameWork
<1> QED
  BY <1>3, <1>4, <1>5, <1>6, StopsGoOn DEF LivesGoOn, Threads

LEMMA QuietLife ==
  ASSUME TypeOK, Numbered, Lines, Threads, MadeGrows, UNCHANGED cmds, NEW l \in Life, NEW r \in LifeType,
         lives' = [lives EXCEPT ![l] = r], RecordGoesOn(l, r), SameWork(l, r)
  PROVE  LivesGoOn
<1>1. /\ lives' \in [Life -> LifeType] /\ lives'[l] = r
      /\ \A j \in Life \ {l} : lives'[j] = lives[j]
      /\ \A j \in Life : RecordGoesOn(j, lives'[j])
  BY OneLife
<1>2. \A j \in Life : SameWork(j, lives'[j])
  BY <1>1 DEF SameWork
<1>3. \A k \in Cmd : SameUse(k)
  BY DEF SameUse
<1> QED
  BY <1>1, <1>2, <1>3, Bystander

LEMMA QuietLives ==
  ASSUME TypeOK, Numbered, Lines, Threads, MadeGrows, UNCHANGED lives, \A k \in Cmd : SameUse(k)
  PROVE  LivesGoOn
<1>1. lives' \in [Life -> LifeType]
  BY Types
<1>2. \A l \in Life : RecordGoesOn(l, lives'[l]) /\ SameWork(l, lives'[l])
  BY RecordStays
<1> QED
  BY <1>1, <1>2, Bystander

Readers == {"none", "reading", "routing", "sending", "stopping", "exited"}
Stops == {"no", "detached", "signalled", "asked", "done"}

\* The fields that the steps of readers and stops set.
LEMMA ReaderSet ==
  ASSUME NEW r \in LifeType, NEW rd \in Readers
  PROVE  LET q == [r EXCEPT !.reader = rd]
         IN  /\ q \in LifeType /\ q.reader = rd /\ q.stop = r.stop /\ q.victim = r.victim
             /\ q.queue = r.queue /\ q.waiting = r.waiting /\ q.call = r.call /\ q.closed = r.closed
BY DEF LifeType, Readers, Stops

LEMMA StoppedSet ==
  ASSUME NEW r \in LifeType, NEW st \in Stops
  PROVE  LET q == [r EXCEPT !.stopped = TRUE, !.stop = st]
         IN  /\ q \in LifeType /\ q.reader = r.reader /\ q.stop = st /\ q.victim = r.victim
             /\ q.queue = r.queue /\ q.waiting = r.waiting /\ q.call = r.call /\ q.closed = r.closed
BY DEF LifeType, Readers, Stops

\* A reader that is at work goes on, or exits.
LEMMA ReaderMoves ==
  ASSUME TypeOK, Numbered, Lines, Threads, MadeGrows, UNCHANGED cmds, NEW l \in Life, NEW r \in LifeType,
         lives[l].reader \in {"reading", "routing", "sending"}, lives' = [lives EXCEPT ![l] = r],
         r.reader \in Readers \ {"none", "stopping"}, r.stop = lives[l].stop, r.victim = lives[l].victim,
         SameWork(l, r)
  PROVE  LivesGoOn
<1>1. l \in Nat /\ made.lives \in Nat /\ made'.lives \in Nat /\ made.lives <= made'.lives
  BY Numbers DEF Life, MadeGrows, Bounded
<1>2. ~(l > made'.lives)
  BY <1>1 DEF Numbered
<1>3. lives[l].victim = 0
  BY DEF Threads
<1>4. RecordGoesOn(l, r)
  BY <1>2, <1>3 DEF RecordGoesOn, SameWork
<1> QED
  BY <1>4, QuietLife

LEMMA TurnsStep ==
  ASSUME TypeOK, Numbered, Lines, Threads, MadeGrows, UNCHANGED cmds, NEW l \in Life, NEW as \in SUBSET Auth,
         lives[l].reader \in {"reading", "routing", "sending"}, Turns(l, as)
  PROVE  LivesGoOn
<1>1. lives[l] \in LifeType /\ lives \in [Life -> LifeType]
  BY Types
<1>2. PICK rd \in {"routing", "exited", "reading"}, a \in Auth \cup {0}, s \in SUBSET Auth :
        lives' = [lives EXCEPT ![l].reader = rd, ![l].at = a, ![l].left = s]
  <2>1. ASSUME NEW a \in as,
               lives' = [lives EXCEPT ![l].reader = "routing", ![l].at = a, ![l].left = as \ {a}]
        PROVE  \E rd \in {"routing", "exited", "reading"}, b \in Auth \cup {0}, s \in SUBSET Auth :
                 lives' = [lives EXCEPT ![l].reader = rd, ![l].at = b, ![l].left = s]
    BY <2>1
  <2>2. ASSUME lives' = [lives EXCEPT ![l].reader = IF lives[l].stopped THEN "exited" ELSE "reading",
                                      ![l].at = 0, ![l].left = {}]
        PROVE  \E rd \in {"routing", "exited", "reading"}, b \in Auth \cup {0}, s \in SUBSET Auth :
                 lives' = [lives EXCEPT ![l].reader = rd, ![l].at = b, ![l].left = s]
    BY <2>2
  <2> QED
    BY <2>1, <2>2 DEF Turns
<1> DEFINE r == [lives[l] EXCEPT !.reader = rd, !.at = a, !.left = s]
<1>3. lives' = [lives EXCEPT ![l] = r]
  BY <1>1, <1>2
<1>4. /\ r \in LifeType /\ r.reader = rd /\ r.stop = lives[l].stop /\ r.victim = lives[l].victim
      /\ r.queue = lives[l].queue /\ r.waiting = lives[l].waiting /\ r.call = lives[l].call
      /\ r.closed = lives[l].closed
  <2>1. rd \in Readers
    BY DEF Readers
  <2> QED
    <3>1. PICK R \in LifeType : R = lives[l]
      BY <1>1
    <3>2. r = [R EXCEPT !.reader = rd, !.at = a, !.left = s]
      BY <3>1
    <3> HIDE DEF r
    <3> QED
      BY <2>1, <3>1, <3>2 DEF LifeType, Readers
<1> HIDE DEF r
<1>5. rd \in Readers \ {"none", "stopping"}
  BY DEF Readers
<1> QED
  BY <1>3, <1>4, <1>5, ReaderMoves DEF SameWork

LEMMA SetReader ==
  ASSUME TypeOK, Numbered, Lines, Threads, MadeGrows, UNCHANGED cmds, NEW l \in Life,
         NEW rd \in {"routing", "sending", "exited"},
         lives[l].reader \in {"reading", "routing", "sending"}, lives' = [lives EXCEPT ![l].reader = rd]
  PROVE  LivesGoOn
<1>1. lives[l] \in LifeType /\ lives \in [Life -> LifeType]
  BY Types
<1> DEFINE r == [lives[l] EXCEPT !.reader = rd]
<1>3. lives' = [lives EXCEPT ![l] = r]
  BY <1>1
<1>4. /\ r \in LifeType /\ r.reader = rd /\ r.stop = lives[l].stop /\ r.victim = lives[l].victim
      /\ r.queue = lives[l].queue /\ r.waiting = lives[l].waiting /\ r.call = lives[l].call
      /\ r.closed = lives[l].closed
  <2>1. rd \in Readers
    BY DEF Readers
  <2> QED
    BY <1>1, <2>1, ReaderSet
<1> HIDE DEF r
<1>5. rd \in Readers \ {"none", "stopping"}
  BY DEF Readers
<1> QED
  BY <1>3, <1>4, <1>5, ReaderMoves DEF SameWork

\* The reader that fails, and force_close.
LEMMA DetachAllLives ==
  ASSUME TypeOK, Numbered, Lines, Threads, MadeGrows, UNCHANGED cmds, entry # 0, NEW v \in Life \cup {0},
         DetachAll(v), v # 0 => lives[v].reader = "reading"
  PROVE  LivesGoOn
<1>1. \A l \in Life : lives'[l] =
        [lives[l] EXCEPT !.stop = IF l = entry THEN "detached" ELSE @,
                         !.victim = IF l = v THEN entry ELSE @,
                         !.reader = IF l = v THEN "stopping" ELSE @]
  BY DEF DetachAll
<1>2. lives' = [l \in Life |-> lives'[l]]
  BY DEF DetachAll
<1>3. ASSUME NEW l \in Life
      PROVE  /\ lives'[l] \in LifeType /\ SameWork(l, lives'[l])
             /\ lives'[l].stop = IF l = entry THEN "detached" ELSE lives[l].stop
             /\ lives'[l].victim = IF l = v THEN entry ELSE lives[l].victim
             /\ lives'[l].reader = IF l = v THEN "stopping" ELSE lives[l].reader
  <2>1. lives[l] \in LifeType /\ entry \in Life
    BY Types
  <2> DEFINE st == IF l = entry THEN "detached" ELSE lives[l].stop
             vi == IF l = v THEN entry ELSE lives[l].victim
             rd == IF l = v THEN "stopping" ELSE lives[l].reader
  <2>2. st \in Stops /\ vi \in Life \cup {0} /\ rd \in Readers
    BY <2>1 DEF Stops, Readers, LifeType
  <2>3. lives'[l] = [lives[l] EXCEPT !.stop = st, !.victim = vi, !.reader = rd]
    BY <1>1
  <2> HIDE DEF st, vi, rd
  <2>4. /\ lives'[l] \in LifeType /\ lives'[l].stop = st /\ lives'[l].victim = vi /\ lives'[l].reader = rd
        /\ lives'[l].queue = lives[l].queue /\ lives'[l].waiting = lives[l].waiting
        /\ lives'[l].call = lives[l].call /\ lives'[l].closed = lives[l].closed
    <3>1. PICK R \in LifeType : R = lives[l]
      BY <2>1
    <3>2. lives'[l] = [R EXCEPT !.stop = st, !.victim = vi, !.reader = rd]
      BY <2>3, <3>1
    <3> QED
      <4>1. lives'[l] \in LifeType
        <5>1. PICK Q \in LifeType : Q = [R EXCEPT !.stop = st]
          BY <2>2 DEF LifeType, Stops
        <5>2. PICK P \in LifeType : P = [Q EXCEPT !.victim = vi]
          BY <2>2 DEF LifeType
        <5>3. lives'[l] = [P EXCEPT !.reader = rd]
          BY <3>2, <5>1, <5>2
        <5> QED
          BY <2>2, <5>3, ReaderSet
      <4>2. lives'[l].stop = st /\ lives'[l].victim = vi /\ lives'[l].reader = rd
        BY <2>2, <3>1, <3>2 DEF LifeType
      <4>3. /\ lives'[l].queue = R.queue /\ lives'[l].waiting = R.waiting
            /\ lives'[l].call = R.call /\ lives'[l].closed = R.closed
        BY <2>2, <3>1, <3>2 DEF LifeType
      <4> QED
        BY <3>1, <4>1, <4>2, <4>3
  <2> QED
    BY <2>4 DEF SameWork, st, vi, rd
<1>4. lives' \in [Life -> LifeType]
  BY <1>2, <1>3
<1>5. ASSUME NEW l \in Life PROVE RecordGoesOn(l, lives'[l])
  <2>1. RecordGoesOn(l, lives[l])
    BY RecordStays
  <2>2. l = v => lives[l].reader = "reading" /\ lives[l].victim = 0 /\ v # 0
    BY DEF Threads, Life
  <2>3. ~(v # 0 /\ v > made'.lives) /\ ~(entry > made'.lives)
    <3>1. entry \in Nat /\ v \in Nat
      BY Types DEF Life
    <3>3. made.lives \in Nat /\ made'.lives \in Nat /\ made.lives <= made'.lives
      BY Numbers DEF MadeGrows, Bounded
    <3>2. entry <= made.lives /\ (v # 0 => ~(v > made.lives))
      BY DEF Numbered
    <3> QED
      BY <3>1, <3>2, <3>3
  <2> QED
    BY <1>3, <2>1, <2>2, <2>3 DEF RecordGoesOn, SameWork
<1>6. \A k \in Cmd : SameUse(k)
  BY DEF SameUse
<1> QED
  BY <1>3, <1>4, <1>5, <1>6, Bystander

LEMMA DetachLives ==
  ASSUME TypeOK, Numbered, Lines, Threads, MadeGrows, UNCHANGED cmds, entry # 0, NEW c \in Client, NEW as,
         Detach(c, as)
  PROVE  LivesGoOn
<1>1. entry \in Life /\ lives \in [Life -> LifeType]
  BY Types
<1> DEFINE r == [lives[entry] EXCEPT !.stop = "detached", !.stopper = c]
<1>2. lives' = [lives EXCEPT ![entry] = r]
  BY <1>1 DEF Detach
<1>3. /\ r \in LifeType /\ r.reader = lives[entry].reader /\ r.stop = "detached" /\ r.victim = lives[entry].victim
      /\ r.queue = lives[entry].queue /\ r.waiting = lives[entry].waiting /\ r.call = lives[entry].call
      /\ r.closed = lives[entry].closed
  <2>1. "detached" \in Stops /\ c \in Client \cup {None} /\ lives[entry] \in LifeType
    BY <1>1 DEF Stops
  <2> QED
    <3>1. PICK R \in LifeType : R = lives[entry]
      BY <2>1
    <3>2. r = [R EXCEPT !.stop = "detached", !.stopper = c]
      BY <3>1
    <3> HIDE DEF r
    <3> QED
      BY <2>1, <3>1, <3>2 DEF LifeType, Stops
<1> HIDE DEF r
<1>4. ~(entry > made'.lives)
  <2>1. entry \in Nat
    BY <1>1 DEF Life
  <2>2. made.lives \in Nat /\ made'.lives \in Nat /\ made.lives <= made'.lives
    BY Numbers DEF MadeGrows, Bounded
  <2> QED
    BY <2>1, <2>2 DEF Numbered
<1>5. RecordGoesOn(entry, r) /\ SameWork(entry, r)
  <2>1. RecordGoesOn(entry, lives[entry])
    BY <1>1, RecordStays
  <2> QED
    BY <1>3, <1>4, <2>1 DEF RecordGoesOn, SameWork
<1>6. PICK l \in Life : l = entry
  BY <1>1
<1> QED
  BY <1>2, <1>3, <1>5, <1>6, QuietLife

LEMMA OpenLives ==
  ASSUME TypeOK, Numbered, Lines, Threads, AuthorityGoesOn, NEW c \in Client, Open(c)
  PROVE  LivesGoOn
<1>1. MadeGrows /\ entry' <= made'.lives /\ UNCHANGED cmds
  BY DEF AuthorityGoesOn, AuthorityNumbers, Open
<1>2. CASE UNCHANGED lives
  <2>1. \A k \in Cmd : SameUse(k)
    BY <1>1 DEF SameUse
  <2> QED
    BY <1>1, <1>2, <2>1, QuietLives
<1>3. ASSUME made.lives < bound.lives, entry' = made.lives + 1,
             lives' = [lives EXCEPT ![made.lives + 1].reader = "reading"]
      PROVE  LivesGoOn
  <2>1. made.lives \in Nat /\ bound.lives \in 0..MaxLives /\ MaxLives \in Nat
    BY Numbers, LimitAssumption
  <2>2. PICK n \in Life : n = made.lives + 1 /\ n > made.lives
    BY <1>3, <2>1 DEF Life
  <2>3. lives[n].reader = "none" /\ lives[n].victim = 0 /\ lives[n].stop = "no"
    <3>1. lives[n].reader = "none" /\ lives[n].stop = "no"
      BY <2>2 DEF Numbered
    <3> QED
      BY <3>1 DEF Threads
  <2> DEFINE r == [lives[n] EXCEPT !.reader = "reading"]
  <2>4. lives[n] \in LifeType /\ lives' = [lives EXCEPT ![n] = r]
    BY <1>3, <2>2, Types
  <2>5. /\ r \in LifeType /\ r.reader = "reading" /\ r.stop = lives[n].stop /\ r.victim = lives[n].victim
        /\ r.queue = lives[n].queue /\ r.waiting = lives[n].waiting /\ r.call = lives[n].call
        /\ r.closed = lives[n].closed
    <3>1. "reading" \in Readers
      BY DEF Readers
    <3> QED
      BY <2>4, <3>1, ReaderSet
  <2> HIDE DEF r
  <2>6. ~(n > made'.lives)
    <3>1. n \in Nat /\ made'.lives \in Nat
      BY <1>1 DEF Life, MadeGrows, Bounded
    <3> QED
      BY <1>1, <1>3, <2>2, <3>1
  <2>7. RecordGoesOn(n, r) /\ SameWork(n, r)
    BY <2>3, <2>5, <2>6 DEF RecordGoesOn, SameWork
  <2> QED
    BY <1>1, <2>4, <2>5, <2>7, QuietLife
<1> QED
  BY <1>2, <1>3 DEF Open

LEMMA SignalLives ==
  ASSUME TypeOK, Numbered, Lines, Threads, MadeGrows, UNCHANGED cmds, NEW l \in Life, Signal(l)
  PROVE  LivesGoOn
<1> DEFINE r == [lives[l] EXCEPT !.stopped = TRUE, !.stop = "signalled"]
<1>1. lives[l] \in LifeType /\ lives' = [lives EXCEPT ![l] = r] /\ lives[l].stop = "detached"
  BY Types DEF Signal
<1>2. /\ r \in LifeType /\ r.reader = lives[l].reader /\ r.stop = "signalled" /\ r.victim = lives[l].victim
      /\ r.queue = lives[l].queue /\ r.waiting = lives[l].waiting /\ r.call = lives[l].call
      /\ r.closed = lives[l].closed
  <2>1. "signalled" \in Stops
    BY DEF Stops
  <2> QED
    BY <1>1, <2>1, StoppedSet
<1> HIDE DEF r
<1>3. RecordGoesOn(l, lives[l])
  BY RecordStays
<1>4. RecordGoesOn(l, r) /\ SameWork(l, r)
  BY <1>1, <1>2, <1>3 DEF RecordGoesOn, SameWork
<1> QED
  BY <1>1, <1>2, <1>4, QuietLife

LEMMA JoinLives ==
  ASSUME TypeOK, Numbered, Lines, Threads, MadeGrows, UNCHANGED cmds, NEW l \in Life, JoinThreads(l)
  PROVE  LivesGoOn
<1>1. /\ lives[l].stop = "asked" /\ ReaderJoined(l) /\ lives[l].closed
      /\ lives' = [r \in Life |-> [lives[r] EXCEPT !.stop = IF r = l THEN "done" ELSE @,
                                                  !.reader = IF lives[r].victim = l THEN "exited" ELSE @]]
  BY DEF JoinThreads, Joined
<1>2. ASSUME NEW r \in Life
      PROVE  /\ lives'[r] \in LifeType /\ SameWork(r, lives'[r])
             /\ lives'[r].stop = (IF r = l THEN "done" ELSE lives[r].stop)
             /\ lives'[r].reader = (IF lives[r].victim = l THEN "exited" ELSE lives[r].reader)
             /\ lives'[r].victim = lives[r].victim
  <2> DEFINE st == IF r = l THEN "done" ELSE lives[r].stop
             rd == IF lives[r].victim = l THEN "exited" ELSE lives[r].reader
  <2>1. lives[r] \in LifeType
    BY Types
  <2>2. st \in Stops /\ rd \in Readers
    BY <2>1 DEF Stops, Readers, LifeType
  <2>3. lives'[r] = [lives[r] EXCEPT !.stop = st, !.reader = rd]
    BY <1>1
  <2> HIDE DEF st, rd
  <2>4. /\ lives'[r] \in LifeType /\ lives'[r].stop = st /\ lives'[r].reader = rd
        /\ lives'[r].victim = lives[r].victim
        /\ lives'[r].queue = lives[r].queue /\ lives'[r].waiting = lives[r].waiting
        /\ lives'[r].call = lives[r].call /\ lives'[r].closed = lives[r].closed
    <3>1. PICK R \in LifeType : R = lives[r]
      BY <2>1
    <3>2. lives'[r] = [R EXCEPT !.stop = st, !.reader = rd]
      BY <2>3, <3>1
    <3>3. lives'[r] \in LifeType /\ lives'[r].stop = st /\ lives'[r].reader = rd
      <4>1. PICK Q \in LifeType : Q = [R EXCEPT !.stop = st]
        BY <2>2 DEF LifeType, Stops
      <4>2. lives'[r] = [Q EXCEPT !.reader = rd]
        BY <3>2, <4>1
      <4>3. lives'[r] \in LifeType
        BY <2>2, <4>2, ReaderSet
      <4>4. lives'[r].stop = st /\ lives'[r].reader = rd
        BY <3>2 DEF LifeType
      <4> QED
        BY <4>3, <4>4
    <3>4. /\ lives'[r].queue = R.queue /\ lives'[r].waiting = R.waiting /\ lives'[r].victim = R.victim
          /\ lives'[r].call = R.call /\ lives'[r].closed = R.closed
      BY <2>2, <3>2 DEF LifeType
    <3> QED
      BY <3>1, <3>3, <3>4
  <2> QED
    BY <2>4 DEF SameWork, st, rd
<1>3. lives' \in [Life -> LifeType]
  BY <1>1, <1>2
<1>4. ASSUME NEW r \in Life PROVE RecordGoesOn(r, lives'[r])
  <2>1. RecordGoesOn(r, lives[r])
    BY RecordStays
  <2>2. lives[r].victim = l => lives[r].reader \in {"stopping", "exited"}
    BY DEF Threads, Life
  <2> QED
    <3>1. /\ lives'[r].victim = lives[r].victim
          /\ lives[r].reader = "exited" => lives'[r].reader = "exited"
          /\ lives[r].victim # 0 => lives'[r].reader \in {"stopping", "exited"}
          /\ lives[r].closed => lives'[r].closed
      BY <1>2, <2>1 DEF RecordGoesOn, SameWork
    <3>2. lives'[r].stop = "done" => lives[r].stop = "done" \/ (lives[r].closed /\ ReaderJoined(r))
      BY <1>1, <1>2
    <3>3. r > made'.lives => lives'[r].reader = "none" /\ lives'[r].stop = "no"
      <4> HAVE r > made'.lives
      <4>1. lives[r].reader = "none" /\ lives[r].stop = "no"
        BY <2>1 DEF RecordGoesOn
      <4>2. r # l /\ lives[r].victim # l
        BY <1>1, <2>2, <4>1
      <4> QED
        BY <1>2, <4>1, <4>2
    <3> QED
      BY <3>1, <3>2, <3>3 DEF RecordGoesOn
<1>5. \A k \in Cmd : SameUse(k)
  BY DEF SameUse
<1> QED
  BY <1>2, <1>3, <1>4, <1>5, Bystander

LEMMA NewCmdUse ==
  ASSUME TypeOK, Numbered, NEW a, NEW l, NEW st \in {"checked", "looked"}, NewCmd(a, l, st)
  PROVE  \A k \in Cmd : SameUse(k)
<1>1. made.cmds \in Nat /\ made.cmds < bound.cmds /\ bound.cmds \in 0..MaxCommands /\ MaxCommands \in Nat
  BY Numbers, LimitAssumption DEF NewCmd
<1>2. PICK n \in Cmd : n = made.cmds + 1 /\ n > made.cmds
  BY <1>1 DEF Cmd
<1>3. cmds[n].st = "none"
  BY <1>2 DEF Numbered
<1>4. cmds'[n].st = st /\ \A k \in Cmd \ {n} : cmds'[k] = cmds[k]
  BY <1>2, Types DEF NewCmd
<1> QED
  BY <1>3, <1>4 DEF SameUse

\* The steps that leave workers and lines alone.
LEMMA QuietSteps ==
  ASSUME TypeOK, Numbered, Authority, Commands, Lines, Threads, AuthorityGoesOn,
         \/ ForceClose
         \/ \E c \in Client :
              \/ Open(c) \/ TransportConnect(c) \/ SetDataplaneMode(c) \/ Close(c)
              \/ AskNm(c) \/ Reply(c) \/ Writes(c) \/ WriteFails(c) \/ Leave(c)
         \/ \E a \in Auth : AskTransport(a)
         \/ \E k \in Cmd : LookUp(k) \/ TransportReplies(k)
         \/ \E l \in Life : \/ Signal(l) \/ JoinThreads(l) \/ ReaderStops(l) \/ ReaderReads(l)
                            \/ ReaderFails(l) \/ RouteChecks(l) \/ RouteSends(l)
  PROVE  LivesGoOn
<1>1. MadeGrows
  BY DEF AuthorityGoesOn
<1>2. ASSUME UNCHANGED <<lives, cmds>> PROVE LivesGoOn
  BY <1>1, <1>2, QuietLives DEF SameUse
<1>3. CASE ForceClose
  BY <1>1, <1>3, DetachAllLives DEF ForceClose
<1>4. ASSUME NEW c \in Client, Close(c) PROVE LivesGoOn
  <2>1. CASE UNCHANGED lives
    BY <1>2, <1>4, <2>1 DEF Close
  <2>2. CASE Detach(c, {cap[c]})
    <3>1. entry # 0 /\ UNCHANGED cmds
      BY <1>4 DEF Close, Authority
    <3> QED
      BY <1>1, <2>2, <3>1, DetachLives
  <2> QED
    BY <1>4, <2>1, <2>2 DEF Close
<1>5. ASSUME NEW c \in Client, AskNm(c) PROVE LivesGoOn
  <2>1. NewCmd(hot[c], auth[hot[c]].life, "looked") /\ UNCHANGED lives
    BY <1>5 DEF AskNm
  <2>2. \A k \in Cmd : SameUse(k)
    BY <2>1, NewCmdUse
  <2> QED
    BY <1>1, <2>1, <2>2, QuietLives
<1>6. ASSUME NEW a \in Auth, AskTransport(a) PROVE LivesGoOn
  <2>1. NewCmd(a, 0, "checked") /\ UNCHANGED lives
    BY <1>6 DEF AskTransport
  <2>2. \A k \in Cmd : SameUse(k)
    BY <2>1, NewCmdUse
  <2> QED
    BY <1>1, <2>1, <2>2, QuietLives
<1>7. ASSUME NEW c \in Client, Reply(c) PROVE LivesGoOn
  <2>1. /\ UNCHANGED lives
        /\ \A k \in Cmd : cmds'[k] = cmds[k] \/ (cmds[k].st = "answered" /\ cmds'[k] = Over)
    BY <1>7 DEF Reply
  <2>2. \A k \in Cmd : SameUse(k)
    BY <2>1 DEF SameUse, Over
  <2> QED
    BY <1>1, <2>1, <2>2, QuietLives
<1>8. ASSUME NEW k \in Cmd, LookUp(k) PROVE LivesGoOn
  <2>1. /\ UNCHANGED lives /\ cmds[k].st = "checked" /\ cmds'[k].st \in {"answered", "looked"}
        /\ \A j \in Cmd \ {k} : cmds'[j] = cmds[j]
    BY <1>8, Types DEF LookUp, CmdType
  <2>2. \A j \in Cmd : SameUse(j)
    BY <2>1 DEF SameUse
  <2> QED
    BY <1>1, <2>1, <2>2, QuietLives
<1>9. ASSUME NEW k \in Cmd, TransportReplies(k) PROVE LivesGoOn
  <2>1. /\ UNCHANGED lives /\ cmds[k].st = "answered" /\ cmds'[k] = Over
        /\ \A j \in Cmd \ {k} : cmds'[j] = cmds[j]
    BY <1>9, Types DEF TransportReplies
  <2>2. \A j \in Cmd : SameUse(j)
    BY <2>1 DEF SameUse, Over
  <2> QED
    BY <1>1, <2>1, <2>2, QuietLives
<1>10. ASSUME NEW l \in Life, ReaderStops(l) PROVE LivesGoOn
  <2>1. lives[l].reader = "reading" /\ Turns(l, {}) /\ UNCHANGED cmds /\ {} \in SUBSET Auth
    BY <1>10 DEF ReaderStops
  <2> QED
    BY <1>1, <2>1, TurnsStep
<1>11. ASSUME NEW l \in Life, ReaderReads(l) PROVE LivesGoOn
  <2> DEFINE as == {hot[c] : c \in Client} \ {0}
  <2>1. lives[l].reader = "reading" /\ Turns(l, as) /\ UNCHANGED cmds
    BY <1>11 DEF ReaderReads
  <2>2. as \in SUBSET Auth
    BY DEF TypeOK
  <2> HIDE DEF as
  <2> QED
    BY <1>1, <2>1, <2>2, TurnsStep
<1>12. ASSUME NEW l \in Life, ReaderFails(l) PROVE LivesGoOn
  <2>1. lives[l].reader = "reading" /\ UNCHANGED cmds
    BY <1>12 DEF ReaderFails
  <2>2. CASE entry # 0 /\ DetachAll(l)
    BY <1>1, <2>1, <2>2, DetachAllLives
  <2>3. CASE lives' = [lives EXCEPT ![l].reader = "exited"]
    BY <1>1, <2>1, <2>3, SetReader
  <2> QED
    BY <1>12, <2>2, <2>3 DEF ReaderFails
<1>13. ASSUME NEW l \in Life, RouteChecks(l) PROVE LivesGoOn
  <2>1. lives[l].reader = "routing" /\ UNCHANGED cmds /\ lives[l].left \in SUBSET Auth
    BY <1>13, Types DEF RouteChecks, LifeType
  <2>2. CASE lives' = [lives EXCEPT ![l].reader = "sending"]
    BY <1>1, <2>1, <2>2, SetReader
  <2>3. CASE Turns(l, lives[l].left)
    <3>1. PICK as \in SUBSET Auth : as = lives[l].left
      BY <2>1
    <3> QED
      BY <1>1, <2>1, <2>3, <3>1, TurnsStep
  <2> QED
    BY <1>13, <2>2, <2>3 DEF RouteChecks
<1>14. ASSUME NEW l \in Life, RouteSends(l) PROVE LivesGoOn
  <2>1. lives[l].reader = "sending" /\ UNCHANGED cmds /\ lives[l].left \in SUBSET Auth
    BY <1>14, Types DEF RouteSends, LifeType
  <2>2. CASE lives' = [lives EXCEPT ![l].reader = "routing"]
    BY <1>1, <2>1, <2>2, SetReader
  <2>3. CASE Turns(l, lives[l].left)
    <3>1. PICK as \in SUBSET Auth : as = lives[l].left
      BY <2>1
    <3> QED
      BY <1>1, <2>1, <2>3, <3>1, TurnsStep
  <2> QED
    BY <1>14, <2>2, <2>3 DEF RouteSends
<1>15. \A l \in Life : Signal(l) \/ JoinThreads(l) => UNCHANGED cmds
  BY DEF Signal, JoinThreads
<1>16. \A c \in Client : TransportConnect(c) \/ SetDataplaneMode(c) \/ Writes(c) \/ WriteFails(c) \/ Leave(c)
                         => UNCHANGED <<lives, cmds>>
  BY DEF TransportConnect, SetDataplaneMode, Writes, WriteFails, Leave
<1> QED
  BY <1>1, <1>2, <1>3, <1>4, <1>5, <1>6, <1>7, <1>8, <1>9, <1>10, <1>11, <1>12, <1>13, <1>14, <1>15, <1>16,
     OpenLives, SignalLives, JoinLives

-----------------------------------------------------------------------------
(* Lines, as sequences *)

LEMMA HeadAndTail ==
  ASSUME NEW S, NEW q \in Seq(S), q # <<>>
  PROVE  /\ Head(q) \in S /\ Tail(q) \in Seq(S) /\ <<Head(q)>> \in Seq(S)
         /\ q = <<Head(q)>> \o Tail(q)
<1> DEFINE h == <<Head(q)>>
           t == Tail(q)
<1>1. /\ Head(q) \in S /\ t \in Seq(S) /\ Len(t) = Len(q) - 1
      /\ \A i \in 1..Len(t) : t[i] = q[i + 1]
  BY HeadTailProperties
<1>2. h \in Seq(S) /\ Len(h) = 1 /\ h[1] = q[1]
  BY <1>1
<1>3. PICK n \in Nat : n = Len(q) /\ n > 0
  BY EmptySeq
<1> HIDE DEF h, t
<1>4. /\ h \o t \in Seq(S) /\ Len(h \o t) = n
      /\ \A i \in 1..n : (h \o t)[i] = IF i <= 1 THEN h[i] ELSE t[i - 1]
  <2>1. /\ h \o t \in Seq(S) /\ Len(h \o t) = Len(h) + Len(t)
        /\ \A i \in 1..Len(h) + Len(t) : (h \o t)[i] = IF i <= Len(h) THEN h[i] ELSE t[i - Len(h)]
    <3>1. h \in Seq(S) /\ t \in Seq(S)
      BY <1>1, <1>2
    <3> QED
      BY <3>1, ConcatProperties
  <2>2. Len(h) + Len(t) = n /\ Len(h) = 1
    BY <1>1, <1>2, <1>3
  <2> QED
    BY <2>1, <2>2
<1>5. ASSUME NEW i \in 1..n PROVE (h \o t)[i] = q[i]
  <2>1. CASE i = 1
    BY <1>2, <1>4, <2>1
  <2>2. CASE i # 1
    <3>1. i - 1 \in 1..n - 1 /\ ~(i <= 1) /\ i - 1 + 1 = i /\ Len(t) = n - 1
      BY <1>1, <1>3, <2>2
    <3>2. t[i - 1] = q[i]
      BY <1>1, <3>1
    <3> QED
      BY <1>4, <3>1, <3>2
  <2> QED
    BY <2>1, <2>2
<1>6. h \o t = q
  BY <1>3, <1>4, <1>5, SeqEqual
<1> QED
  BY <1>1, <1>2, <1>6 DEF h, t

LEMMA TailOfConcat ==
  ASSUME NEW S, NEW q \in Seq(S), NEW w \in Seq(S), q # <<>>
  PROVE  q \o w # <<>> /\ Tail(q \o w) = Tail(q) \o w
<1> DEFINE x == q \o w
           t == Tail(q)
           y == t \o w
<1>1. PICK n \in Nat, m \in Nat : n = Len(q) /\ m = Len(w) /\ n > 0
  BY EmptySeq
<1>2. /\ x \in Seq(S) /\ Len(x) = n + m
      /\ \A i \in 1..n + m : x[i] = IF i <= n THEN q[i] ELSE w[i - n]
  BY <1>1, ConcatProperties
<1>3. t \in Seq(S) /\ Len(t) = n - 1 /\ \A i \in 1..n - 1 : t[i] = q[i + 1]
  BY <1>1, HeadTailProperties
<1> HIDE DEF x, t
<1>4. x # <<>> /\ Tail(x) \in Seq(S) /\ Len(Tail(x)) = n + m - 1 /\ \A i \in 1..n + m - 1 : Tail(x)[i] = x[i + 1]
  <2>1. x # <<>>
    BY <1>1, <1>2, EmptySeq
  <2>2. /\ Tail(x) \in Seq(S) /\ Len(Tail(x)) = Len(x) - 1
        /\ \A i \in 1..Len(Tail(x)) : Tail(x)[i] = x[i + 1]
    BY <1>2, <2>1, HeadTailProperties
  <2> QED
    BY <1>2, <2>1, <2>2
<1>5. /\ y \in Seq(S) /\ Len(y) = n - 1 + m
      /\ \A i \in 1..n - 1 + m : y[i] = IF i <= n - 1 THEN t[i] ELSE w[i - (n - 1)]
  <2>1. /\ y \in Seq(S) /\ Len(y) = Len(t) + Len(w)
        /\ \A i \in 1..Len(t) + Len(w) : y[i] = IF i <= Len(t) THEN t[i] ELSE w[i - Len(t)]
    BY <1>3, ConcatProperties
  <2> HIDE DEF y
  <2> QED
    BY <1>1, <1>3, <2>1
<1> HIDE DEF y
<1>6. ASSUME NEW i \in 1..n + m - 1 PROVE Tail(x)[i] = y[i]
  <2>1. i + 1 \in 1..n + m /\ i \in 1..n - 1 + m /\ Tail(x)[i] = x[i + 1]
    BY <1>1, <1>4
  <2>2. CASE i <= n - 1
    <3>1. i + 1 <= n /\ i \in 1..n - 1
      BY <1>1, <2>2
    <3> QED
      BY <1>2, <1>3, <1>5, <2>1, <2>2, <3>1
  <2>3. CASE ~(i <= n - 1)
    <3>1. ~(i + 1 <= n) /\ i + 1 - n = i - (n - 1)
      BY <1>1, <2>3
    <3>2. x[i + 1] = w[i + 1 - n]
      BY <1>2, <2>1, <3>1
    <3>3. y[i] = w[i - (n - 1)]
      BY <1>5, <2>1, <2>3
    <3> QED
      BY <2>1, <3>1, <3>2, <3>3
  <2> QED
    BY <2>2, <2>3
<1>7. Len(y) = n + m - 1
  BY <1>1, <1>5
<1>8. Tail(x) = y
  BY <1>4, <1>5, <1>6, <1>7, SeqEqual
<1> QED
  BY <1>4, <1>8 DEF x, y, t

\* The head leaves, and the first that waits comes in.
LEMMA Shifted ==
  ASSUME NEW S, NEW q \in Seq(S), NEW w \in Seq(S), q # <<>>
  PROVE  LET p == IF w = <<>> THEN Tail(q) ELSE Append(Tail(q), Head(w))
             v == IF w = <<>> THEN w ELSE Tail(w)
         IN  p \in Seq(S) /\ v \in Seq(S) /\ p \o v = Tail(q \o w)
<1>1. Tail(q) \in Seq(S) /\ Tail(q \o w) = Tail(q) \o w
  BY HeadAndTail, TailOfConcat
<1>2. CASE w = <<>>
  BY <1>1, <1>2
<1>3. CASE w # <<>>
  <2>1. Head(w) \in S /\ Tail(w) \in Seq(S) /\ <<Head(w)>> \in Seq(S) /\ w = <<Head(w)>> \o Tail(w)
    BY <1>3, HeadAndTail
  <2>2. Append(Tail(q), Head(w)) \in Seq(S) /\ Append(Tail(q), Head(w)) = Tail(q) \o <<Head(w)>>
    BY <1>1, <2>1, AppendProperties, AppendIsConcat
  <2>3. (Tail(q) \o <<Head(w)>>) \o Tail(w) = Tail(q) \o (<<Head(w)>> \o Tail(w))
    BY <1>1, <2>1, ConcatAssociative
  <2> QED
    BY <1>1, <1>3, <2>1, <2>2, <2>3
<1> QED
  BY <1>2, <1>3

\* One more comes in, or waits behind those that wait.
LEMMA Lengthened ==
  ASSUME NEW S, NEW q \in Seq(S), NEW w \in Seq(S), NEW k \in S
  PROVE  /\ w = <<>> => Append(q, k) \o w = Append(q \o w, k)
         /\ q \o Append(w, k) = Append(q \o w, k)
<1>1. q \o Append(w, k) = Append(q \o w, k)
  <2>1. <<k>> \in Seq(S) /\ Append(w, k) = w \o <<k>> /\ q \o w \in Seq(S)
    BY AppendIsConcat, ConcatProperties
  <2>2. Append(q \o w, k) = (q \o w) \o <<k>>
    BY <2>1, AppendIsConcat
  <2> QED
    BY <2>1, <2>2, ConcatAssociative
<1>2. w = <<>> => Append(q, k) \o w = Append(q \o w, k)
  <2>1. Append(q, k) \in Seq(S) /\ q \o <<>> = q /\ Append(q, k) \o <<>> = Append(q, k)
    BY AppendProperties, ConcatEmptySeq
  <2> QED
    BY <2>1
<1> QED
  BY <1>1, <1>2

\* One of those that wait leaves.
LEMMA Shortened ==
  ASSUME NEW S, NEW w \in Seq(S), NEW j \in 1..Len(w)
  PROVE  LET v == RemoveAt(w, j)
         IN  /\ v \in Seq(S) /\ Len(v) = Len(w) - 1
             /\ \A i \in 1..Len(w) - 1 : v[i] = IF i < j THEN w[i] ELSE w[i + 1]
<1> DEFINE n == Len(w)
           a == SubSeq(w, 1, j - 1)
           b == SubSeq(w, j + 1, n)
<1>1. n \in Nat /\ j \in 1..n /\ j \in Nat /\ \A i \in 1..n : w[i] \in S
  BY LenProperties, ElementOfSeq
<1> HIDE DEF n
<1>2. a \in Seq(S) /\ Len(a) = j - 1 /\ \A i \in 1..j - 1 : a[i] = w[i]
  <2>1. 1 \in Int /\ j - 1 \in Int /\ \A i \in 1..j - 1 : w[i] \in S
    BY <1>1
  <2>2. /\ a \in Seq(S) /\ Len(a) = (IF 1 <= j - 1 THEN j - 1 - 1 + 1 ELSE 0)
        /\ \A i \in 1..j - 1 - 1 + 1 : a[i] = w[1 + i - 1]
    BY <2>1, SubSeqProperties
  <2> HIDE DEF a
  <2> QED
    BY <1>1, <2>2
<1>3. b \in Seq(S) /\ Len(b) = n - j /\ \A i \in 1..n - j : b[i] = w[i + j]
  <2>1. j + 1 \in Int /\ n \in Int /\ \A i \in j + 1..n : w[i] \in S
    BY <1>1
  <2>2. /\ b \in Seq(S) /\ Len(b) = (IF j + 1 <= n THEN n - (j + 1) + 1 ELSE 0)
        /\ \A i \in 1..n - (j + 1) + 1 : b[i] = w[(j + 1) + i - 1]
    BY <2>1, SubSeqProperties
  <2> HIDE DEF b
  <2>3. ASSUME NEW i \in 1..n - j PROVE b[i] = w[i + j]
    <3>1. i \in 1..n - (j + 1) + 1 /\ (j + 1) + i - 1 = i + j
      BY <1>1
    <3> QED
      BY <2>2, <3>1
  <2> QED
    BY <1>1, <2>2, <2>3
<1>4. RemoveAt(w, j) = a \o b
  BY DEF RemoveAt, n
<1> HIDE DEF a, b
<1>5. /\ a \o b \in Seq(S) /\ Len(a \o b) = n - 1
      /\ \A i \in 1..n - 1 : (a \o b)[i] = IF i <= j - 1 THEN a[i] ELSE b[i - (j - 1)]
  <2>1. /\ a \o b \in Seq(S) /\ Len(a \o b) = Len(a) + Len(b)
        /\ \A i \in 1..Len(a) + Len(b) : (a \o b)[i] = IF i <= Len(a) THEN a[i] ELSE b[i - Len(a)]
    BY <1>2, <1>3, ConcatProperties
  <2>2. Len(a) + Len(b) = n - 1
    BY <1>1, <1>2, <1>3
  <2> QED
    BY <1>1, <1>2, <2>1, <2>2
<1>6. ASSUME NEW i \in 1..n - 1 PROVE (a \o b)[i] = IF i < j THEN w[i] ELSE w[i + 1]
  <2>1. CASE i < j
    <3>1. i \in 1..j - 1 /\ i <= j - 1
      BY <1>1, <2>1
    <3> QED
      BY <1>2, <1>5, <2>1, <3>1
  <2>2. CASE ~(i < j)
    <3>1. i - (j - 1) \in 1..n - j /\ ~(i <= j - 1) /\ i - (j - 1) + j = i + 1
      BY <1>1, <2>2
    <3> QED
      BY <1>3, <1>5, <2>2, <3>1
  <2> QED
    BY <2>1, <2>2
<1> QED
  BY <1>4, <1>5, <1>6 DEF n

-----------------------------------------------------------------------------
(* Workers *)

\* Lines and Threads, for one lifetime.
LineServes(l) ==
  \A i \in DOMAIN Line(l) : Line(l)[i] # Shutdown =>
    /\ cmds[Line(l)[i]].st = "sent" /\ cmds[Line(l)[i]].life = l
    /\ \A j \in DOMAIN Line(l) : Line(l)[j] = Line(l)[i] => j = i

WorkerServes(l) ==
  /\ lives[l].call # 0 => cmds[lives[l].call].st \in {"received", "accepted", "running"} /\ cmds[lives[l].call].life = l
  /\ lives[l].closed => /\ lives[l].call = 0 /\ lives[l].queue = <<>> /\ lives[l].waiting = <<>>
                        /\ \A k \in Cmd : cmds[k].life = l => cmds[k].st # "sent"
  /\ \A k \in Cmd : cmds[k].st \in {"received", "accepted", "running"} /\ cmds[k].life = l => lives[l].call = k

LEMMA AllServe ==
  ASSUME TypeOK, Lines, Threads, NEW l \in Life
  PROVE  LineServes(l) /\ WorkerServes(l)
<1>1. LineServes(l)
  BY DEF Lines, LineServes
<1>2. l # 0
  BY DEF Life
<1> QED
  BY <1>1, <1>2 DEF Threads, WorkerServes

\* The step concerns the worker or the line of l alone.
LEMMA OneWorker ==
  ASSUME TypeOK, Numbered, Commands, Commands', Lines, Threads, MadeGrows, cmds' \in [Cmd -> CmdType],
         NEW l \in Life, NEW r \in LifeType, lives' = [lives EXCEPT ![l] = r], RecordGoesOn(l, r),
         \A k \in Cmd : cmds'[k].life = cmds[k].life /\ (cmds[k].life # l => cmds'[k].st = cmds[k].st),
         LineServes(l)', WorkerServes(l)'
  PROVE  LivesGoOn
<1>1. /\ lives' \in [Life -> LifeType] /\ \A j \in Life \ {l} : lives'[j] = lives[j]
      /\ \A j \in Life : RecordGoesOn(j, lives'[j])
  BY OneLife
<1>2. ASSUME NEW j \in Life, j # l PROVE LineServes(j)' /\ WorkerServes(j)'
  <2>1. LineServes(j) /\ WorkerServes(j) /\ lives'[j] = lives[j]
    BY <1>1, <1>2, AllServe
  <2>2. Line(j)' = Line(j)
    BY <2>1 DEF Line
  <2>3. ASSUME NEW i \in DOMAIN Line(j), Line(j)[i] # Shutdown
        PROVE  cmds'[Line(j)[i]].st = "sent" /\ cmds'[Line(j)[i]].life = j
    <3>1. Line(j)[i] \in Cmd
      <4>1. Line(j) \in Seq(Cmd \cup {0})
        BY LineType
      <4>2. Line(j)[i] \in Cmd \cup {0}
        BY <4>1
      <4> QED
        BY <2>3, <4>2 DEF Shutdown
    <3>2. cmds[Line(j)[i]].st = "sent" /\ cmds[Line(j)[i]].life = j
      BY <2>1, <2>3 DEF LineServes
    <3> QED
      BY <1>2, <3>1, <3>2
  <2>4. LineServes(j)'
    BY <2>1, <2>2, <2>3 DEF LineServes
  <2>5. lives[j].call \in Cmd \cup {0}
    BY DEF TypeOK
  <2>6. WorkerServes(j)'
    BY <1>2, <2>1, <2>5 DEF WorkerServes
  <2> QED
    BY <2>4, <2>6
<1>3. \A j \in Life : LineServes(j)' /\ WorkerServes(j)'
  BY <1>2
<1>4. Lines'
  BY <1>3 DEF Lines, LineServes
<1>5. ASSUME NEW k \in Cmd, cmds'[k].st \in {"received", "accepted", "running"}
      PROVE  cmds'[k].life # 0 /\ lives'[cmds'[k].life].call = k
  <2>1. cmds'[k].life \in Life \cup {0} /\ cmds'[k].life # 0
    BY <1>5 DEF Commands, CmdType
  <2> QED
    BY <1>3, <1>5, <2>1 DEF WorkerServes
<1>6. Threads'
  <2>1. /\ \A j \in Life :
             /\ lives'[j].victim # 0 => lives'[j].reader \in {"stopping", "exited"}
             /\ lives'[j].stop = "done" => lives'[j].closed /\ ReaderJoined(j)'
    BY <1>1, StopsGoOn
  <2> QED
    BY <1>3, <1>5, <2>1 DEF Threads, WorkerServes
<1>7. LifeNumbers'
  BY <1>1, StopsGoOn
<1> QED
  BY <1>1, <1>4, <1>6, <1>7 DEF LivesGoOn

\* Whatever is in a line now was in it before, at another place maybe.
LEMMA LineMoves ==
  ASSUME TypeOK, NEW l \in Life, LineServes(l), NEW f,
         \A i \in DOMAIN Line(l)' : f[i] \in DOMAIN Line(l) /\ Line(l)'[i] = Line(l)[f[i]],
         \A i, j \in DOMAIN Line(l)' : f[i] = f[j] => i = j,
         \A i \in DOMAIN Line(l)' : Line(l)'[i] # Shutdown =>
           cmds'[Line(l)'[i]].st = "sent" /\ cmds'[Line(l)'[i]].life = l
  PROVE  LineServes(l)'
<1>1. ASSUME NEW i \in DOMAIN Line(l)', Line(l)'[i] # Shutdown, NEW j \in DOMAIN Line(l)', Line(l)'[j] = Line(l)'[i]
      PROVE  j = i
  <2>1. /\ f[i] \in DOMAIN Line(l) /\ f[j] \in DOMAIN Line(l)
        /\ Line(l)[f[i]] # Shutdown /\ Line(l)[f[j]] = Line(l)[f[i]]
    BY <1>1
  <2>2. f[j] = f[i]
    BY <2>1 DEF LineServes
  <2> QED
    BY <2>2
<1> QED
  BY <1>1 DEF LineServes

\* The line when its head has been taken.
LEMMA LineTail ==
  ASSUME TypeOK, NEW l \in Life, Receives(l)
  PROVE  /\ Line(l) \in Seq(Cmd \cup {0}) /\ Line(l) # <<>> /\ Tail(Line(l)) \in Seq(Cmd \cup {0})
         /\ DOMAIN Line(l) = 1..Len(Line(l)) /\ DOMAIN Tail(Line(l)) = 1..(Len(Line(l)) - 1)
         /\ Len(Line(l)) \in Nat /\ Len(Line(l)) > 0
         /\ \A i \in 1..(Len(Line(l)) - 1) : Tail(Line(l))[i] = Line(l)[i + 1]
         /\ Line(l)[1] = Head(lives[l].queue)
<1>1. lives[l].queue \in Seq(Cmd \cup {0}) /\ lives[l].queue # <<>> /\ lives[l].waiting \in Seq(Cmd \cup {0})
  BY LineType DEF Receives
<1>2. Line(l) \in Seq(Cmd \cup {0}) /\ Line(l) # <<>>
  BY <1>1, LineType, TailOfConcat DEF Line
<1>3. /\ Tail(Line(l)) \in Seq(Cmd \cup {0}) /\ Len(Tail(Line(l))) = Len(Line(l)) - 1
      /\ \A i \in 1..Len(Tail(Line(l))) : Tail(Line(l))[i] = Line(l)[i + 1]
  BY <1>2, HeadTailProperties
<1>4. Len(Line(l)) \in Nat /\ Len(Line(l)) > 0
  BY <1>2, EmptySeq
<1>5. DOMAIN Line(l) = 1..Len(Line(l)) /\ DOMAIN Tail(Line(l)) = 1..Len(Tail(Line(l)))
  BY <1>2, <1>3, LenProperties
<1>6. Line(l)[1] = Head(lives[l].queue)
  <2>1. Len(lives[l].queue) \in Nat \ {0} /\ \A i \in 1..Len(lives[l].queue) : Line(l)[i] = lives[l].queue[i]
    BY <1>1, EmptySeq, LineType
  <2>2. 1 \in 1..Len(lives[l].queue) /\ Head(lives[l].queue) = lives[l].queue[1]
    BY <1>1, <2>1
  <2> QED
    BY <2>1, <2>2
<1> QED
  BY <1>2, <1>3, <1>4, <1>5, <1>6

LEMMA ReceivedRecord ==
  ASSUME TypeOK, NEW l \in Life, Receives(l)
  PROVE  LET r == Received(l)
         IN  /\ r \in LifeType /\ r.queue \o r.waiting = Tail(Line(l))
             /\ r.call = lives[l].call /\ r.closed = lives[l].closed /\ r.reader = lives[l].reader
             /\ r.stop = lives[l].stop /\ r.victim = lives[l].victim
<1> DEFINE q == lives[l].queue
           w == lives[l].waiting
           p == IF w = <<>> THEN Tail(q) ELSE Append(Tail(q), Head(w))
           v == IF w = <<>> THEN w ELSE Tail(w)
<1>1. q \in Seq(Cmd \cup {0}) /\ q # <<>> /\ w \in Seq(Cmd \cup {0})
  BY LineType DEF Receives
<1>2. p \in Seq(Cmd \cup {0}) /\ v \in Seq(Cmd \cup {0}) /\ p \o v = Tail(q \o w)
  <2> HIDE DEF q, w
  <2> QED
    BY <1>1, Shifted
<1>3. Received(l) = [lives[l] EXCEPT !.queue = p, !.waiting = v]
  BY DEF Received
<1>4. Line(l) = q \o w
  BY DEF Line
<1>5. PICK R \in LifeType : R = lives[l]
  BY Types
<1> HIDE DEF p, v, q, w
<1>6. Received(l) = [R EXCEPT !.queue = p, !.waiting = v]
  BY <1>3, <1>5
<1>7. Received(l) \in LifeType /\ Received(l).queue = p /\ Received(l).waiting = v
  BY <1>2, <1>6 DEF LifeType, Shutdown
<1>8. /\ Received(l).call = R.call /\ Received(l).closed = R.closed /\ Received(l).reader = R.reader
      /\ Received(l).stop = R.stop /\ Received(l).victim = R.victim
  BY <1>6 DEF LifeType
<1> QED
  BY <1>2, <1>4, <1>5, <1>7, <1>8

LEMMA TakesHead ==
  ASSUME TypeOK, Lines, NEW l \in Life, Receives(l), NEW k, k = Head(lives[l].queue), k # Shutdown,
         Line(l)' = Tail(Line(l)), \A j \in Cmd \ {k} : cmds'[j].st = cmds[j].st /\ cmds'[j].life = cmds[j].life
  PROVE  LineServes(l)'
<1>1. /\ Line(l) \in Seq(Cmd \cup {0}) /\ DOMAIN Line(l) = 1..Len(Line(l))
      /\ DOMAIN Line(l)' = 1..(Len(Line(l)) - 1) /\ Len(Line(l)) \in Nat /\ Len(Line(l)) > 0
      /\ \A i \in 1..(Len(Line(l)) - 1) : Line(l)'[i] = Line(l)[i + 1]
      /\ Line(l)[1] = k
  BY LineTail
<1>2. LineServes(l)
  BY DEF Lines, LineServes
<1> DEFINE f == [i \in Nat |-> i + 1]
<1>3. PICK n \in Nat : n = Len(Line(l)) /\ n > 0
  BY <1>1
<1>4. \A i \in DOMAIN Line(l)' : i \in Nat /\ f[i] = i + 1 /\ i + 1 \in DOMAIN Line(l) /\ i + 1 # 1
                                 /\ Line(l)'[i] = Line(l)[i + 1]
  <2> TAKE i \in DOMAIN Line(l)'
  <2>1. i \in 1..n - 1 /\ Line(l)'[i] = Line(l)[i + 1]
    BY <1>1, <1>3
  <2>2. i \in Nat /\ i + 1 \in 1..n /\ i + 1 # 1
    BY <2>1
  <2>3. f[i] = i + 1
    BY <2>2
  <2> HIDE DEF f
  <2> QED
    BY <1>1, <1>3, <2>1, <2>2, <2>3
<1>5. \A i, j \in DOMAIN Line(l)' : f[i] = f[j] => i = j
  BY <1>4
<1>6. ASSUME NEW i \in DOMAIN Line(l)', Line(l)'[i] # Shutdown
      PROVE  cmds'[Line(l)'[i]].st = "sent" /\ cmds'[Line(l)'[i]].life = l
  <2>1. /\ i + 1 \in DOMAIN Line(l) /\ i + 1 # 1 /\ Line(l)'[i] = Line(l)[i + 1] /\ 1 \in DOMAIN Line(l)
    BY <1>1, <1>3, <1>4
  <2>2. /\ cmds[Line(l)[i + 1]].st = "sent" /\ cmds[Line(l)[i + 1]].life = l
        /\ Line(l)[i + 1] # k
    BY <1>1, <1>2, <1>6, <2>1 DEF LineServes
  <2>3. Line(l)[i + 1] \in Cmd
    <3>1. Line(l)[i + 1] \in Cmd \cup {0}
      BY <1>1, <2>1
    <3> QED
      BY <1>6, <2>1, <3>1 DEF Shutdown
  <2> QED
    BY <2>1, <2>2, <2>3
<1>7. \A i \in DOMAIN Line(l)' : f[i] \in DOMAIN Line(l) /\ Line(l)'[i] = Line(l)[f[i]]
  BY <1>4
<1> HIDE DEF f
<1> QED
  BY <1>2, <1>5, <1>6, <1>7, LineMoves

LEMMA ReceiveLives ==
  ASSUME TypeOK, Numbered, Commands, Commands', Lines, Threads, MadeGrows, cmds' \in [Cmd -> CmdType],
         NEW l \in Life, Receive(l)
  PROVE  LivesGoOn
<1> DEFINE k == Head(lives[l].queue)
           d == Received(l)
           r == [d EXCEPT !.call = k]
<1>1. /\ Receives(l) /\ k # Shutdown /\ lives' = [lives EXCEPT ![l] = r]
      /\ cmds' = [cmds EXCEPT ![k].st = "received"]
  BY DEF Receive
<1>2. k \in Cmd /\ cmds[k].st = "sent" /\ cmds[k].life = l
  BY <1>1, HeadOfLine
<1>3. /\ d \in LifeType /\ d.queue \o d.waiting = Tail(Line(l))
      /\ d.call = lives[l].call /\ d.closed = lives[l].closed /\ d.reader = lives[l].reader
      /\ d.stop = lives[l].stop /\ d.victim = lives[l].victim
  BY <1>1, ReceivedRecord
<1>4. k = Head(lives[l].queue)
  OBVIOUS
<1> HIDE DEF k, d
<1>12. /\ r \in LifeType /\ r.queue = d.queue /\ r.waiting = d.waiting
       /\ r.call = k /\ r.closed = d.closed /\ r.reader = d.reader /\ r.stop = d.stop /\ r.victim = d.victim
  BY <1>2, <1>3 DEF LifeType
<1> HIDE DEF r
<1>5. /\ cmds'[k].life = cmds[k].life /\ cmds'[k].st \in {"received", "accepted", "running"}
      /\ \A j \in Cmd \ {k} : cmds'[j] = cmds[j]
  <2>1. "received" \in CmdStates
    BY DEF CmdStates
  <2> QED
    BY <1>1, <1>2, <2>1, CmdGetsState
<1>6. lives'[l] = r
  BY <1>1, <1>12, Types
<1>7. LineServes(l)'
  <2>1. Line(l)' = Tail(Line(l))
    BY <1>3, <1>6, <1>12 DEF Line
  <2> QED
    BY <1>1, <1>4, <1>5, <2>1, TakesHead
<1>8. ~lives[l].closed /\ lives[l].call = 0
  BY <1>1 DEF Receives
<1>9. WorkerServes(l)'
  <2>1. WorkerServes(l)
    BY AllServe
  <2>2. k # 0
    BY <1>2 DEF Cmd
  <2>3. ASSUME NEW j \in Cmd, cmds'[j].st \in {"received", "accepted", "running"}, cmds'[j].life = l PROVE j = k
    <3>1. CASE j # k
      <4>1. cmds[j].st \in {"received", "accepted", "running"} /\ cmds[j].life = l
        BY <1>5, <2>3, <3>1
      <4>2. lives[l].call = j
        BY <2>1, <4>1 DEF WorkerServes
      <4> QED
        BY <1>8, <4>2 DEF Cmd
    <3> QED
      BY <3>1
  <2> QED
    BY <1>2, <1>3, <1>5, <1>6, <1>8, <1>12, <2>3 DEF WorkerServes
<1>10. RecordGoesOn(l, r)
  <2>1. RecordGoesOn(l, lives[l])
    BY RecordStays
  <2> QED
    BY <1>3, <1>12, <2>1 DEF RecordGoesOn
<1>11. \A j \in Cmd : cmds'[j].life = cmds[j].life /\ (cmds[j].life # l => cmds'[j].st = cmds[j].st)
  BY <1>2, <1>5
<1> QED
  BY <1>1, <1>7, <1>9, <1>10, <1>11, <1>12, OneWorker

LEMMA AnswerLives ==
  ASSUME TypeOK, Numbered, Commands, Commands', Lines, Threads, MadeGrows, cmds' \in [Cmd -> CmdType],
         NEW l \in Life, lives[l].call # 0, Answers(l)
  PROVE  LivesGoOn
<1> DEFINE k == lives[l].call
           r == [lives[l] EXCEPT !.call = 0]
<1>1. k # 0 /\ lives' = [lives EXCEPT ![l] = r] /\ cmds' = [cmds EXCEPT ![k].st = "answered"]
  BY Types DEF Answers
<1>2. k \in Cmd /\ cmds[k].st \in {"received", "accepted", "running"} /\ cmds[k].life = l
  BY <1>1 DEF Threads, TypeOK
<1>3. /\ r \in LifeType /\ r.queue = lives[l].queue /\ r.waiting = lives[l].waiting
      /\ r.call = 0 /\ r.closed = lives[l].closed /\ r.reader = lives[l].reader
      /\ r.stop = lives[l].stop /\ r.victim = lives[l].victim
  <2>1. PICK R \in LifeType : R = lives[l]
    BY Types
  <2>2. r = [R EXCEPT !.call = 0]
    BY <2>1
  <2> HIDE DEF r
  <2> QED
    BY <2>1, <2>2 DEF LifeType
<1>4. k = lives[l].call
  OBVIOUS
<1> HIDE DEF k, r
<1>5. /\ cmds'[k].life = cmds[k].life /\ cmds'[k].st = "answered"
      /\ \A j \in Cmd \ {k} : cmds'[j] = cmds[j]
  <2>1. "answered" \in CmdStates
    BY DEF CmdStates
  <2> QED
    BY <1>1, <1>2, <2>1, CmdGetsState
<1>6. lives'[l] = r
  BY <1>1, <1>3, Types
<1>13. LineServes(l) /\ WorkerServes(l)
  BY AllServe
<1>7. LineServes(l)'
  <2>1. Line(l)' = Line(l)
    BY <1>3, <1>6 DEF Line
  <2>2. ASSUME NEW i \in DOMAIN Line(l), Line(l)[i] # Shutdown
        PROVE  cmds'[Line(l)[i]].st = "sent" /\ cmds'[Line(l)[i]].life = l
    <3>1. cmds[Line(l)[i]].st = "sent" /\ cmds[Line(l)[i]].life = l
      BY <1>13, <2>2 DEF LineServes
    <3>2. Line(l)[i] \in Cmd
      <4>1. Line(l) \in Seq(Cmd \cup {0})
        BY LineType
      <4>2. Line(l)[i] \in Cmd \cup {0}
        BY <4>1
      <4> QED
        BY <2>2, <4>2 DEF Shutdown
    <3> QED
      BY <1>2, <1>5, <3>1, <3>2
  <2> QED
    BY <1>13, <2>1, <2>2 DEF LineServes
<1>8. ~lives[l].closed
  BY <1>1, <1>4, <1>13 DEF WorkerServes
<1>9. WorkerServes(l)'
  <2>1. ASSUME NEW j \in Cmd, cmds'[j].st \in {"received", "accepted", "running"}, cmds'[j].life = l PROVE FALSE
    <3>1. j # k
      BY <1>5, <2>1
    <3>2. lives[l].call = j
      BY <1>5, <1>13, <2>1, <3>1 DEF WorkerServes
    <3> QED
      BY <1>4, <3>1, <3>2
  <2> QED
    BY <1>3, <1>6, <1>8, <2>1 DEF WorkerServes
<1>10. RecordGoesOn(l, r)
  <2>1. RecordGoesOn(l, lives[l])
    BY RecordStays
  <2> QED
    BY <1>3, <2>1 DEF RecordGoesOn
<1>11. \A j \in Cmd : cmds'[j].life = cmds[j].life /\ (cmds[j].life # l => cmds'[j].st = cmds[j].st)
  BY <1>2, <1>5
<1> QED
  BY <1>1, <1>3, <1>7, <1>9, <1>10, <1>11, OneWorker

\* The command in hand goes on, and stays in hand.
LEMMA ProceedLives ==
  ASSUME TypeOK, Numbered, Commands, Commands', Lines, Threads, MadeGrows, cmds' \in [Cmd -> CmdType],
         NEW l \in Life, lives[l].call # 0, NEW st \in {"accepted", "running"}, Proceeds(l, st)
  PROVE  LivesGoOn
<1> DEFINE k == lives[l].call
<1>1. k # 0 /\ lives' = lives /\ cmds' = [cmds EXCEPT ![k].st = st] /\ k \in Cmd /\ k = lives[l].call
  BY DEF Proceeds, TypeOK
<1> HIDE DEF k
<1>2. cmds[k].st \in {"received", "accepted", "running"} /\ cmds[k].life = l
  BY <1>1 DEF Threads
<1>3. /\ cmds'[k].life = cmds[k].life /\ cmds'[k].st = st
      /\ \A j \in Cmd \ {k} : cmds'[j] = cmds[j]
  <2>1. st \in CmdStates
    BY DEF CmdStates
  <2> QED
    BY <1>1, <2>1, CmdGetsState
<1>4. LineServes(l) /\ WorkerServes(l)
  BY AllServe
<1>5. LineServes(l)'
  <2>1. Line(l)' = Line(l)
    BY <1>1 DEF Line
  <2>2. ASSUME NEW i \in DOMAIN Line(l), Line(l)[i] # Shutdown
        PROVE  cmds'[Line(l)[i]].st = "sent" /\ cmds'[Line(l)[i]].life = l
    <3>1. cmds[Line(l)[i]].st = "sent" /\ cmds[Line(l)[i]].life = l
      BY <1>4, <2>2 DEF LineServes
    <3>2. Line(l)[i] \in Cmd
      <4>1. Line(l) \in Seq(Cmd \cup {0})
        BY LineType
      <4>2. Line(l)[i] \in Cmd \cup {0}
        BY <4>1
      <4> QED
        BY <2>2, <4>2 DEF Shutdown
    <3> QED
      BY <1>2, <1>3, <3>1, <3>2
  <2> QED
    BY <1>4, <2>1, <2>2 DEF LineServes
<1>6. ~lives[l].closed
  BY <1>1, <1>4 DEF WorkerServes
<1>7. WorkerServes(l)'
  <2>1. ASSUME NEW j \in Cmd, cmds'[j].st \in {"received", "accepted", "running"}, cmds'[j].life = l
        PROVE  lives'[l].call = j
    <3>1. CASE j # k
      <4>1. cmds'[j] = cmds[j]
        BY <1>3, <3>1
      <4> QED
        BY <1>1, <1>4, <2>1, <4>1 DEF WorkerServes
    <3> QED
      BY <1>1, <3>1
  <2> QED
    BY <1>1, <1>2, <1>3, <1>6, <2>1 DEF WorkerServes
<1>8. \A j \in Cmd : cmds'[j].life = cmds[j].life /\ (cmds[j].life # l => cmds'[j].st = cmds[j].st)
  BY <1>2, <1>3
<1>9. RecordGoesOn(l, lives[l]) /\ lives[l] \in LifeType
  BY RecordStays, Types
<1>10. lives' = [lives EXCEPT ![l] = lives[l]]
  BY <1>1, Types
<1> QED
  BY <1>5, <1>7, <1>8, <1>9, <1>10, OneWorker

LEMMA ExitLives ==
  ASSUME TypeOK, Numbered, Commands, Commands', Lines, Threads, MadeGrows, cmds' \in [Cmd -> CmdType],
         NEW l \in Life, WorkerExits(l)
  PROVE  LivesGoOn
<1> DEFINE r == [lives[l] EXCEPT !.closed = TRUE, !.queue = <<>>, !.waiting = <<>>]
<1>1. /\ Receives(l) /\ lives' = [lives EXCEPT ![l] = r]
      /\ cmds' = [k \in Cmd |-> IF cmds[k].st = "sent" /\ cmds[k].life = l
                                THEN [cmds[k] EXCEPT !.st = "answered"] ELSE cmds[k]]
  BY Types DEF WorkerExits
<1>2. /\ r \in LifeType /\ r.queue = <<>> /\ r.waiting = <<>>
      /\ r.call = lives[l].call /\ r.closed /\ r.reader = lives[l].reader
      /\ r.stop = lives[l].stop /\ r.victim = lives[l].victim
  <2>1. PICK R \in LifeType : R = lives[l]
    BY Types
  <2>2. r = [R EXCEPT !.closed = TRUE, !.queue = <<>>, !.waiting = <<>>]
    BY <2>1
  <2> HIDE DEF r
  <2>3. <<>> \in Seq(Cmd \cup {0})
    BY EmptySeq
  <2>4. r \in LifeType /\ r.queue = <<>> /\ r.waiting = <<>> /\ r.closed
    BY <2>2, <2>3 DEF LifeType, Shutdown
  <2>5. r.call = R.call /\ r.reader = R.reader /\ r.stop = R.stop /\ r.victim = R.victim
    BY <2>2 DEF LifeType
  <2> QED
    BY <2>1, <2>4, <2>5
<1> HIDE DEF r
<1>3. ASSUME NEW k \in Cmd
      PROVE  /\ cmds'[k].life = cmds[k].life
             /\ cmds'[k].st = IF cmds[k].st = "sent" /\ cmds[k].life = l THEN "answered" ELSE cmds[k].st
  <2>1. cmds[k] \in CmdType
    BY Types
  <2>2. cmds'[k] = IF cmds[k].st = "sent" /\ cmds[k].life = l
                   THEN [cmds[k] EXCEPT !.st = "answered"] ELSE cmds[k]
    BY <1>1
  <2> QED
    BY <2>1, <2>2 DEF CmdType
<1>4. lives'[l] = r
  BY <1>1, <1>2, Types
<1>5. LineServes(l)'
  <2>1. Line(l)' = <<>> /\ DOMAIN Line(l)' = {}
    <3>1. <<>> \in Seq(Cmd) /\ Len(<<>>) = 0
      BY EmptySeq
    <3>2. <<>> \o <<>> = <<>> /\ DOMAIN <<>> = 1..0
      BY <3>1, ConcatEmptySeq, LenProperties
    <3>3. Line(l)' = <<>> \o <<>>
      BY <1>2, <1>4 DEF Line
    <3> QED
      BY <3>2, <3>3
  <2> QED
    BY <2>1 DEF LineServes
<1>6. lives[l].call = 0
  BY <1>1 DEF Receives
<1>7. WorkerServes(l)'
  <2>1. WorkerServes(l)
    BY AllServe
  <2>2. \A k \in Cmd : cmds'[k].st \in {"received", "accepted", "running"} => cmds[k].st \in {"received", "accepted", "running"} /\ cmds'[k].life = cmds[k].life
    BY <1>3
  <2>3. \A k \in Cmd : cmds'[k].life = l => cmds'[k].st # "sent"
    BY <1>3
  <2> QED
    BY <1>2, <1>4, <1>6, <2>1, <2>2, <2>3 DEF WorkerServes
<1>8. RecordGoesOn(l, r)
  <2>1. RecordGoesOn(l, lives[l])
    BY RecordStays
  <2> QED
    BY <1>2, <2>1 DEF RecordGoesOn
<1>9. \A k \in Cmd : cmds'[k].life = cmds[k].life /\ (cmds[k].life # l => cmds'[k].st = cmds[k].st)
  BY <1>3
<1> QED
  BY <1>1, <1>2, <1>5, <1>7, <1>8, <1>9, OneWorker

\* A command, or the Shutdown, comes to the end of the line.
LEMMA LineGrows ==
  ASSUME TypeOK, Lines, NEW l \in Life, NEW k \in Cmd \cup {0}, Line(l)' = Append(Line(l), k),
         \A j \in Cmd : cmds[j].st = "sent" /\ cmds[j].life = l => cmds'[j].st = "sent" /\ cmds'[j].life = l,
         k # Shutdown => cmds[k].st # "sent" /\ cmds'[k].st = "sent" /\ cmds'[k].life = l
  PROVE  LineServes(l)'
<1>1. Line(l) \in Seq(Cmd \cup {0}) /\ DOMAIN Line(l) = 1..Len(Line(l))
  BY LineType
<1>2. PICK n \in Nat : n = Len(Line(l))
  BY <1>1, LenProperties
<1>3. /\ DOMAIN Line(l)' = 1..n + 1 /\ Line(l)'[n + 1] = k
      /\ \A i \in 1..n : Line(l)'[i] = Line(l)[i]
  <2> DEFINE x == Line(l)
             y == Append(x, k)
  <2>1. x \in Seq(Cmd \cup {0}) /\ Len(x) = n /\ Line(l)' = y
    BY <1>1, <1>2
  <2> HIDE DEF x
  <2>2. y \in Seq(Cmd \cup {0}) /\ Len(y) = n + 1 /\ y[n + 1] = k /\ \A i \in 1..n : y[i] = x[i]
    BY <2>1, AppendProperties
  <2> HIDE DEF y
  <2>3. DOMAIN y = 1..n + 1
    BY <2>2, LenProperties
  <2> QED
    BY <2>1, <2>2, <2>3 DEF x
<1>4. LineServes(l)
  BY AllServe DEF Lines, LineServes
<1>5. ASSUME NEW i \in 1..n, Line(l)[i] # Shutdown
      PROVE  /\ cmds'[Line(l)[i]].st = "sent" /\ cmds'[Line(l)[i]].life = l /\ Line(l)[i] # k
             /\ \A j \in 1..n : Line(l)[j] = Line(l)[i] => j = i
  <2>1. Line(l)[i] \in Cmd \cup {0}
    BY <1>1, <1>2
  <2>2. /\ cmds[Line(l)[i]].st = "sent" /\ cmds[Line(l)[i]].life = l
        /\ \A j \in 1..n : Line(l)[j] = Line(l)[i] => j = i
    BY <1>1, <1>2, <1>4, <1>5 DEF LineServes
  <2> QED
    BY <1>5, <2>1, <2>2 DEF Shutdown
<1>6. ASSUME NEW i \in 1..n + 1, Line(l)'[i] # Shutdown
      PROVE  /\ cmds'[Line(l)'[i]].st = "sent" /\ cmds'[Line(l)'[i]].life = l
             /\ \A j \in 1..n + 1 : Line(l)'[j] = Line(l)'[i] => j = i
  <2>1. CASE i = n + 1
    <3>1. ASSUME NEW j \in 1..n PROVE Line(l)'[j] # k
      <4>1. Line(l)'[j] = Line(l)[j]
        BY <1>3
      <4> QED
        BY <1>3, <1>5, <1>6, <2>1, <4>1
    <3>2. \A j \in 1..n + 1 : j # n + 1 => j \in 1..n
      BY <1>2
    <3> QED
      BY <1>3, <1>6, <2>1, <3>1, <3>2
  <2>2. CASE i # n + 1
    <3>1. i \in 1..n /\ \A j \in 1..n + 1 : j # n + 1 => j \in 1..n
      BY <1>2, <2>2
    <3>2. Line(l)'[i] = Line(l)[i]
      BY <1>3, <3>1
    <3>3. /\ cmds'[Line(l)[i]].st = "sent" /\ cmds'[Line(l)[i]].life = l /\ Line(l)[i] # k
          /\ \A j \in 1..n : Line(l)[j] = Line(l)[i] => j = i
      BY <1>5, <1>6, <3>1, <3>2
    <3>4. ASSUME NEW j \in 1..n + 1, Line(l)'[j] = Line(l)[i] PROVE j = i
      <4>1. j # n + 1
        BY <1>3, <3>3, <3>4
      <4>2. j \in 1..n /\ Line(l)'[j] = Line(l)[j]
        BY <1>3, <3>1, <4>1
      <4> QED
        BY <3>3, <3>4, <4>2
    <3> QED
      BY <3>2, <3>3, <3>4
  <2> QED
    BY <2>1, <2>2
<1> QED
  BY <1>3, <1>6 DEF LineServes

\* send() to a worker whose receiver is there.
LEMMA GrownQueues ==
  ASSUME TypeOK, NEW l \in Life, NEW k \in Cmd \cup {0}
  PROVE  LET p == IF ~lives[l].closed /\ Room(l) THEN Append(lives[l].queue, k) ELSE lives[l].queue
             v == IF ~lives[l].closed /\ ~Room(l) THEN Append(lives[l].waiting, k) ELSE lives[l].waiting
         IN  /\ p \in Seq(Cmd \cup {0}) /\ v \in Seq(Cmd \cup {0})
             /\ lives[l].closed => p = lives[l].queue /\ v = lives[l].waiting
             /\ ~lives[l].closed => p \o v = Append(Line(l), k)
<1> DEFINE q == lives[l].queue
           w == lives[l].waiting
<1>1. q \in Seq(Cmd \cup {0}) /\ w \in Seq(Cmd \cup {0})
  BY LineType
<1>2. Line(l) = q \o w
  BY DEF Line
<1>3. Room(l) => w = <<>>
  BY DEF Room
<1> HIDE DEF q, w
<1>4. /\ w = <<>> => Append(q, k) \o w = Append(q \o w, k)
      /\ q \o Append(w, k) = Append(q \o w, k)
  BY <1>1, Lengthened
<1>5. Append(q, k) \in Seq(Cmd \cup {0}) /\ Append(w, k) \in Seq(Cmd \cup {0})
  BY <1>1, AppendProperties
<1> QED
  BY <1>1, <1>2, <1>3, <1>4, <1>5 DEF q, w

LEMMA EnqueueLives ==
  ASSUME TypeOK, Numbered, Commands, Commands', Lines, Threads, MadeGrows, cmds' \in [Cmd -> CmdType],
         NEW k \in Cmd, Enqueue(k)
  PROVE  LivesGoOn
<1>1. cmds[k].st = "looked" /\ cmds[k].life \in Life /\ cmds[k] \in CmdType
  BY Types DEF Enqueue, Commands, CmdType
<1>2. PICK l \in Life : l = cmds[k].life
  BY <1>1
<1> DEFINE p == IF ~lives[l].closed /\ Room(l) THEN Append(lives[l].queue, k) ELSE lives[l].queue
           v == IF ~lives[l].closed /\ ~Room(l) THEN Append(lives[l].waiting, k) ELSE lives[l].waiting
           r == [lives[l] EXCEPT !.queue = p, !.waiting = v]
           e == lives[l].stopped
           st == IF lives[l].closed THEN "answered" ELSE "sent"
           s == [cmds[k] EXCEPT !.epoch = e, !.st = st]
<1>3. lives' = [lives EXCEPT ![l] = r] /\ cmds' = [cmds EXCEPT ![k] = s]
  <2>1. cmds' = [cmds EXCEPT ![k].epoch = lives[l].stopped,
                             ![k].st = IF lives[l].closed THEN "answered" ELSE "sent"]
    BY <1>2 DEF Enqueue
  <2>2. lives' = [lives EXCEPT
           ![l].queue = IF ~lives[l].closed /\ Room(l) THEN Append(@, k) ELSE @,
           ![l].waiting = IF ~lives[l].closed /\ ~Room(l) THEN Append(@, k) ELSE @]
    BY <1>2 DEF Enqueue
  <2>3. lives' = [lives EXCEPT ![l] = r]
    BY <2>2, Types
  <2>4. cmds' = [cmds EXCEPT ![k] = s]
    BY <2>1, Types
  <2> QED
    BY <2>3, <2>4
<1>4. /\ p \in Seq(Cmd \cup {0}) /\ v \in Seq(Cmd \cup {0})
      /\ lives[l].closed => p = lives[l].queue /\ v = lives[l].waiting
      /\ ~lives[l].closed => p \o v = Append(Line(l), k)
  BY GrownQueues
<1>5. st \in CmdStates /\ e \in BOOLEAN
  <2>1. e \in BOOLEAN
    BY Types DEF LifeType
  <2> QED
    BY <2>1 DEF CmdStates
<1> HIDE DEF p, v, e
<1>6. s.life = cmds[k].life /\ s.st = st
  BY <1>1 DEF CmdType
<1> HIDE DEF s
<1>7. /\ cmds'[k].life = l /\ cmds'[k].st = st
      /\ \A j \in Cmd \ {k} : cmds'[j] = cmds[j]
  BY <1>2, <1>3, <1>6, Types
<1>8. /\ r \in LifeType /\ r.queue = p /\ r.waiting = v /\ r.call = lives[l].call
      /\ r.closed = lives[l].closed /\ r.reader = lives[l].reader
      /\ r.stop = lives[l].stop /\ r.victim = lives[l].victim
  <2>1. PICK R \in LifeType : R = lives[l]
    BY Types
  <2>2. r = [R EXCEPT !.queue = p, !.waiting = v]
    BY <2>1
  <2> HIDE DEF r
  <2>3. r \in LifeType /\ r.queue = p /\ r.waiting = v
    BY <1>4, <2>2 DEF LifeType, Shutdown
  <2>4. /\ r.call = R.call /\ r.reader = R.reader /\ r.stop = R.stop /\ r.victim = R.victim
        /\ r.closed = R.closed
    BY <2>2 DEF LifeType
  <2> QED
    BY <2>1, <2>3, <2>4
<1> HIDE DEF r
<1>9. lives'[l] = r
  BY <1>3, <1>8, Types
<1>10. LineServes(l) /\ WorkerServes(l)
  BY AllServe
<1>11. LineServes(l)'
  <2>1. CASE lives[l].closed
    <3>1. lives[l].queue = <<>> /\ lives[l].waiting = <<>>
      BY <1>10, <2>1 DEF WorkerServes
    <3>2. <<>> \in Seq(Cmd) /\ Len(<<>>) = 0
      BY EmptySeq
    <3>3. <<>> \o <<>> = <<>> /\ DOMAIN <<>> = 1..0
      BY <3>2, ConcatEmptySeq, LenProperties
    <3>4. Line(l)' = <<>> \o <<>>
      BY <1>4, <1>8, <1>9, <2>1, <3>1 DEF Line
    <3> QED
      BY <3>3, <3>4 DEF LineServes
  <2>2. CASE ~lives[l].closed
    <3>1. Line(l)' = Append(Line(l), k)
      BY <1>4, <1>8, <1>9, <2>2 DEF Line
    <3>2. \A j \in Cmd : cmds[j].st = "sent" /\ cmds[j].life = l => cmds'[j].st = "sent" /\ cmds'[j].life = l
      BY <1>1, <1>7
    <3>3. cmds[k].st # "sent" /\ cmds'[k].st = "sent" /\ cmds'[k].life = l
      BY <1>1, <1>7, <2>2
    <3> QED
      BY <3>1, <3>2, <3>3, LineGrows
  <2> QED
    BY <2>1, <2>2
<1>12. WorkerServes(l)'
  <2>1. lives[l].call # k
    BY <1>1, <1>10 DEF WorkerServes, Cmd
  <2>2. lives[l].call \in Cmd \cup {0}
    BY DEF TypeOK
  <2>3. lives'[l].call # 0 => cmds'[lives'[l].call].st \in {"received", "accepted", "running"} /\ cmds'[lives'[l].call].life = l
    BY <1>7, <1>8, <1>9, <1>10, <2>1, <2>2 DEF WorkerServes
  <2>4. lives'[l].closed => /\ lives'[l].call = 0 /\ lives'[l].queue = <<>> /\ lives'[l].waiting = <<>>
                            /\ \A j \in Cmd : cmds'[j].life = l => cmds'[j].st # "sent"
    BY <1>4, <1>7, <1>8, <1>9, <1>10 DEF WorkerServes
  <2>5. \A j \in Cmd : cmds'[j].st \in {"received", "accepted", "running"} /\ cmds'[j].life = l => lives'[l].call = j
    BY <1>7, <1>8, <1>9, <1>10 DEF WorkerServes
  <2> QED
    BY <2>3, <2>4, <2>5 DEF WorkerServes
<1>13. RecordGoesOn(l, r)
  <2>1. RecordGoesOn(l, lives[l])
    BY RecordStays
  <2> QED
    BY <1>8, <2>1 DEF RecordGoesOn
<1>14. \A j \in Cmd : cmds'[j].life = cmds[j].life /\ (cmds[j].life # l => cmds'[j].st = cmds[j].st)
  BY <1>2, <1>7
<1> QED
  BY <1>3, <1>8, <1>11, <1>12, <1>13, <1>14, OneWorker

LEMMA ShutdownLives ==
  ASSUME TypeOK, Numbered, Commands, Commands', Lines, Threads, MadeGrows, cmds' \in [Cmd -> CmdType],
         NEW l \in Life, RequestShutdown(l)
  PROVE  LivesGoOn
<1> DEFINE p == IF ~lives[l].closed /\ Room(l) THEN Append(lives[l].queue, 0) ELSE lives[l].queue
           v == IF ~lives[l].closed /\ ~Room(l) THEN Append(lives[l].waiting, 0) ELSE lives[l].waiting
           r == [lives[l] EXCEPT !.queue = p, !.waiting = v, !.stop = "asked"]
<1>1. lives[l].stop = "signalled" /\ lives' = [lives EXCEPT ![l] = r] /\ UNCHANGED cmds
  BY Types DEF RequestShutdown, Shutdown
<1>2. /\ p \in Seq(Cmd \cup {0}) /\ v \in Seq(Cmd \cup {0})
      /\ lives[l].closed => p = lives[l].queue /\ v = lives[l].waiting
      /\ ~lives[l].closed => p \o v = Append(Line(l), 0)
  <2>1. 0 \in Cmd \cup {0}
    OBVIOUS
  <2> QED
    BY <2>1, GrownQueues
<1> HIDE DEF p, v
<1>3. /\ r \in LifeType /\ r.queue = p /\ r.waiting = v /\ r.call = lives[l].call
      /\ r.closed = lives[l].closed /\ r.reader = lives[l].reader
      /\ r.stop = "asked" /\ r.victim = lives[l].victim
  <2>1. PICK R \in LifeType : R = lives[l]
    BY Types
  <2>2. r = [R EXCEPT !.queue = p, !.waiting = v, !.stop = "asked"]
    BY <2>1
  <2> HIDE DEF r
  <2>3. r \in LifeType
    BY <1>2, <2>2 DEF LifeType, Shutdown
  <2>4. /\ r.call = R.call /\ r.reader = R.reader /\ r.victim = R.victim
        /\ r.closed = R.closed
    BY <2>2 DEF LifeType
  <2>5. r.queue = p /\ r.waiting = v /\ r.stop = "asked"
    BY <2>2 DEF LifeType
  <2> QED
    BY <2>1, <2>3, <2>4, <2>5
<1> HIDE DEF r
<1>4. lives'[l] = r
  BY <1>1, <1>3, Types
<1>5. LineServes(l) /\ WorkerServes(l)
  BY AllServe
<1>6. LineServes(l)'
  <2>1. CASE lives[l].closed
    <3>1. Line(l)' = Line(l)
      BY <1>2, <1>3, <1>4, <2>1 DEF Line
    <3> QED
      BY <1>1, <1>5, <3>1 DEF LineServes
  <2>2. CASE ~lives[l].closed
    <3>1. Line(l)' = Append(Line(l), 0) /\ 0 \in Cmd \cup {0}
      BY <1>2, <1>3, <1>4, <2>2 DEF Line
    <3>2. \A j \in Cmd : cmds[j].st = "sent" /\ cmds[j].life = l => cmds'[j].st = "sent" /\ cmds'[j].life = l
      BY <1>1
    <3> QED
      BY <3>1, <3>2, LineGrows DEF Shutdown
  <2> QED
    BY <2>1, <2>2
<1>7. WorkerServes(l)'
  BY <1>1, <1>2, <1>3, <1>4, <1>5 DEF WorkerServes
<1>8. RecordGoesOn(l, r)
  <2>1. RecordGoesOn(l, lives[l])
    BY RecordStays
  <2> QED
    BY <1>1, <1>3, <2>1 DEF RecordGoesOn
<1>9. \A j \in Cmd : cmds'[j].life = cmds[j].life /\ (cmds[j].life # l => cmds'[j].st = cmds[j].st)
  BY <1>1
<1> QED
  BY <1>1, <1>3, <1>6, <1>7, <1>8, <1>9, OneWorker

\* What is taken out of those that wait.
LEMMA OneLeaves ==
  ASSUME NEW S, NEW w \in Seq(S), NEW ks, \A i, j \in DOMAIN w : w[i] \in ks /\ w[j] \in ks => i = j
  PROVE  LET v == Without(w, ks)
         IN  /\ v \in Seq(S) /\ (w = <<>> => v = <<>>)
             /\ \E j \in Nat \ {0} : \A i \in 1..Len(v) :
                  LET p == IF i < j THEN i ELSE i + 1
                  IN  p \in 1..Len(w) /\ v[i] = w[p] /\ v[i] \notin ks
<1>1. PICK n \in Nat : n = Len(w) /\ DOMAIN w = 1..n
  BY LenProperties
<1>2. CASE \E i \in DOMAIN w : w[i] \in ks
  <2> DEFINE j == CHOOSE i \in DOMAIN w : w[i] \in ks
             v == RemoveAt(w, j)
  <2>1. j \in 1..n /\ w[j] \in ks
    BY <1>1, <1>2
  <2>2. Without(w, ks) = v
    BY <1>2 DEF Without
  <2> HIDE DEF j
  <2>3. v \in Seq(S) /\ Len(v) = n - 1 /\ \A i \in 1..n - 1 : v[i] = IF i < j THEN w[i] ELSE w[i + 1]
    BY <1>1, <2>1, Shortened
  <2> HIDE DEF v
  <2>4. ASSUME NEW i \in 1..n - 1, NEW p, p = IF i < j THEN i ELSE i + 1
        PROVE  p \in 1..n /\ v[i] = w[p] /\ v[i] \notin ks
    <3>1. p \in 1..n /\ p # j
      BY <1>1, <2>1, <2>4
    <3>2. v[i] = w[p]
      BY <2>3, <2>4
    <3> QED
      BY <1>1, <2>1, <3>1, <3>2
  <2>5. j \in Nat \ {0} /\ w # <<>>
    <3>1. Len(w) # 0
      BY <1>1, <2>1
    <3> QED
      BY <1>1, <2>1, <3>1, EmptySeq
  <2> QED
    BY <1>1, <2>2, <2>3, <2>4, <2>5
<1>3. CASE \A i \in DOMAIN w : w[i] \notin ks
  <2>1. Without(w, ks) = w
    BY <1>3 DEF Without
  <2>2. \A i \in 1..n : i < n + 1 /\ i \in 1..n /\ w[i] \notin ks
    BY <1>1, <1>3
  <2>3. n + 1 \in Nat \ {0}
    BY <1>1
  <2> QED
    BY <1>1, <2>1, <2>2, <2>3
<1> QED
  BY <1>2, <1>3

\* The line when a connection has ended.
LEMMA LineWithout ==
  ASSUME TypeOK, Authority, Commands, Lines, NEW a \in Auth, a \in links, NEW l \in Life,
         lives'[l].queue = lives[l].queue, lives'[l].waiting = Without(lives[l].waiting, Dropped(a)),
         \A k \in Cmd \ Dropped(a) : cmds'[k] = cmds[k]
  PROVE  /\ LineServes(l)' /\ lives'[l].waiting \in Seq(Cmd \cup {0})
         /\ lives[l].waiting = <<>> => lives'[l].waiting = <<>>
<1> DEFINE q == lives[l].queue
           w == lives[l].waiting
           ks == Dropped(a)
           v == Without(w, ks)
           x == Line(l)
<1>1. /\ q \in Seq(Cmd \cup {0}) /\ w \in Seq(Cmd \cup {0}) /\ x \in Seq(Cmd \cup {0})
      /\ x = q \o w /\ Line(l)' = q \o v /\ LineServes(l)
  BY LineType, AllServe DEF Line, Lines, LineServes
<1>2. /\ Len(x) = Len(q) + Len(w) /\ DOMAIN x = 1..Len(x)
      /\ \A i \in 1..Len(q) : x[i] = q[i]
      /\ \A i \in 1..Len(w) : x[Len(q) + i] = w[i]
  BY LineType
<1>3. \A i \in 1..Len(q) : q[i] \notin ks
  BY DEF Dropped
<1>4. \A j, k \in ks : j = k /\ j \in Cmd
  <2>1. auth[a].kind = "transport" /\ a # 0
    BY DEF Authority, Auth
  <2>2. \A k \in ks : k \in Cmd /\ cmds[k].auth = a
    BY DEF Dropped
  <2> HIDE DEF ks
  <2> QED
    BY <2>1, <2>2 DEF Commands
<1>5. 0 \notin ks
  BY DEF Dropped, Cmd
<1>6. v = lives'[l].waiting /\ \A k \in Cmd \ ks : cmds'[k] = cmds[k]
  OBVIOUS
<1> HIDE DEF q, w, ks, x
<1>7. PICK m \in Nat, n \in Nat : m = Len(q) /\ n = Len(w) /\ DOMAIN x = 1..m + n /\ DOMAIN w = 1..n
  BY <1>1, <1>2, LenProperties
<1>8. \A i, j \in DOMAIN w : w[i] \in ks /\ w[j] \in ks => i = j
  <2> TAKE i, j \in DOMAIN w
  <2> HAVE w[i] \in ks /\ w[j] \in ks
  <2>1. w[i] = w[j] /\ w[i] # Shutdown
    BY <1>4, <1>5 DEF Shutdown
  <2>2. \A b \in 1..n : m + b \in 1..m + n /\ x[m + b] = w[b]
    BY <1>2, <1>7
  <2>4. m + i \in DOMAIN x /\ m + j \in DOMAIN x /\ x[m + i] = w[i] /\ x[m + j] = w[j]
    BY <1>7, <2>2
  <2>3. m + i = m + j
    BY <1>1, <2>1, <2>4 DEF LineServes, x
  <2> QED
    BY <1>7, <2>3
<1>9. /\ v \in Seq(Cmd \cup {0}) /\ (w = <<>> => v = <<>>)
      /\ \E j \in Nat \ {0} : \A i \in 1..Len(v) :
           LET p == IF i < j THEN i ELSE i + 1
           IN  p \in 1..Len(w) /\ v[i] = w[p] /\ v[i] \notin ks
  BY <1>1, <1>8, OneLeaves
<1> HIDE DEF v
<1>10. PICK j \in Nat \ {0} : \A i \in 1..Len(v) :
         LET p == IF i < j THEN i ELSE i + 1
         IN  p \in 1..Len(w) /\ v[i] = w[p] /\ v[i] \notin ks
  BY <1>9
<1>11. PICK d \in Nat : /\ d = Len(v) /\ DOMAIN (q \o v) = 1..m + d
                        /\ \A i \in 1..m + d : (q \o v)[i] = IF i <= m THEN q[i] ELSE v[i - m]
  <2>1. /\ q \o v \in Seq(Cmd \cup {0}) /\ Len(q \o v) = Len(q) + Len(v)
        /\ \A i \in 1..Len(q) + Len(v) : (q \o v)[i] = IF i <= Len(q) THEN q[i] ELSE v[i - Len(q)]
    BY <1>1, <1>9, ConcatProperties
  <2>2. Len(v) \in Nat /\ DOMAIN (q \o v) = 1..Len(q \o v)
    BY <1>9, <2>1, LenProperties
  <2> QED
    BY <1>7, <2>1, <2>2
<1> DEFINE y == q \o v
           f == [i \in Nat |-> IF i < m + j THEN i ELSE i + 1]
<1>12. ASSUME NEW i \in DOMAIN y PROVE f[i] \in DOMAIN x /\ y[i] = x[f[i]] /\ y[i] \notin ks
  <2>1. i \in 1..m + d /\ i \in Nat
    BY <1>7, <1>11
  <2>2. f[i] = IF i < m + j THEN i ELSE i + 1
    BY <2>1
  <2> HIDE DEF f
  <2>3. CASE i <= m
    <3>1. f[i] = i /\ i \in 1..m /\ i \in 1..m + n
      BY <1>7, <1>10, <2>1, <2>2, <2>3
    <3>2. y[i] = q[i]
      BY <1>11, <2>1, <2>3
    <3> QED
      BY <1>2, <1>3, <1>7, <3>1, <3>2
  <2>4. CASE ~(i <= m)
    <3>1. PICK b \in 1..d : b = i - m
      BY <1>7, <1>11, <2>1, <2>4
    <3>2. PICK p : p = IF b < j THEN b ELSE b + 1
      OBVIOUS
    <3>3. p \in 1..n /\ v[b] = w[p] /\ v[b] \notin ks
      BY <1>7, <1>10, <1>11, <3>1, <3>2
    <3>4. y[i] = v[b]
      BY <1>11, <2>1, <2>4, <3>1
    <3>5. f[i] = m + p /\ m + p \in 1..m + n
      BY <1>7, <1>10, <2>1, <2>2, <3>1, <3>2, <3>3
    <3> QED
      BY <1>2, <1>7, <3>3, <3>4, <3>5
  <2> QED
    BY <2>3, <2>4
<1>13. ASSUME NEW i \in DOMAIN y, NEW b \in DOMAIN y, f[i] = f[b] PROVE i = b
  <2>1. i \in Nat /\ b \in Nat
    BY <1>11
  <2> QED
    BY <1>7, <1>10, <1>13, <2>1
<1> HIDE DEF f, y
<1>14. ASSUME NEW i \in DOMAIN y, y[i] # Shutdown
       PROVE  cmds'[y[i]].st = "sent" /\ cmds'[y[i]].life = l
  <2>1. f[i] \in DOMAIN x /\ y[i] = x[f[i]] /\ y[i] \notin ks
    BY <1>12
  <2>2. y[i] \in Cmd \cup {0}
    BY <1>1, <2>1
  <2>3. cmds[y[i]].st = "sent" /\ cmds[y[i]].life = l
    BY <1>1, <1>14, <2>1 DEF LineServes, x
  <2> QED
    BY <1>6, <1>14, <2>1, <2>2, <2>3 DEF Shutdown
<1>15. LineServes(l)'
  <2>1. Line(l)' = y /\ Line(l) = x
    BY <1>1 DEF x, y
  <2>2. \A i \in DOMAIN Line(l)' : f[i] \in DOMAIN Line(l) /\ Line(l)'[i] = Line(l)[f[i]]
    BY <1>12, <2>1
  <2>3. \A i, b \in DOMAIN Line(l)' : f[i] = f[b] => i = b
    BY <1>13, <2>1
  <2>4. \A i \in DOMAIN Line(l)' : Line(l)'[i] # Shutdown =>
           cmds'[Line(l)'[i]].st = "sent" /\ cmds'[Line(l)'[i]].life = l
    BY <1>14, <2>1
  <2> QED
    BY <1>1, <2>2, <2>3, <2>4, LineMoves
<1> QED
  BY <1>6, <1>9, <1>15 DEF w

LEMMA ConnectionEndsLives ==
  ASSUME TypeOK, Numbered, Authority, Commands, Commands', Lines, Threads, MadeGrows,
         cmds' \in [Cmd -> CmdType], NEW a \in Auth, ConnectionEnds(a)
  PROVE  LivesGoOn
<1> DEFINE ks == Dropped(a)
<1>1. /\ a \in links
      /\ \A k \in ks : k \in Cmd /\ cmds[k].st \in {"checked", "looked", "sent"} /\ cmds'[k] = Over
      /\ \A k \in Cmd \ ks : cmds'[k] = cmds[k]
  BY DEF ConnectionEnds, Dropped
<1>2. Over.st = "done" /\ Over.life = 0
  BY DEF Over
<1>3. ASSUME NEW l \in Life
      PROVE  /\ lives'[l] \in LifeType /\ RecordGoesOn(l, lives'[l]) /\ LineServes(l)'
             /\ lives'[l].call = lives[l].call /\ lives'[l].closed = lives[l].closed
             /\ lives'[l].queue = lives[l].queue
             /\ lives[l].waiting = <<>> => lives'[l].waiting = <<>>
  <2> DEFINE v == Without(lives[l].waiting, ks)
  <2>1. lives'[l] = [lives[l] EXCEPT !.waiting = v]
    BY DEF ConnectionEnds
  <2>2. PICK R \in LifeType : R = lives[l]
    BY Types
  <2>3. lives'[l] = [R EXCEPT !.waiting = v]
    BY <2>1, <2>2
  <2> HIDE DEF v
  <2>4. lives'[l].queue = R.queue /\ lives'[l].waiting = v
    BY <2>3 DEF LifeType
  <2>5. /\ lives'[l].call = R.call /\ lives'[l].closed = R.closed /\ lives'[l].reader = R.reader
        /\ lives'[l].stop = R.stop /\ lives'[l].victim = R.victim
    BY <2>3 DEF LifeType
  <2>6. /\ LineServes(l)' /\ lives'[l].waiting \in Seq(Cmd \cup {0})
        /\ lives[l].waiting = <<>> => lives'[l].waiting = <<>>
    <3>1. lives'[l].queue = lives[l].queue /\ lives'[l].waiting = Without(lives[l].waiting, Dropped(a))
      BY <2>2, <2>4 DEF v
    <3>2. \A k \in Cmd \ Dropped(a) : cmds'[k] = cmds[k]
      BY <1>1
    <3> QED
      BY <1>1, <3>1, <3>2, LineWithout
  <2>7. v \in Seq(Cmd \cup {0})
    BY <2>4, <2>6
  <2>8. lives'[l] \in LifeType
    BY <2>3, <2>7 DEF LifeType, Shutdown
  <2>9. RecordGoesOn(l, lives'[l])
    <3>1. RecordGoesOn(l, lives[l])
      BY RecordStays
    <3> QED
      BY <2>2, <2>5, <3>1 DEF RecordGoesOn
  <2> QED
    BY <2>2, <2>4, <2>5, <2>6, <2>8, <2>9
<1> HIDE DEF ks
<1>4. lives' \in [Life -> LifeType]
  <2>1. lives' = [l \in Life |-> lives'[l]]
    BY DEF ConnectionEnds
  <2> QED
    BY <1>3, <2>1
<1>5. Lines'
  BY <1>3 DEF Lines, LineServes
<1>6. ASSUME NEW k \in Cmd, cmds'[k].st \in {"sent", "received", "accepted", "running"}
      PROVE  cmds'[k] = cmds[k]
  BY <1>1, <1>2, <1>6
<1>7. ASSUME NEW l \in Life, lives'[l].call # 0
      PROVE  cmds'[lives'[l].call].st \in {"received", "accepted", "running"} /\ cmds'[lives'[l].call].life = l
  <2>1. lives'[l].call = lives[l].call /\ lives[l].call \in Cmd
    BY <1>3, <1>7 DEF TypeOK
  <2>2. cmds[lives[l].call].st \in {"received", "accepted", "running"} /\ cmds[lives[l].call].life = l
    BY <1>7, <2>1 DEF Threads
  <2> QED
    BY <1>1, <2>1, <2>2
<1>8. ASSUME NEW l \in Life, lives'[l].closed
      PROVE  /\ lives'[l].call = 0 /\ lives'[l].queue = <<>> /\ lives'[l].waiting = <<>>
             /\ \A k \in Cmd : cmds'[k].life = l => cmds'[k].st # "sent"
  <2>1. /\ lives[l].call = 0 /\ lives[l].queue = <<>> /\ lives[l].waiting = <<>>
        /\ \A k \in Cmd : cmds[k].life = l => cmds[k].st # "sent"
    BY <1>3, <1>8 DEF Threads
  <2> QED
    BY <1>3, <1>6, <2>1
<1>9. ASSUME NEW k \in Cmd, cmds'[k].st \in {"received", "accepted", "running"}
      PROVE  cmds'[k].life # 0 /\ lives'[cmds'[k].life].call = k
  <2>1. cmds'[k] = cmds[k]
    BY <1>6, <1>9
  <2>2. cmds[k].life # 0 /\ lives[cmds[k].life].call = k /\ cmds[k].life \in Life
    BY <1>9, <2>1 DEF Threads, TypeOK
  <2> QED
    BY <1>3, <2>1, <2>2
<1> QED
  BY <1>3, <1>4, <1>5, <1>7, <1>8, <1>9, StopsGoOn DEF LivesGoOn, Threads

LEMMA LivesStep ==
  ASSUME TypeOK, Numbered, Authority, Commands, Lines, Threads, Next
  PROVE  LivesGoOn
<1>1. AuthorityGoesOn /\ MadeGrows
  BY AuthorityStep DEF AuthorityGoesOn
<1>2. cmds' \in [Cmd -> CmdType] /\ Commands'
  BY CommandsStep
<1>3. ASSUME NEW a \in Auth, ConnectionEnds(a) PROVE LivesGoOn
  BY <1>1, <1>2, <1>3, ConnectionEndsLives
<1>4. ASSUME NEW k \in Cmd, Enqueue(k) PROVE LivesGoOn
  BY <1>1, <1>2, <1>4, EnqueueLives
<1>5. ASSUME NEW l \in Life, Receive(l) PROVE LivesGoOn
  BY <1>1, <1>2, <1>5, ReceiveLives
<1>6. ASSUME NEW l \in Life, Reject(l) \/ HidReturns(l) PROVE LivesGoOn
  <2>1. lives[l].call # 0 /\ Answers(l)
    BY <1>6 DEF Reject, HidReturns, InHand
  <2> QED
    BY <1>1, <1>2, <2>1, AnswerLives
<1>7. ASSUME NEW l \in Life, Accept(l) \/ HidBegins(l) PROVE LivesGoOn
  <2>1. lives[l].call # 0 /\ (Proceeds(l, "accepted") \/ Proceeds(l, "running"))
    BY <1>7 DEF Accept, HidBegins, InHand
  <2> QED
    BY <1>1, <1>2, <2>1, ProceedLives
<1>8. ASSUME NEW l \in Life, WorkerExits(l) PROVE LivesGoOn
  BY <1>1, <1>2, <1>8, ExitLives
<1>9. ASSUME NEW l \in Life, RequestShutdown(l) PROVE LivesGoOn
  BY <1>1, <1>2, <1>9, ShutdownLives
<1> QED
  BY <1>1, <1>3, <1>4, <1>5, <1>6, <1>7, <1>8, <1>9, QuietSteps DEF Next

-----------------------------------------------------------------------------
(* Request tasks and sinks *)

LEMMA ClientStep ==
  ASSUME TypeOK, Numbered, Next
  PROVE  client' \in [Client -> ClientType]
<1> DEFINE Tasks == {"on", "busy", "replying", "ending", "left"}
           G == client' \in [Client -> ClientType]
<1>1. client \in [Client -> ClientType] /\ MaxSink \in Nat
  BY Types, LimitAssumption
<1> HIDE DEF G
<1>2. ASSUME UNCHANGED client PROVE G
  BY <1>1, <1>2 DEF G
<1>3. ASSUME NEW c \in Client, NEW r \in ClientType, client' = [client EXCEPT ![c] = r] PROVE G
  BY <1>1, <1>3 DEF G
<1>4. ASSUME NEW c \in Client, NEW t \in Tasks, client' = [client EXCEPT ![c].task = t] PROVE G
  <2>1. [client[c] EXCEPT !.task = t] \in ClientType
    BY <1>1 DEF ClientType
  <2> QED
    BY <1>1, <1>3, <1>4, <2>1
<1>5. ASSUME NEW c \in Client, Open(c) \/ SetDataplaneMode(c) \/ AskNm(c) \/ Close(c) PROVE G
  <2>1. "busy" \in Tasks /\ "replying" \in Tasks /\ client[c].task \in Tasks
    BY <1>1 DEF ClientType
  <2>2. CASE Close(c)
    <3>1. client' = [client EXCEPT ![c].task = IF @ = "on" THEN "replying" ELSE @]
          \/ client' = [client EXCEPT ![c].task = IF @ = "on" THEN "busy" ELSE @]
      BY <2>2 DEF Close
    <3>2. \E t \in Tasks : client' = [client EXCEPT ![c].task = t]
      BY <1>1, <2>1, <3>1
    <3> QED
      BY <1>4, <3>2
  <2>3. CASE Open(c) \/ SetDataplaneMode(c) \/ AskNm(c)
    <3>1. \E t \in Tasks : client' = [client EXCEPT ![c].task = t]
      BY <2>1, <2>3 DEF Open, SetDataplaneMode, AskNm
    <3> QED
      BY <1>4, <3>1
  <2> QED
    BY <1>5, <2>2, <2>3
<1>6. ASSUME NEW c \in Client, Reply(c) PROVE G
  <2> DEFINE t == IF client[c].open THEN "on" ELSE "ending"
             n == IF client[c].open THEN client[c].sink + 1 ELSE client[c].sink
             r == [client[c] EXCEPT !.task = t, !.sink = n]
  <2>1. client' = [client EXCEPT ![c] = r]
    BY <1>1, <1>6 DEF Reply
  <2>2. t \in Tasks /\ n \in 0..MaxSink /\ client[c] \in ClientType
    BY <1>1, <1>6 DEF Reply, ClientType
  <2>3. r \in ClientType
    <3> HIDE DEF t, n
    <3> QED
      BY <2>2 DEF ClientType
  <2> QED
    BY <1>3, <2>1, <2>3
<1>7. ASSUME NEW l \in Life, RouteSends(l) PROVE G
  <2> DEFINE c == auth[lives[l].at].c
             n == IF client[c].open THEN client[c].sink + 1 ELSE client[c].sink
             r == [client[c] EXCEPT !.sink = n]
  <2>1. CASE UNCHANGED client
    BY <1>2, <2>1
  <2>2. CASE c \notin Client
    <3>1. UNCHANGED client \/ client' = [client EXCEPT ![c].sink = IF client[c].open THEN @ + 1 ELSE @]
      BY <1>7 DEF RouteSends
    <3> HIDE DEF c
    <3>2. UNCHANGED client
      BY <1>1, <2>2, <3>1
    <3> QED
      BY <1>2, <3>2
  <2>3. CASE c \in Client /\ ~UNCHANGED client
    <3>1. /\ ~client[c].open \/ client[c].sink < MaxSink
          /\ client' = [client EXCEPT ![c].sink = IF client[c].open THEN @ + 1 ELSE @]
      BY <1>7, <2>3 DEF RouteSends
    <3> HIDE DEF c
    <3>2. client' = [client EXCEPT ![c] = r]
      BY <1>1, <2>3, <3>1
    <3>3. n \in 0..MaxSink /\ client[c] \in ClientType
      BY <1>1, <2>3, <3>1 DEF ClientType
    <3>4. r \in ClientType
      <4> HIDE DEF n
      <4> QED
        BY <3>3 DEF ClientType
    <3> QED
      BY <1>3, <2>3, <3>2, <3>4
  <2> QED
    BY <2>1, <2>2, <2>3
<1>8. ASSUME NEW c \in Client, Writes(c) PROVE G
  <2>1. client[c].sink > 0 /\ client' = [client EXCEPT ![c].sink = @ - 1]
    BY <1>8 DEF Writes
  <2>2. client[c] \in ClientType /\ client[c].sink - 1 \in 0..MaxSink
    BY <1>1, <2>1 DEF ClientType
  <2>3. [client[c] EXCEPT !.sink = @ - 1] \in ClientType
    BY <2>2 DEF ClientType
  <2> QED
    BY <1>1, <1>3, <2>1, <2>3
<1>9. ASSUME NEW c \in Client, WriteFails(c) \/ Leave(c) PROVE G
  <2>1. \/ client' = [client EXCEPT ![c].open = FALSE, ![c].sink = 0]
        \/ client' = [client EXCEPT ![c] = [task |-> "left", open |-> FALSE, sink |-> 0]]
    BY <1>9 DEF WriteFails, Leave
  <2>2. /\ [client[c] EXCEPT !.open = FALSE, !.sink = 0] \in ClientType
        /\ [task |-> "left", open |-> FALSE, sink |-> 0] \in ClientType
    <3>1. PICK R \in ClientType : R = client[c]
      BY <1>1
    <3>2. 0 \in 0..MaxSink /\ FALSE \in BOOLEAN
      BY <1>1
    <3>3. [R EXCEPT !.open = FALSE, !.sink = 0] \in ClientType
      BY <3>2 DEF ClientType
    <3>4. [task |-> "left", open |-> FALSE, sink |-> 0] \in ClientType
      BY <3>2 DEF ClientType
    <3> QED
      BY <3>1, <3>3, <3>4
  <2>3. client' = [client EXCEPT ![c] = [client[c] EXCEPT !.open = FALSE, !.sink = 0]]
        \/ client' = [client EXCEPT ![c] = [task |-> "left", open |-> FALSE, sink |-> 0]]
    BY <1>1, <2>1
  <2> QED
    BY <1>3, <2>2, <2>3
<1>10. ASSUME NEW l \in Life, JoinThreads(l) PROVE G
  <2>1. client' = [c \in Client |->
          IF lives[l].stopper = c /\ client[c].task = "busy"
          THEN [client[c] EXCEPT !.task = "replying"] ELSE client[c]]
    BY <1>10 DEF JoinThreads
  <2>2. \A c \in Client : client[c] \in ClientType /\ [client[c] EXCEPT !.task = "replying"] \in ClientType
    BY <1>1 DEF ClientType
  <2> QED
    BY <2>1, <2>2 DEF G
<1>11. ForceClose => UNCHANGED client
  BY DEF ForceClose
<1>12. \A c \in Client : TransportConnect(c) => UNCHANGED client
  BY DEF TransportConnect
<1>13. \A a \in Auth : ConnectionEnds(a) \/ AskTransport(a) => UNCHANGED client
  BY DEF ConnectionEnds, AskTransport
<1>14. \A k \in Cmd : LookUp(k) \/ Enqueue(k) \/ TransportReplies(k) => UNCHANGED client
  BY DEF LookUp, Enqueue, TransportReplies
<1>15. \A l \in Life :
         \/ Receive(l) \/ Reject(l) \/ Accept(l) \/ HidBegins(l) \/ HidReturns(l) \/ WorkerExits(l)
         \/ Signal(l) \/ RequestShutdown(l)
         \/ ReaderStops(l) \/ ReaderReads(l) \/ ReaderFails(l) \/ RouteChecks(l)
         => UNCHANGED client
  BY DEF Receive, Reject, Accept, HidBegins, HidReturns, Answers, Proceeds, WorkerExits,
         Signal, RequestShutdown, ReaderStops, ReaderReads, ReaderFails, RouteChecks
<1>16. G
  BY <1>2, <1>5, <1>6, <1>7, <1>8, <1>9, <1>10, <1>11, <1>12, <1>13, <1>14, <1>15 DEF Next
<1> QED
  BY <1>16 DEF G

-----------------------------------------------------------------------------
(* The theorems *)

LEMMA InitIoInv ==
  ASSUME Init
  PROVE  IoInv
<1>1. PICK p \in Plans : bound = p
  BY DEF Init
<1>2. bound.lives \in Nat /\ bound.auths \in Nat /\ bound.cmds \in Nat
  BY <1>1, PlansAssumption, LimitAssumption
<1>3. /\ made = [b \in Bounded |-> 0] /\ made.lives = 0 /\ made.auths = 0 /\ made.cmds = 0
      /\ entry = 0 /\ links = {}
  BY DEF Init, Bounded
<1>4. ASSUME NEW c \in Client PROVE session[c] = "none" /\ hot[c] = 0 /\ cap[c] = 0
  BY DEF Init
<1>5. ASSUME NEW a \in Auth
      PROVE  /\ auth[a] = [kind |-> "none", c |-> None, life |-> 0, valid |-> FALSE]
             /\ auth[a].kind = "none" /\ ~auth[a].valid
  BY DEF Init
<1>6. ASSUME NEW k \in Cmd
      PROVE  /\ cmds[k] = [auth |-> 0, life |-> 0, epoch |-> FALSE, st |-> "none"]
             /\ cmds[k].auth = 0 /\ cmds[k].life = 0 /\ cmds[k].st = "none"
  BY DEF Init
<1>7. <<>> \in Seq(Cmd \cup {0}) /\ <<>> \in Seq(Cmd) /\ Len(<<>>) = 0
  BY EmptySeq
<1>8. ASSUME NEW l \in Life
      PROVE  /\ lives[l] = [queue |-> <<>>, waiting |-> <<>>, call |-> 0, closed |-> FALSE,
                            stopped |-> FALSE, reader |-> "none", at |-> 0, left |-> {},
                            stop |-> "no", stopper |-> None, victim |-> 0]
             /\ lives[l].queue = <<>> /\ lives[l].waiting = <<>> /\ lives[l].call = 0
             /\ ~lives[l].closed /\ lives[l].reader = "none" /\ lives[l].stop = "no"
             /\ lives[l].victim = 0
  BY DEF Init
<1>9. TypeOK
  <2>1. session \in [Client -> {"none", "nm", "transport"}]
        /\ hot \in [Client -> Auth \cup {0}] /\ cap \in [Client -> Auth \cup {0}]
    BY DEF Init
  <2>2. auth \in [Auth -> AuthType]
    BY DEF Init, AuthType
  <2>3. lives \in [Life -> LifeType]
    BY <1>7 DEF Init, LifeType, Shutdown
  <2>4. cmds \in [Cmd -> CmdType]
    BY DEF Init, CmdType
  <2>5. client \in [Client -> ClientType]
    BY LimitAssumption DEF Init, ClientType
  <2>6. made \in [Bounded -> Nat]
    BY <1>3
  <2> QED
    BY <1>3, <2>1, <2>2, <2>3, <2>4, <2>5, <2>6, Types
<1>10. Numbered
  BY <1>1, <1>2, <1>3, <1>4, <1>6, <1>8 DEF Numbered
<1>11. Authority
  BY <1>3, <1>4, <1>5 DEF Authority
<1>12. Commands
  BY <1>6 DEF Commands
<1>13. Lines
  <2>1. <<>> \o <<>> = <<>> /\ DOMAIN <<>> = 1..0
    BY <1>7, ConcatEmptySeq, LenProperties
  <2>2. \A l \in Life : Line(l) = <<>>
    BY <1>8, <2>1 DEF Line
  <2> QED
    BY <2>1, <2>2 DEF Lines
<1>14. Threads
  BY <1>6, <1>8 DEF Threads
<1> QED
  BY <1>9, <1>10, <1>11, <1>12, <1>13, <1>14 DEF IoInv

\* What the theorems rest on: the invariants hold each other up.
LEMMA IoStep ==
  ASSUME IoInv, [Next]_ioVars
  PROVE  IoInv'
<1> USE DEF IoInv
<1>1. CASE Next
  <2>1. /\ AuthorityTypes' /\ Authority' /\ AuthorityNumbers'
        /\ made' \in [Bounded -> Nat] /\ bound' = bound
        /\ made'.lives <= bound.lives /\ made'.auths <= bound.auths /\ made'.cmds <= bound.cmds
    BY <1>1, AuthorityStep DEF AuthorityGoesOn, MadeGrows
  <2>2. cmds' \in [Cmd -> CmdType] /\ Commands' /\ CommandNumbers'
    BY <1>1, CommandsStep
  <2>3. lives' \in [Life -> LifeType] /\ LifeNumbers' /\ Lines' /\ Threads'
    BY <1>1, LivesStep DEF LivesGoOn
  <2>4. client' \in [Client -> ClientType]
    BY <1>1, ClientStep
  <2>5. TypeOK'
    <3>1. AuthorityTypes' /\ lives' \in [Life -> LifeType] /\ cmds' \in [Cmd -> CmdType]
          /\ client' \in [Client -> ClientType] /\ made' \in [Bounded -> Nat]
      BY <2>1, <2>2, <2>3, <2>4
    <3> QED
      BY <3>1 DEF TypeOK, AuthorityTypes, AuthType, LifeType, CmdType, ClientType
  <2>6. Numbered'
    BY <2>1, <2>2, <2>3 DEF Numbered, AuthorityNumbers, CommandNumbers, LifeNumbers
  <2> QED
    BY <2>1, <2>2, <2>3, <2>5, <2>6
<1>2. CASE UNCHANGED ioVars
  <2>1. UNCHANGED <<session, entry, auth, hot, cap, links, lives, cmds, client, made, bound>>
    BY <1>2 DEF ioVars
  <2>2. TypeOK'
    BY <2>1 DEF TypeOK
  <2>3. Numbered'
    BY <2>1 DEF Numbered
  <2>4. Authority'
    BY <2>1 DEF Authority, Authorised
  <2>5. Commands'
    BY <2>1 DEF Commands
  <2>6. Lines'
    BY <2>1, ZenonT(40) DEF Lines, Line
  <2>7. Threads'
    BY <2>1 DEF Threads, ReaderJoined
  <2> QED
    BY <2>2, <2>3, <2>4, <2>5, <2>6, <2>7
<1> QED
  BY <1>1, <1>2

\* Types, and what makes them hold: every number given out is that of an
\* authority, a command or a lifetime that was made (device_mgr.rs:217-240).
THEOREM IoInvariant == Spec => []IoInv
<1>1. Init => IoInv
  BY InitIoInv
<1>2. IoInv /\ [Next]_ioVars => IoInv'
  BY IoStep
<1> QED
  BY <1>1, <1>2, PTL DEF Spec

\* Once a stop has returned nothing of the lifetime is left running or waiting:
\* stop_entry's joins of the helper, the reader and the worker suffice, whatever
\* is queued, whoever waits for room and whichever thread detached the device
\* (device_mgr.rs, stop_entry and request_io_shutdown).
THEOREM StopsAreOver == Spec => []StoppedIsOver
<1>1. IoInv => StoppedIsOver
  <2> SUFFICES ASSUME IoInv, NEW l \in Life, lives[l].stop = "done"
               PROVE  /\ lives[l].call = 0 /\ lives[l].closed
                      /\ \A k \in Cmd : cmds[k].life = l => cmds[k].st \notin {"sent", "received", "accepted", "running"}
                      /\ lives[l].reader = "exited" \/ \E r \in Life : lives[r].victim = l
    BY DEF StoppedIsOver
  <2>1. lives[l].closed /\ ReaderJoined(l)
    BY DEF IoInv, Threads
  <2>2. lives[l].call = 0 /\ \A k \in Cmd : cmds[k].life = l => cmds[k].st # "sent"
    BY <2>1 DEF IoInv, Threads
  <2>3. \A k \in Cmd : cmds[k].life = l => cmds[k].st \notin {"received", "accepted", "running"}
    BY <2>2 DEF IoInv, Threads, Cmd
  <2> QED
    BY <2>1, <2>2, <2>3 DEF ReaderJoined
<1> QED
  BY <1>1, IoInvariant, PTL

\* A command is accepted in Accept, begins in HidBegins, and in no other step.
Begins(k) == cmds'[k].st \in {"accepted", "running"} /\ cmds'[k].st # cmds[k].st

LEMMA OthersStay ==
  ASSUME IoInv, Next, NEW k \in Cmd, Begins(k)
  PROVE  \E l \in Life : Accept(l) \/ HidBegins(l)
<1> DEFINE Same == cmds'[k].st \notin {"accepted", "running"} \/ cmds'[k].st = cmds[k].st
<1>1. cmds \in [Cmd -> CmdType] /\ TypeOK /\ ~Same
  BY Types DEF IoInv, Begins
<1>2. ASSUME UNCHANGED cmds PROVE Same
  BY <1>2
<1>3. ASSUME NEW j, NEW r, cmds' = [cmds EXCEPT ![j] = r], r.st \notin {"accepted", "running"} PROVE Same
  BY <1>1, <1>3
<1>4. ASSUME NEW ks, cmds' = [j \in Cmd |-> IF j \in ks THEN Over ELSE cmds[j]] PROVE Same
  <2>1. Over.st = "done"
    BY DEF Over
  <2> QED
    BY <1>4, <2>1
<1>5. ASSUME NEW j, NEW st \in CmdStates \ {"accepted", "running"}, cmds' = [cmds EXCEPT ![j].st = st] PROVE Same
  <2>1. CASE j \in Cmd
    <3>1. cmds'[j].st = st /\ \A i \in Cmd \ {j} : cmds'[i] = cmds[i]
      BY <1>1, <1>5, <2>1, CmdGetsState
    <3> QED
      BY <1>5, <3>1
  <2>2. CASE j \notin Cmd
    <3>1. cmds'[k] = cmds[k]
      BY <1>1, <1>5, <2>2
    <3> QED
      BY <3>1
  <2> QED
    BY <2>1, <2>2
<1> HIDE DEF Same
<1>6. ASSUME NEW c \in Client, AskNm(c) PROVE Same
  <2> DEFINE r == [auth |-> hot[c], life |-> auth[hot[c]].life, epoch |-> FALSE, st |-> "looked"]
  <2>1. cmds' = [cmds EXCEPT ![made.cmds + 1] = r] /\ r.st = "looked"
    BY <1>6 DEF AskNm, NewCmd
  <2> HIDE DEF r
  <2> QED
    BY <1>3, <2>1
<1>7. ASSUME NEW a \in Auth, AskTransport(a) PROVE Same
  <2> DEFINE r == [auth |-> a, life |-> 0, epoch |-> FALSE, st |-> "checked"]
  <2>1. cmds' = [cmds EXCEPT ![made.cmds + 1] = r] /\ r.st = "checked"
    BY <1>7 DEF AskTransport, NewCmd
  <2> HIDE DEF r
  <2> QED
    BY <1>3, <2>1
<1>8. ASSUME NEW j \in Cmd, LookUp(j) PROVE Same
  <2> DEFINE st == IF entry = 0 THEN "answered" ELSE "looked"
             r == [cmds[j] EXCEPT !.life = entry, !.st = st]
  <2>1. entry \in Life \cup {0} /\ cmds[j] \in CmdType /\ cmds' = [cmds EXCEPT ![j] = r]
    BY <1>1, <1>8, Types DEF LookUp
  <2>2. st \in CmdStates /\ st \notin {"accepted", "running"}
    BY DEF CmdStates
  <2> HIDE DEF st
  <2>3. r.st = st
    BY <2>1, <2>2 DEF CmdType
  <2> HIDE DEF r
  <2> QED
    BY <1>3, <2>1, <2>2, <2>3
<1>9. ASSUME NEW j \in Cmd, Enqueue(j) PROVE Same
  <2> DEFINE st == IF lives[cmds[j].life].closed THEN "answered" ELSE "sent"
             e == lives[cmds[j].life].stopped
             r == [cmds[j] EXCEPT !.epoch = e, !.st = st]
  <2>1. cmds[j] \in CmdType /\ cmds' = [cmds EXCEPT ![j] = r]
    BY <1>1, <1>9, Types DEF Enqueue
  <2>2. st \in CmdStates /\ st \notin {"accepted", "running"}
    BY DEF CmdStates
  <2> HIDE DEF st, e
  <2>3. r.st = st
    BY <2>1, <2>2 DEF CmdType
  <2> HIDE DEF r
  <2> QED
    BY <1>3, <2>1, <2>2, <2>3
<1>10. ASSUME NEW c \in Client, Reply(c) PROVE Same
  <2> DEFINE ks == {j \in Cmd : cmds[j].st = "answered" /\ NmCommandOf(j, c)}
  <2>1. cmds' = [j \in Cmd |-> IF j \in ks THEN Over ELSE cmds[j]]
    BY <1>10 DEF Reply
  <2> HIDE DEF ks
  <2> QED
    BY <1>4, <2>1
<1>11. ASSUME NEW a \in Auth, ConnectionEnds(a) PROVE Same
  BY <1>4, <1>11 DEF ConnectionEnds
<1>12. ASSUME NEW j \in Cmd, TransportReplies(j) PROVE Same
  <2>1. Over.st = "done"
    BY DEF Over
  <2> QED
    BY <1>3, <1>12, <2>1 DEF TransportReplies
<1>13. ASSUME NEW l \in Life, Receive(l) \/ Reject(l) \/ HidReturns(l) PROVE Same
  <2>1. PICK j : cmds' = [cmds EXCEPT ![j].st = "received"] \/ cmds' = [cmds EXCEPT ![j].st = "answered"]
    BY <1>13 DEF Receive, Reject, HidReturns, Answers
  <2>2. {"received", "answered"} \subseteq CmdStates \ {"accepted", "running"}
    BY DEF CmdStates
  <2> QED
    BY <1>5, <2>1, <2>2
<1>14. ASSUME NEW l \in Life, WorkerExits(l) PROVE Same
  <2>1. cmds' = [j \in Cmd |-> IF cmds[j].st = "sent" /\ cmds[j].life = l
                               THEN [cmds[j] EXCEPT !.st = "answered"] ELSE cmds[j]]
    BY <1>14 DEF WorkerExits
  <2>2. cmds[k] \in CmdType /\ (cmds'[k] = cmds[k] \/ cmds'[k] = [cmds[k] EXCEPT !.st = "answered"])
    BY <1>1, <2>1
  <2>3. cmds'[k].st = cmds[k].st \/ cmds'[k].st = "answered"
    BY <2>2 DEF CmdType
  <2> QED
    BY <2>3 DEF Same
<1>15. ForceClose => UNCHANGED cmds
  BY DEF ForceClose
<1>16. \A c \in Client : Open(c) \/ TransportConnect(c) \/ SetDataplaneMode(c) \/ Close(c)
                        \/ Writes(c) \/ WriteFails(c) \/ Leave(c) => UNCHANGED cmds
  BY DEF Open, TransportConnect, SetDataplaneMode, Close, Writes, WriteFails, Leave
<1>17. \A l \in Life : \/ Signal(l) \/ RequestShutdown(l) \/ JoinThreads(l)
                       \/ ReaderStops(l) \/ ReaderReads(l) \/ ReaderFails(l) \/ RouteChecks(l) \/ RouteSends(l)
                       => UNCHANGED cmds
  BY DEF Signal, RequestShutdown, JoinThreads, ReaderStops, ReaderReads, ReaderFails, RouteChecks, RouteSends
<1> QED
  BY <1>1, <1>2, <1>6, <1>7, <1>8, <1>9, <1>10, <1>11, <1>12, <1>13, <1>14, <1>15, <1>16, <1>17 DEF Next

\* What is in hand, and what the step makes of it.
LEMMA BegunInHand ==
  ASSUME IoInv, Next, NEW k \in Cmd, Begins(k)
  PROVE  \E l \in Life :
           /\ lives[l].call = k /\ cmds[k].life = l
           /\ \/ cmds'[k].st = "accepted" /\ cmds[k].st = "received" /\ Current(k, l)
              \/ cmds'[k].st = "running" /\ cmds[k].st = "accepted"
<1>1. PICK l \in Life : Accept(l) \/ HidBegins(l)
  BY OthersStay
<1> DEFINE j == lives[l].call
<1>2. /\ j # 0 /\ j \in Cmd /\ cmds[j].life = l
      /\ \/ cmds[j].st = "received" /\ Current(j, l) /\ cmds' = [cmds EXCEPT ![j].st = "accepted"]
         \/ cmds[j].st = "accepted" /\ cmds' = [cmds EXCEPT ![j].st = "running"]
  BY <1>1 DEF Accept, HidBegins, InHand, Proceeds, IoInv, Threads, TypeOK
<1>5. cmds \in [Cmd -> CmdType]
  BY Types DEF IoInv
<1>3. \A i \in Cmd \ {j} : cmds'[i] = cmds[i]
  <2> HIDE DEF j
  <2> QED
    BY <1>2, <1>5
<1>4. j = k
  BY <1>3 DEF Begins
<1>6. /\ cmds' = [cmds EXCEPT ![k].st = "accepted"] => cmds'[k].st = "accepted"
      /\ cmds' = [cmds EXCEPT ![k].st = "running"] => cmds'[k].st = "running"
  BY <1>5 DEF CmdType
<1> HIDE DEF j
<1> QED
  BY <1>2, <1>4, <1>6 DEF j

\* Of one authority a worker has one command in hand: NM commands of a binding go to
\* one lifetime, a connection has one command.
LEMMA OneInHand ==
  ASSUME IoInv, NEW j \in Cmd, NEW k \in Cmd, cmds[j].auth = cmds[k].auth,
         cmds[j].st \in {"accepted", "running"}, cmds[k].st \in {"accepted", "running"}
  PROVE  j = k
<1>1. cmds[k].auth # 0 /\ cmds[k].auth \in Auth
  BY DEF IoInv, Commands, TypeOK
<1>2. lives[cmds[j].life].call = j /\ lives[cmds[k].life].call = k
  BY DEF IoInv, Threads
<1>3. CASE auth[cmds[k].auth].kind = "transport"
  BY <1>1, <1>3 DEF IoInv, Commands
<1>4. CASE auth[cmds[k].auth].kind # "transport"
  <2>1. cmds[j].life = cmds[k].life
    BY <1>1, <1>4 DEF IoInv, Commands
  <2> QED
    BY <1>2, <2>1
<1> QED
  BY <1>3, <1>4

LEMMA AcceptedIsAuthorised ==
  ASSUME IoInv, NEW k \in Cmd, NEW l \in Life, cmds[k].st = "received", cmds[k].life = l, Current(k, l)
  PROVE  HasAuthority(cmds[k].auth, l)
<1>1. auth[cmds[k].auth].valid /\ cmds[k].auth \in Auth
  <2>1. cmds[k].auth \in Auth \cup {0} /\ cmds[k].auth # 0
    BY DEF IoInv, Commands, TypeOK
  <2> QED
    BY <2>1 DEF Current
<1>2. l = entry
  BY <1>1 DEF IoInv, Commands
<1>3. Authorised(cmds[k].auth)
  BY <1>1 DEF IoInv, Authority
<1> QED
  BY <1>2, <1>3 DEF Authorised, HasAuthority

\* What the theorem says of one step and one command.
CallIsAuthorised(k) ==
  LET a == cmds[k].auth
      l == cmds[k].life
  IN  /\ cmds[k].st # "accepted" /\ cmds'[k].st = "accepted" => HasAuthority(a, l)
      /\ cmds[k].st # "running" /\ cmds'[k].st = "running" =>
           /\ cmds[k].st = "accepted" /\ lives[l].call = k /\ lives[l].stop # "done"
           /\ \A j \in Cmd : cmds[j].auth = a /\ cmds[j].st \in {"accepted", "running"} => j = k

LEMMA CallsAuthorised ==
  ASSUME IoInv, Next, NEW k \in Cmd
  PROVE  CallIsAuthorised(k)
<1>1. CASE ~Begins(k)
  BY <1>1 DEF Begins, CallIsAuthorised
<1>2. ASSUME Begins(k), cmds'[k].st = "accepted" PROVE HasAuthority(cmds[k].auth, cmds[k].life)
  BY <1>2, BegunInHand, AcceptedIsAuthorised
<1>3. ASSUME Begins(k), cmds'[k].st = "running"
      PROVE  /\ cmds[k].st = "accepted" /\ lives[cmds[k].life].call = k /\ lives[cmds[k].life].stop # "done"
             /\ \A j \in Cmd : cmds[j].auth = cmds[k].auth /\ cmds[j].st \in {"accepted", "running"} => j = k
  <2>1. PICK l \in Life : lives[l].call = k /\ cmds[k].life = l /\ cmds[k].st = "accepted"
    BY <1>3, BegunInHand
  <2>2. lives[l].stop # "done"
    BY <2>1 DEF IoInv, Threads, Cmd
  <2>3. \A j \in Cmd : cmds[j].auth = cmds[k].auth /\ cmds[j].st \in {"accepted", "running"} => j = k
    BY <2>1, OneInHand
  <2> QED
    BY <2>1, <2>2, <2>3
<1> QED
  BY <1>1, <1>2, <1>3 DEF Begins, CallIsAuthorised

\* The worker lets a command through only on the authority its client has at that
\* moment, through the lifetime that is published, whatever happened to the session,
\* its plane or the Entry while the command was looked up, waited and was queued:
\* IoCommand::is_current (device_mgr.rs:127) suffices.  The call itself begins
\* without a lock, so the authority may be gone by then; what is called is the one
\* command of that authority that was let through, before the stop of its lifetime
\* has returned.
THEOREM ReportsAreAuthorised == Spec => CallsAreAuthorised
<1>1. IoInv /\ [Next]_ioVars =>
        [\A k \in Cmd :
           LET a == cmds[k].auth
               l == cmds[k].life
           IN  /\ cmds[k].st # "accepted" /\ cmds'[k].st = "accepted" => HasAuthority(a, l)
               /\ cmds[k].st # "running" /\ cmds'[k].st = "running" =>
                    /\ cmds[k].st = "accepted" /\ lives[l].call = k /\ lives[l].stop # "done"
                    /\ \A j \in Cmd : cmds[j].auth = a /\ cmds[j].st \in {"accepted", "running"} => j = k]_ioVars
  BY CallsAuthorised DEF CallIsAuthorised
<1> QED
  BY <1>1, IoInvariant, PTL DEF Spec, CallsAreAuthorised
=============================================================================
