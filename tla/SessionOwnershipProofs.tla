------------------------ MODULE SessionOwnershipProofs ------------------------
(***************************************************************************)
(* What SessionOwnership guarantees for any number of documents, tabs,     *)
(* sessions, revocations and requests in flight: what is gone owns         *)
(* nothing, a revocation that succeeded holds, and every session the       *)
(* daemon holds is in somebody's custody.                                  *)
(***************************************************************************)
EXTENDS SessionOwnership, FiniteSetTheorems, SequenceTheorems, TLAPS

USE PlaceAssumption, BoundAssumption, RevokeAssumption

(* Sets of tokens in order *)

Rank(S, x) == Cardinality({y \in S : y < x})

LEMMA TokenSets ==
  ASSUME NEW S \in SUBSET Token
  PROVE  IsFiniteSet(S) /\ Cardinality(S) \in Nat /\ Cardinality(S) <= MaxTokens
  <1>1. IsFiniteSet(Token) /\ Cardinality(Token) = MaxTokens
    BY FS_Interval DEF Token
  <1> QED BY <1>1, FS_Subset, FS_CardinalityType

LEMMA RankGrows ==
  ASSUME NEW S \in SUBSET Token, NEW x \in S, NEW y \in S, x < y
  PROVE  Rank(S, x) < Rank(S, y)
  <1> DEFINE below == {z \in S : z < x}
  <1>1. IsFiniteSet(below) /\ Cardinality(below) \in Nat /\ x \notin below
    BY TokenSets DEF Token
  <1>2. Cardinality(below \cup {x}) = Cardinality(below) + 1
    BY <1>1, FS_AddElement
  <1>3. below \cup {x} \in SUBSET {z \in S : z < y}
    <2>1. ASSUME NEW z \in below \cup {x}
          PROVE  z \in S /\ z < y
      <3>1. x \in Int /\ y \in Int /\ z \in Int /\ z \in S
        BY DEF Token
      <3> QED BY <3>1
    <2> QED BY <2>1
  <1>4. IsFiniteSet({z \in S : z < y}) /\ Cardinality({z \in S : z < y}) \in Nat
    BY TokenSets DEF Token
  <1>5. Cardinality(below \cup {x}) <= Cardinality({z \in S : z < y})
    BY <1>3, <1>4, FS_Subset
  <1> QED BY <1>1, <1>2, <1>4, <1>5 DEF Rank

LEMMA Ranks ==
  ASSUME NEW S \in SUBSET Token
  PROVE  /\ \A x \in S : Rank(S, x) + 1 \in 1..Cardinality(S)
         /\ \A x, y \in S : Rank(S, x) = Rank(S, y) => x = y
         /\ \A i \in 1..Cardinality(S) : \E x \in S : Rank(S, x) = i - 1
  <1> DEFINE n == Cardinality(S)
             f == [x \in S |-> Rank(S, x) + 1]
  <1>1. IsFiniteSet(S) /\ n \in Nat
    BY TokenSets
  <1>2. ASSUME NEW x \in S
        PROVE  Rank(S, x) \in Nat /\ Rank(S, x) + 1 \in 1..n
    <2>1. {y \in S : y < x} \in SUBSET S /\ {y \in S : y < x} # S
      BY DEF Token
    <2>2. Cardinality({y \in S : y < x}) < n /\ Cardinality({y \in S : y < x}) \in Nat
      BY <1>1, <2>1, FS_Subset, FS_CardinalityType
    <2> QED BY <1>1, <2>2 DEF Rank
  <1>3. ASSUME NEW x \in S, NEW y \in S, Rank(S, x) = Rank(S, y)
        PROVE  x = y
    <2>1. x \in Int /\ y \in Int /\ Rank(S, x) \in Int
      BY <1>2 DEF Token
    <2> QED BY <1>3, <2>1, RankGrows
  <1>4. f \in Injection(S, 1..n)
    <2>1. f \in [S -> 1..n]
      BY <1>2
    <2>2. \A x, y \in S : f[x] = f[y] => x = y
      BY <1>2, <1>3
    <2> HIDE DEF f
    <2> QED BY <2>1, <2>2 DEF Injection, IsInjective
  <1>5. IsFiniteSet(1..n) /\ Cardinality(1..n) = n
    BY <1>1, FS_Interval
  <1>6. f \in Surjection(S, 1..n)
    BY <1>4, <1>5, FS_Injection
  <1>7. \A i \in 1..n : \E x \in S : Rank(S, x) = i - 1
    <2>1. \A i \in 1..n : \E x \in S : f[x] = i
      BY <1>6 DEF Surjection
    <2> QED BY <1>1, <1>2, <2>1
  <1> QED BY <1>2, <1>3, <1>7

LEMMA SortedElements ==
  ASSUME NEW S \in SUBSET Token
  PROVE  /\ \A i \in 1..Cardinality(S) : Sorted(S)[i] \in S
         /\ \A x \in S : \E i \in 1..Cardinality(S) : Sorted(S)[i] = x
  <1>1. ASSUME NEW i \in 1..Cardinality(S)
        PROVE  Sorted(S)[i] \in S /\ Rank(S, Sorted(S)[i]) = i - 1
    <2>1. Sorted(S)[i] = CHOOSE x \in S : Rank(S, x) = i - 1
      BY DEF Sorted, Rank
    <2>2. \E x \in S : Rank(S, x) = i - 1
      BY Ranks
    <2> QED BY <2>1, <2>2
  <1>2. ASSUME NEW x \in S
        PROVE  \E i \in 1..Cardinality(S) : Sorted(S)[i] = x
    <2>1. PICK i \in 1..Cardinality(S) : i = Rank(S, x) + 1
      BY Ranks
    <2>2. Sorted(S)[i] \in S /\ Rank(S, Sorted(S)[i]) = i - 1 /\ Rank(S, x) \in Int
      <3>1. Rank(S, x) \in Nat
        BY TokenSets DEF Rank
      <3> QED BY <1>1, <2>1, <3>1
    <2>3. Rank(S, Sorted(S)[i]) = Rank(S, x)
      BY <2>1, <2>2, Ranks
    <2> QED BY <2>2, <2>3, Ranks
  <1> QED BY <1>1, <1>2

LEMMA LeastElement ==
  ASSUME NEW S \in SUBSET Token, S # {}
  PROVE  Least(S) \in S
  <1>1. Cardinality(S) \in Nat \ {0}
    BY TokenSets, FS_EmptySet
  <1>2. PICK x \in S : Rank(S, x) = 0
    BY <1>1, Ranks
  <1>3. {y \in S : y < x} = {}
    BY <1>2, TokenSets, FS_EmptySet DEF Rank
  <1>4. \A y \in S : x <= y
    BY <1>3 DEF Token
  <1> QED BY <1>4 DEF Least
-----------------------------------------------------------------------------
(* Types, and what is on the wire *)

Known == 1..opened
Closing == {"close", "cleanup", "drop"}
Opening == {"open", "lateOpen"}
OfDocument == {"open", "lateOpen", "close"}

Request == [k: Kind, e: Nat, t: Token \cup {Nothing}, owned: BOOLEAN, r: Revoke \cup {Nothing}]
Reply == [k: Kind \cup {"gone"}, e: Nat, t: Token \cup {Nothing}, owned: BOOLEAN,
          r: Revoke \cup {Nothing}, ok: BOOLEAN]
Revocation == [stage: {"idle", "removed", "closing", "next"}, by: Endpoint \cup {Nobody},
               todo: SUBSET Token, clean: BOOLEAN]

\* Requests and replies name documents that were registered and sessions that were granted.
GoodRequest(q) ==
  /\ q \in Request
  /\ q.k \in Closing => q.t \in Known
  /\ q.k \in OfDocument => q.e \in DOMAIN place

GoodReply(a) ==
  /\ a \in Reply
  /\ a.k \in Closing => a.t \in Known
  /\ a.k \in Opening => IF a.ok THEN a.t \in Known ELSE a.t = Nothing
  /\ a.k \in OfDocument => a.e \in DOMAIN place

FrameType ==
  /\ place \in Seq(Place) /\ Len(place) <= MaxEndpoints
  /\ live \in SUBSET (DOMAIN place)
  /\ lifetime \in [Endpoint -> {"none", "active", "retired"}]
  /\ scope \in [Endpoint -> {"unset", "none", "site"}]
  /\ closedTabs \in SUBSET Tab

OwnType ==
  /\ owner \in [Token -> DOMAIN place \cup {Nobody}]
  /\ count \in [Tab -> Nat]
  /\ grant \in BOOLEAN /\ revoked \in {"no", "interrupted", "done"}
  /\ revokes \in [Revoke -> Revocation]

WireType ==
  /\ up \in BOOLEAN
  /\ opened \in 0..MaxTokens /\ alive \in SUBSET Known /\ orphans \in SUBSET Known
  /\ asked \in Seq(Request) /\ \A i \in DOMAIN asked : GoodRequest(asked[i])
  /\ answers \in Seq(Reply) /\ \A i \in DOMAIN answers : GoodReply(answers[i])
  /\ ~up => asked = <<>> /\ answers = <<>>
  /\ rereading \in SUBSET [e: DOMAIN place, t: Known]
  /\ \A t \in Token : owner[t] # Nobody => t \in Known
  /\ \A r \in Revoke : revokes[r].todo \subseteq Known

OwnershipType == FrameType /\ OwnType /\ WireType

\* A session is granted once: one reply or one open that has yet to register
\* it, and until then nobody owns it or closes it.
GrantedAt(i, t) == i \in DOMAIN answers /\ answers[i].k \in Opening /\ answers[i].t = t
Rereading(t) == \E x \in rereading : x.t = t
Granted(t) == (\E i \in DOMAIN answers : GrantedAt(i, t)) \/ Rereading(t)

GrantsUnique ==
  \A t \in Token :
    /\ \A i, j \in DOMAIN answers : GrantedAt(i, t) /\ GrantedAt(j, t) => i = j
    /\ \A x, y \in rereading : x.t = t /\ y.t = t => x = y
    /\ \A i \in DOMAIN answers : GrantedAt(i, t) => ~Rereading(t)

\* A close of t is on the wire.
Busy(t) == \/ \E i \in DOMAIN asked : asked[i].k \in Closing /\ asked[i].t = t
           \/ \E i \in DOMAIN answers : answers[i].k \in Closing /\ answers[i].t = t

GrantsFresh ==
  \A t \in Token : Granted(t) =>
    /\ owner[t] = Nobody /\ t \notin orphans /\ ~Busy(t)
    /\ \A r \in Revoke : t \notin revokes[r].todo

\* The documents of a closed tab are not active.
ClosedTabs == \A e \in DOMAIN place : lifetime[e] = "active" => TabOf(e) \notin closedTabs

\* A tab counts an open only for a session that was handed to its caller.
HandedOut == {t \in Known : ~Granted(t)}
Counting == \A b \in Tab : count[b] <= Cardinality(HandedOut)

OwnershipInv ==
  /\ OwnershipType /\ GrantsUnique /\ GrantsFresh /\ ClosedTabs /\ Counting
  /\ RetiredFrameOwnsNothing /\ ClosedTabHasNoAuthority
-----------------------------------------------------------------------------
(* What the steps do to the wire *)

LEMMA Tabs ==
  ASSUME FrameType, NEW e \in DOMAIN place
  PROVE  e \in Endpoint /\ e # Nobody /\ place[e] \in Place /\ TabOf(e) \in Tab
  <1>1. place[e] \in Place /\ e \in 1..Len(place) /\ Len(place) \in Nat
    BY DEF FrameType
  <1> QED BY <1>1 DEF FrameType, TabOf, Tab, Endpoint, Nobody

\* Closes for the tokens ts are on their way, each once.
LEMMA CleanupAsks ==
  ASSUME OwnershipType, NEW ts \in SUBSET Known, NEW r \in Revoke \cup {Nothing}, up, CloseForCleanup(ts, r)
  PROVE  /\ asked' \in Seq(Request) /\ UNCHANGED <<owner, orphans>>
         /\ Len(asked') = Len(asked) + Cardinality(ts)
         /\ \A i \in DOMAIN asked : i \in DOMAIN asked' /\ asked'[i] = asked[i]
         /\ \A i \in DOMAIN asked' \ DOMAIN asked : \E t \in ts : asked'[i] = CleanupEntry(t, r)
         /\ \A t \in ts : \E i \in DOMAIN asked' : asked'[i] = CleanupEntry(t, r)
  <1> DEFINE n == Cardinality(ts)
             f == [i \in 1..n |-> CleanupEntry(Sorted(ts)[i], r)]
  <1>1. ts \in SUBSET Token /\ n \in Nat
    BY TokenSets DEF OwnershipType, WireType, Known, Token
  <1>2. ASSUME NEW t \in ts
        PROVE  CleanupEntry(t, r) \in Request
    BY <1>1 DEF CleanupEntry, Request, Kind, Nobody
  <1>3. f \in Seq(Request) /\ Len(f) = n
    <2>1. f \in [1..n -> Request]
      BY <1>1, <1>2, SortedElements
    <2> HIDE DEF f
    <2> QED BY <1>1, <2>1
  <1>4. asked' = asked \o f /\ UNCHANGED <<owner, orphans>>
    BY DEF CloseForCleanup
  <1>5. \A i \in 1..n : \E t \in ts : f[i] = CleanupEntry(t, r)
    BY <1>1, SortedElements
  <1>6. \A t \in ts : \E i \in 1..n : f[i] = CleanupEntry(t, r)
    BY <1>1, SortedElements
  <1> HIDE DEF f
  <1>7. asked \in Seq(Request)
    BY DEF OwnershipType, WireType
  <1>8. /\ asked' \in Seq(Request) /\ Len(asked') = Len(asked) + n
        /\ \A i \in 1..Len(asked) : asked'[i] = asked[i]
        /\ \A i \in 1..n : asked'[Len(asked) + i] = f[i]
    <2>1. asked' \in Seq(Request) /\ Len(asked') = Len(asked) + n
      <3>1. asked \o f \in Seq(Request) /\ Len(asked \o f) = Len(asked) + Len(f)
        BY <1>3, <1>7, ConcatProperties, Zenon
      <3> QED BY <1>3, <1>4, <3>1, Zenon
    <2>2. \A i \in 1..(Len(asked) + n) : asked'[i] = IF i <= Len(asked) THEN asked[i] ELSE f[i - Len(asked)]
      BY <1>1, <1>3, <1>4, <1>7, ConcatProperties
    <2>3. Len(asked) \in Nat
      BY <1>7
    <2> QED BY <1>1, <2>1, <2>2, <2>3
  <1>9. DOMAIN asked = 1..Len(asked) /\ DOMAIN asked' = 1..(Len(asked) + n) /\ Len(asked) \in Nat
    BY <1>7, <1>8
  <1>10. ASSUME NEW i \in DOMAIN asked' \ DOMAIN asked
         PROVE  \E t \in ts : asked'[i] = CleanupEntry(t, r)
    <2>1. PICK j \in 1..n : i = Len(asked) + j
      <3>1. i - Len(asked) \in 1..n
        BY <1>1, <1>9
      <3> QED BY <1>9, <3>1
    <2> QED BY <1>5, <1>8, <2>1
  <1>11. ASSUME NEW t \in ts
         PROVE  \E i \in DOMAIN asked' : asked'[i] = CleanupEntry(t, r)
    <2>1. PICK j \in 1..n : f[j] = CleanupEntry(t, r)
      BY <1>6
    <2>2. Len(asked) + j \in DOMAIN asked'
      BY <1>1, <1>9
    <2> QED BY <1>8, <2>1, <2>2
  <1>12. \A i \in DOMAIN asked : i \in DOMAIN asked' /\ asked'[i] = asked[i]
    BY <1>1, <1>8, <1>9
  <1> QED BY <1>4, <1>8, <1>10, <1>11, <1>12

\* The wire and the tables stay, a request is made, the sessions ts are closed,
\* or a session gets its owner.
WireStays == UNCHANGED <<owner, orphans, rereading, up, asked, answers, alive, opened>>
Asks ==
  /\ up
  /\ \E e \in DOMAIN place, k \in {"open", "close"}, t \in Known \cup {Nothing} :
       Ask(k, e, t) /\ (k = "close" => t \in Known /\ owner[t] # Nobody)
  /\ UNCHANGED <<owner, orphans, rereading, up, answers, alive, opened>>
Cleans(ts, r) ==
  /\ CloseForCleanup(ts, r)
  /\ \A t \in ts : ~Granted(t)'
  /\ rereading' = {x \in rereading : x.t \notin ts}
  /\ UNCHANGED <<up, answers, alive, opened>>
Registers(x) ==
  /\ OwnerChecked(x)
  /\ Register(x.t, x.e)
  /\ rereading' = rereading \ {x}
  /\ UNCHANGED <<grant, frameVars, orphans, up, asked, answers, alive, opened>>

LEMMA CleansSettled ==
  ASSUME OwnershipType, NEW ts \in SUBSET Known, NEW r, CloseForCleanup(ts, r), \A t \in ts : ~Granted(t),
         UNCHANGED <<up, rereading, answers, alive, opened>>
  PROVE  Cleans(ts, r)
  BY DEF Cleans, Granted, GrantedAt, Rereading

LEMMA CleansOwned ==
  ASSUME OwnershipType, GrantsFresh, NEW ts \in SUBSET Token, NEW r, CloseForCleanup(ts, r),
         \A t \in ts : owner[t] # Nobody, UNCHANGED <<up, rereading, answers, alive, opened>>
  PROVE  Cleans(ts, r) /\ ts \in SUBSET Known
  <1>1. ts \in SUBSET Known /\ \A t \in ts : ~Granted(t)
    BY DEF OwnershipType, WireType, GrantsFresh
  <1> QED BY <1>1, CleansSettled

LEMMA FrameCleans ==
  ASSUME OwnershipType, GrantsFresh,
         \/ \E p \in Place : RegisterFrameEndpoint(p)
         \/ \E e \in Endpoint : RetireEndpoint(e)
         \/ \E tab \in Tab : PurgeTab(tab)
  PROVE  \E ts \in SUBSET Known : Cleans(ts, Nothing)
  <1>1. ASSUME NEW tab, NEW gone \in SUBSET live, NEW news, ReplaceEndpoints(tab, gone, news)
        PROVE  \E ts \in SUBSET Known : Cleans(ts, Nothing)
    <2> DEFINE ts == Tokens(gone \cup (Moved(tab) \ news))
    <2>1. ts \in SUBSET Token /\ \A t \in ts : owner[t] # Nobody
      <3>1. gone \cup (Moved(tab) \ news) \subseteq live /\ Nobody \notin live
        BY <1>1 DEF ReplaceEndpoints, Moved, OwnershipType, FrameType, Nobody
      <3> QED BY <3>1 DEF Tokens
    <2>2. CloseForCleanup(ts, Nothing) /\ UNCHANGED <<up, rereading, answers, alive, opened>>
      BY <1>1 DEF ReplaceEndpoints
    <2> HIDE DEF ts
    <2> QED BY <2>1, <2>2, CleansOwned
  <1>2. ASSUME NEW p \in Place, RegisterFrameEndpoint(p)
        PROVE  \E ts \in SUBSET Known : Cleans(ts, Nothing)
    <2> DEFINE gone == {e \in live : TabOf(e) = p.tab /\ p.frame \in {0, place[e].frame}}
    <2>1. gone \in SUBSET live /\ ReplaceEndpoints(p.tab, gone, {Len(place) + 1})
      BY <1>2 DEF RegisterFrameEndpoint
    <2> HIDE DEF gone
    <2> QED BY <1>1, <2>1
  <1>3. ASSUME NEW e \in Endpoint, RetireEndpoint(e)
        PROVE  \E ts \in SUBSET Known : Cleans(ts, Nothing)
    <2>1. {e} \in SUBSET live /\ ReplaceEndpoints(TabOf(e), {e}, {})
      BY <1>3 DEF RetireEndpoint
    <2> QED BY <1>1, <2>1
  <1>4. ASSUME NEW tab \in Tab, PurgeTab(tab)
        PROVE  \E ts \in SUBSET Known : Cleans(ts, Nothing)
    <2>1. TokensOfTab(tab) \in SUBSET Token /\ \A t \in TokensOfTab(tab) : owner[t] # Nobody
      BY DEF TokensOfTab
    <2>2. CloseForCleanup(TokensOfTab(tab), Nothing) /\ UNCHANGED <<up, rereading, answers, alive, opened>>
      BY <1>4 DEF PurgeTab
    <2> QED BY <2>1, <2>2, CleansOwned
  <1> QED BY <1>2, <1>3, <1>4

\* The next close of a revocation.
LEMMA RevokeCleans ==
  ASSUME OwnershipType, GrantsFresh, NEW r \in Revoke, RevokeCollects(r) \/ RevokeGoesOn(r)
  PROVE  WireStays \/ \E t \in Known : Cleans({t}, r)
  <1>1. PICK todo \in SUBSET Token : todo \in {TokensOfSite, revokes[r].todo} /\ RevokeCloses(r, todo)
    <2>1. revokes[r].todo \in SUBSET Token
      BY DEF OwnershipType, OwnType, Revocation
    <2> QED BY <2>1 DEF RevokeCollects, RevokeGoesOn, TokensOfSite
  <1>2. todo \in SUBSET Known /\ \A t \in todo : ~Granted(t)
    BY <1>1 DEF OwnershipType, WireType, GrantsFresh, TokensOfSite
  <1>3. UNCHANGED <<up, rereading, answers, alive, opened>>
    BY DEF RevokeCollects, RevokeGoesOn
  <1>4. CASE ~ScopeCurrent(revokes[r].by) \/ todo = {}
    BY <1>1, <1>3, <1>4 DEF RevokeCloses, WireStays, ownVars
  <1>5. CASE ~(~ScopeCurrent(revokes[r].by) \/ todo = {})
    <2>1. Least(todo) \in todo
      BY <1>5, LeastElement
    <2>2. CloseForCleanup({Least(todo)}, r)
      BY <1>1, <1>5 DEF RevokeCloses
    <2>3. {Least(todo)} \in SUBSET Known /\ \A t \in {Least(todo)} : ~Granted(t)
      BY <1>2, <2>1
    <2> QED BY <1>3, <2>2, <2>3, CleansSettled
  <1> QED BY <1>4, <1>5

LEMMA OpenCases ==
  ASSUME OwnershipType, GrantsUnique, NEW x \in rereading, HandleOpenRegisters(x)
  PROVE  Registers(x) \/ (Cleans({x.t}, Nothing) /\ x.t \in Known)
  <1>1. x.t \in Known /\ x.t \in Token
    BY DEF OwnershipType, WireType, Known, Token
  <1>2. CASE OwnerChecked(x)
    BY <1>2 DEF HandleOpenRegisters, Registers
  <1>3. CASE ~OwnerChecked(x)
    <2>1. rereading' = {y \in rereading : y.t \notin {x.t}}
      BY <1>1, <1>3 DEF HandleOpenRegisters, GrantsUnique
    <2>2. ~Granted(x.t)'
      <3>1. answers' = answers
        BY <1>3 DEF HandleOpenRegisters
      <3> QED BY <1>1, <2>1, <3>1 DEF Granted, GrantedAt, Rereading, GrantsUnique
    <2> QED BY <1>1, <1>3, <2>1, <2>2 DEF HandleOpenRegisters, Cleans
  <1> QED BY <1>2, <1>3

LEMMA AskCases ==
  ASSUME OwnershipType, GrantsFresh, NEW e \in Endpoint,
         HandleOpen(e) \/ \E t \in Token : HandleClose(e, t) \/ HandleCleanupSession(e, t)
  PROVE  Asks \/ \E t \in Known : Cleans({t}, Nothing)
  <1>1. CASE HandleOpen(e)
    <2>1. e \in DOMAIN place
      BY <1>1 DEF HandleOpen, AuthorityCurrent, OwnershipType, FrameType
    <2> QED BY <1>1, <2>1 DEF HandleOpen, Asks, ownVars, Nothing
  <1>2. ASSUME NEW t \in Token, HandleClose(e, t)
        PROVE  Asks
    <2>1. e \in DOMAIN place /\ owner[t] # Nobody /\ t \in Known
      BY <1>2 DEF HandleClose, OwnershipType, FrameType, WireType, Nobody, Endpoint
    <2> QED BY <1>2, <2>1 DEF HandleClose, Asks, ownVars, Nothing
  <1>3. ASSUME NEW t \in Token, HandleCleanupSession(e, t)
        PROVE  \E u \in Known : Cleans({u}, Nothing)
    <2>1. {t} \in SUBSET Token /\ \A u \in {t} : owner[u] # Nobody
      BY <1>3 DEF HandleCleanupSession, Nobody, Endpoint
    <2>2. CloseForCleanup({t}, Nothing) /\ UNCHANGED <<up, rereading, answers, alive, opened>>
      BY <1>3 DEF HandleCleanupSession
    <2>3. Cleans({t}, Nothing) /\ {t} \in SUBSET Known
      BY <2>1, <2>2, CleansOwned
    <2> QED BY <2>3
  <1> QED BY <1>1, <1>2, <1>3

\* The grant and the revocations stay.
RestStays == UNCHANGED <<grant, revokes, revoked>>

LEMMA StepCases ==
  ASSUME OwnershipType, GrantsUnique, GrantsFresh, [Next]_vars
  PROVE  \/ RestStays /\ \/ WireStays \/ PortReconnects \/ Asks
                         \/ \E ts \in SUBSET Known : Cleans(ts, Nothing)
                         \/ \E x \in rereading : Registers(x)
                         \/ DaemonAnswers \/ DeviceGone
         \/ WireStays /\ \E by \in Endpoint \cup {Nobody} : PairDevice(by) \/ UnpairDevice(by)
         \/ WireStays /\ \E r \in Revoke, by \in Endpoint \cup {Nobody} : RevokeRemoves(r, by)
         \/ \E r \in Revoke : RevokeCollects(r) \/ RevokeGoesOn(r)
         \/ Deliver \/ (\E i \in DOMAIN asked : RequestTimesOut(i)) \/ PortLost
  <1> DEFINE Cleaning == \E ts \in SUBSET Known : Cleans(ts, Nothing)
  <1>0. \A t \in Known : {t} \in SUBSET Known
    OBVIOUS
  <1>1. CASE \E e \in Endpoint, t \in Token : HandleOpen(e) \/ HandleClose(e, t) \/ HandleCleanupSession(e, t)
    <2>1. Asks \/ Cleaning
      BY <1>0, <1>1, AskCases
    <2>2. RestStays
      BY <1>1 DEF RestStays, HandleOpen, HandleClose, HandleCleanupSession
    <2> QED BY <2>1, <2>2
  <1>2. CASE RetryOrphanCleanup
    <2>1. orphans \in SUBSET Known /\ \A t \in orphans : t \in Token /\ ~Granted(t)
      BY DEF OwnershipType, WireType, GrantsFresh, Known, Token
    <2>2. CloseForCleanup(orphans, Nothing) /\ UNCHANGED <<up, rereading, answers, alive, opened>> /\ RestStays
      BY <1>2 DEF RetryOrphanCleanup, RestStays
    <2> QED BY <2>1, <2>2, CleansSettled
  <1>3. CASE \/ \E by \in Endpoint \cup {Nobody} : PairDevice(by) \/ UnpairDevice(by)
             \/ \E r \in Revoke, by \in Endpoint \cup {Nobody} : RevokeRemoves(r, by)
    <2>1. WireStays
      BY <1>3 DEF PairDevice, UnpairDevice, RevokeRemoves, WireStays, ownVars, wireVars
    <2> QED BY <1>3, <2>1
  <1>4. CASE UNCHANGED vars
    BY <1>4 DEF vars, WireStays, RestStays, ownVars, wireVars
  <1>5. CASE \E x \in rereading : HandleOpenRegisters(x)
    <2>1. (\E x \in rereading : Registers(x)) \/ Cleaning
      BY <1>0, <1>5, OpenCases
    <2>2. RestStays
      BY <1>5 DEF HandleOpenRegisters, RestStays
    <2> QED BY <2>1, <2>2
  <1>6. CASE \E e \in Endpoint : HandleOpen(e)
    <2>1. Asks \/ Cleaning
      BY <1>0, <1>6, AskCases
    <2>2. RestStays
      BY <1>6 DEF RestStays, HandleOpen
    <2> QED BY <2>1, <2>2
  <1>7. ASSUME NEW i \in 1..(MaxQueue + MaxTokens), RequestTimesOut(i)
        PROVE  \E j \in DOMAIN asked : RequestTimesOut(j)
    BY <1>7 DEF RequestTimesOut
  <1>8. CASE \/ \E p \in Place : RegisterFrameEndpoint(p)
             \/ \E e \in Endpoint : RetireEndpoint(e)
             \/ \E tab \in Tab : PurgeTab(tab)
    <2>1. Cleaning
      BY <1>8, FrameCleans
    <2>2. RestStays
      BY <1>8 DEF RegisterFrameEndpoint, RetireEndpoint, ReplaceEndpoints, PurgeTab, RestStays
    <2> QED BY <2>1, <2>2
  <1>9. CASE PortReconnects \/ DaemonAnswers \/ DeviceGone
    <2>1. RestStays
      BY <1>9 DEF PortReconnects, DaemonAnswers, DeviceGone, RestStays
    <2> QED BY <1>9, <2>1
  <1> QED BY <1>1, <1>2, <1>3, <1>4, <1>5, <1>6, <1>7, <1>8, <1>9 DEF Next, Event

LEMMA WireCases ==
  ASSUME OwnershipType, GrantsUnique, GrantsFresh, [Next]_vars
  PROVE  \/ WireStays \/ PortReconnects \/ Asks
         \/ \E ts \in SUBSET Known, r \in Revoke \cup {Nothing} : Cleans(ts, r)
         \/ \E x \in rereading : Registers(x)
         \/ Deliver \/ (\E i \in DOMAIN asked : RequestTimesOut(i)) \/ PortLost \/ DaemonAnswers \/ DeviceGone
  <1>1. \A t \in Known : {t} \in SUBSET Known
    OBVIOUS
  <1>2. CASE \E r \in Revoke : RevokeCollects(r) \/ RevokeGoesOn(r)
    BY <1>1, <1>2, RevokeCleans
  <1> QED BY <1>2, StepCases
-----------------------------------------------------------------------------
(* Documents *)

LEMMA FrameCases ==
  ASSUME [Next]_vars
  PROVE  \/ UNCHANGED frameVars
         \/ \E p \in Place : RegisterFrameEndpoint(p)
         \/ \E e \in Endpoint : RetireEndpoint(e)
         \/ \E tab \in Tab : PurgeTab(tab)
  BY DEF Next, Event, vars, HandleOpen, PairDevice, UnpairDevice, RevokeRemoves, RevokeCollects, RevokeGoesOn,
         HandleOpenRegisters, HandleClose, HandleCleanupSession, RetryOrphanCleanup, Deliver, RequestTimesOut,
         PortLost, PortReconnects, DaemonAnswers, DeviceGone

LEMMA ScopeType ==
  ASSUME NEW tab
  PROVE  FreshScope(tab) \in {"none", "site"}
  BY DEF FreshScope

LEMMA RegisterFrame ==
  ASSUME FrameType, NEW p \in Place, RegisterFrameEndpoint(p)
  PROVE  /\ place' \in Seq(Place) /\ Len(place') <= MaxEndpoints
         /\ DOMAIN place' = DOMAIN place \cup {Len(place) + 1} /\ Len(place) + 1 \notin DOMAIN place
         /\ \A e \in DOMAIN place : place'[e] = place[e]
         /\ place'[Len(place) + 1] = p
  BY SMTT(30) DEF RegisterFrameEndpoint, FrameType, Endpoint

LEMMA PlaceGrows ==
  ASSUME FrameType, [Next]_vars
  PROVE  /\ DOMAIN place \subseteq DOMAIN place'
         /\ \A e \in DOMAIN place : place'[e] = place[e]
  BY FrameCases, RegisterFrame DEF frameVars, RetireEndpoint, PurgeTab

LEMMA FrameStep ==
  ASSUME FrameType, [Next]_vars
  PROVE  FrameType'
  <1>1. CASE UNCHANGED frameVars
    BY <1>1 DEF frameVars, FrameType
  <1>2. ASSUME NEW tab, NEW gone, NEW news \in SUBSET (DOMAIN place'), ReplaceEndpoints(tab, gone, news),
               DOMAIN place \subseteq DOMAIN place'
        PROVE  /\ live' \in SUBSET (DOMAIN place') /\ scope' \in [Endpoint -> {"unset", "none", "site"}]
               /\ lifetime' \in [Endpoint -> {"none", "active", "retired"}]
    <2>1. live' \in SUBSET (DOMAIN place')
      BY <1>2 DEF ReplaceEndpoints, FrameType
    <2>2. scope' \in [Endpoint -> {"unset", "none", "site"}]
      BY <1>2, ScopeType DEF ReplaceEndpoints, FrameType
    <2>3. lifetime' \in [Endpoint -> {"none", "active", "retired"}]
      BY <1>2 DEF ReplaceEndpoints, Lifetimes, FrameType
    <2> QED BY <2>1, <2>2, <2>3
  <1>3. ASSUME NEW p \in Place, RegisterFrameEndpoint(p)
        PROVE  FrameType'
    <2> DEFINE gone == {e \in live : TabOf(e) = p.tab /\ p.frame \in {0, place[e].frame}}
    <2>1. ReplaceEndpoints(p.tab, gone, {Len(place) + 1}) /\ closedTabs' = closedTabs
      BY <1>3 DEF RegisterFrameEndpoint
    <2>2. {Len(place) + 1} \in SUBSET (DOMAIN place') /\ DOMAIN place \subseteq DOMAIN place'
      BY <1>3, RegisterFrame
    <2> HIDE DEF gone
    <2>3. /\ live' \in SUBSET (DOMAIN place') /\ scope' \in [Endpoint -> {"unset", "none", "site"}]
          /\ lifetime' \in [Endpoint -> {"none", "active", "retired"}]
      BY <1>2, <2>1, <2>2
    <2> QED BY <1>3, <2>1, <2>3, RegisterFrame DEF FrameType
  <1>4. ASSUME NEW e \in Endpoint, RetireEndpoint(e)
        PROVE  FrameType'
    <2>1. ReplaceEndpoints(TabOf(e), {e}, {}) /\ UNCHANGED <<place, closedTabs>>
      BY <1>4 DEF RetireEndpoint
    <2>2. /\ live' \in SUBSET (DOMAIN place') /\ scope' \in [Endpoint -> {"unset", "none", "site"}]
          /\ lifetime' \in [Endpoint -> {"none", "active", "retired"}]
      BY <1>2, <2>1
    <2> QED BY <2>1, <2>2 DEF FrameType
  <1>5. ASSUME NEW tab \in Tab, PurgeTab(tab)
        PROVE  FrameType'
    BY <1>5 DEF PurgeTab, FrameType
  <1> QED BY <1>1, <1>3, <1>4, <1>5, FrameCases

\* A document that is active was active, or is new in a tab that is open.
LEMMA ActiveCases ==
  ASSUME FrameType, [Next]_vars, NEW e \in DOMAIN place', lifetime'[e] = "active"
  PROVE  \/ e \in DOMAIN place /\ lifetime[e] = "active"
         \/ e \notin DOMAIN place /\ place'[e].tab \notin closedTabs /\ closedTabs' = closedTabs
  <1>1. e \in Endpoint
    BY FrameStep DEF FrameType, Endpoint
  <1>2. CASE UNCHANGED frameVars
    BY <1>2 DEF frameVars
  <1>3. ASSUME NEW p \in Place, RegisterFrameEndpoint(p)
        PROVE  \/ e \in DOMAIN place /\ lifetime[e] = "active"
               \/ e \notin DOMAIN place /\ place'[e].tab \notin closedTabs /\ closedTabs' = closedTabs
    <2>1. CASE e = Len(place) + 1
      BY <1>3, <2>1, RegisterFrame DEF RegisterFrameEndpoint
    <2>2. CASE e # Len(place) + 1
      <3>1. e \in DOMAIN place
        BY <1>3, <2>2, RegisterFrame
      <3>2. lifetime[e] = "active"
        BY <1>1, <1>3, <2>2 DEF RegisterFrameEndpoint, ReplaceEndpoints, Lifetimes
      <3> QED BY <3>1, <3>2
    <2> QED BY <2>1, <2>2
  <1>4. ASSUME NEW d \in Endpoint, RetireEndpoint(d)
        PROVE  e \in DOMAIN place /\ lifetime[e] = "active"
    BY <1>1, <1>4 DEF RetireEndpoint, ReplaceEndpoints, Lifetimes
  <1>5. ASSUME NEW tab \in Tab, PurgeTab(tab)
        PROVE  e \in DOMAIN place /\ lifetime[e] = "active"
    BY <1>1, <1>5 DEF PurgeTab
  <1> QED BY <1>2, <1>3, <1>4, <1>5, FrameCases

LEMMA ClosedTabsStep ==
  ASSUME FrameType, ClosedTabs, [Next]_vars
  PROVE  ClosedTabs'
  <1> SUFFICES ASSUME NEW e \in DOMAIN place', lifetime'[e] = "active"
               PROVE  place'[e].tab \notin closedTabs'
    BY DEF ClosedTabs, TabOf
  <1>1. e \in DOMAIN place => place'[e] = place[e] /\ e \in Endpoint
    BY PlaceGrows, Tabs
  <1>2. CASE e \in DOMAIN place /\ lifetime[e] = "active"
    <2>1. place[e].tab \notin closedTabs
      BY <1>2 DEF ClosedTabs, TabOf
    <2>2. ASSUME NEW tab \in Tab, PurgeTab(tab)
          PROVE  place[e].tab # tab
      BY <1>1, <1>2, <2>2 DEF PurgeTab, TabOf
    <2>3. CASE \E tab \in Tab : PurgeTab(tab)
      BY <1>1, <1>2, <2>1, <2>2, <2>3 DEF PurgeTab
    <2>4. CASE ~\E tab \in Tab : PurgeTab(tab)
      <3>1. closedTabs' = closedTabs
        BY <2>4, FrameCases DEF frameVars, RegisterFrameEndpoint, RetireEndpoint
      <3> QED BY <1>1, <1>2, <2>1, <3>1
    <2> QED BY <2>3, <2>4
  <1> QED BY <1>2, ActiveCases
-----------------------------------------------------------------------------
(* Revocations, counts and owners keep their types *)

LEMMA ResumeCases ==
  ASSUME OwnType, NEW r \in Revoke \cup {Nothing}, Resume(r)
  PROVE  /\ revokes' \in [Revoke -> Revocation]
         /\ \A s \in Revoke : /\ revokes'[s].todo = revokes[s].todo /\ revokes'[s].clean = revokes[s].clean
                              /\ revokes'[s].by = revokes[s].by
                              /\ s # r => revokes'[s] = revokes[s]
                              /\ s = r => revokes'[s].stage = "next"
  <1>1. CASE r = Nothing
    BY <1>1 DEF Resume, OwnType, Nothing
  <1>2. CASE r # Nothing
    <2>1. PICK v \in Revocation : v = revokes[r]
      BY <1>2 DEF OwnType
    <2> DEFINE w == [v EXCEPT !.stage = "next"]
    <2>2. w \in Revocation /\ w.todo = v.todo /\ w.clean = v.clean /\ w.by = v.by /\ w.stage = "next"
      BY DEF Revocation
    <2>3. revokes' = [revokes EXCEPT ![r] = w]
      BY <1>2, <2>1 DEF Resume
    <2> HIDE DEF w
    <2> QED BY <1>2, <2>1, <2>2, <2>3 DEF OwnType
  <1> QED BY <1>1, <1>2

LEMMA RevokeEndsCases ==
  ASSUME OwnType, NEW r \in Revoke, NEW how \in {"interrupted", "done"}, RevokeEnds(r, how)
  PROVE  /\ revokes' \in [Revoke -> Revocation] /\ revoked' \in {how, revoked}
         /\ revokes'[r].stage = "idle" /\ revokes'[r].todo = {}
         /\ \A s \in Revoke \ {r} : revokes'[s] = revokes[s]
         /\ revokes[r].clean => revoked' = how
         /\ ~revokes[r].clean => revoked' = revoked
  <1>1. NoRevocation \in Revocation
    BY DEF NoRevocation, Revocation, Nobody
  <1> QED BY <1>1 DEF RevokeEnds, OwnType, NoRevocation

\* A revocation closes the next session, or ends.
LEMMA RevokeClosesCases ==
  ASSUME OwnType, NEW r \in Revoke, NEW todo \in SUBSET Token, RevokeCloses(r, todo)
  PROVE  \/ /\ ~ScopeCurrent(revokes[r].by) \/ todo = {}
            /\ RevokeEnds(r, IF ScopeCurrent(revokes[r].by) THEN "done" ELSE "interrupted")
            /\ UNCHANGED <<ownVars, asked>>
         \/ \E t \in todo :
              /\ count' = CountWithout({t}) /\ CloseForCleanup({t}, r) /\ revoked' = revoked
              /\ revokes' \in [Revoke -> Revocation]
              /\ revokes'[r].todo = todo \ {t} /\ revokes'[r].clean = revokes[r].clean
              /\ revokes'[r].stage = IF up THEN "closing" ELSE "next"
              /\ \A s \in Revoke \ {r} : revokes'[s] = revokes[s]
  <1>1. CASE ~ScopeCurrent(revokes[r].by) \/ todo = {}
    BY <1>1 DEF RevokeCloses
  <1>2. CASE ~(~ScopeCurrent(revokes[r].by) \/ todo = {})
    <2> DEFINE t == Least(todo)
    <2>1. t \in todo
      BY <1>2, LeastElement
    <2>2. /\ count' = CountWithout({t}) /\ CloseForCleanup({t}, r) /\ revoked' = revoked
          /\ revokes' = [revokes EXCEPT ![r].todo = todo \ {t}, ![r].stage = IF up THEN "closing" ELSE "next"]
      BY <1>2 DEF RevokeCloses
    <2> HIDE DEF t
    <2>3. PICK v \in Revocation : v = revokes[r]
      BY DEF OwnType
    <2> DEFINE w == [v EXCEPT !.todo = todo \ {t}, !.stage = IF up THEN "closing" ELSE "next"]
    <2>4. w \in Revocation /\ w.todo = todo \ {t} /\ w.clean = v.clean /\ w.stage = IF up THEN "closing" ELSE "next"
      BY DEF Revocation
    <2>5. revokes' = [revokes EXCEPT ![r] = w]
      BY <2>2, <2>3 DEF OwnType
    <2> HIDE DEF w
    <2>6. revokes' \in [Revoke -> Revocation] /\ revokes'[r] = w /\ \A s \in Revoke \ {r} : revokes'[s] = revokes[s]
      BY <2>4, <2>5 DEF OwnType
    <2> QED BY <2>1, <2>2, <2>3, <2>4, <2>6
  <1> QED BY <1>1, <1>2

LEMMA RevokesType ==
  ASSUME OwnershipType, [Next]_vars
  PROVE  /\ revokes' \in [Revoke -> Revocation] /\ grant' \in BOOLEAN
         /\ revoked' \in {"no", "interrupted", "done"}
         /\ \A r \in Revoke : revokes'[r].todo \subseteq revokes[r].todo \cup TokensOfSite
  <1> USE DEF OwnershipType, OwnType
  <1>1. CASE UNCHANGED <<revokes, grant, revoked>>
    BY <1>1
  <1>2. ASSUME NEW by, PairDevice(by)
        PROVE  /\ revokes' \in [Revoke -> Revocation] /\ grant' \in BOOLEAN
               /\ revoked' \in {"no", "interrupted", "done"}
               /\ \A r \in Revoke : revokes'[r].todo \subseteq revokes[r].todo
    <2>1. ASSUME NEW r \in Revoke
          PROVE  [revokes[r] EXCEPT !.clean = FALSE] \in Revocation /\ revokes'[r].todo = revokes[r].todo
      BY <1>2 DEF PairDevice, Revocation
    <2> QED BY <1>2, <2>1 DEF PairDevice, AddAllowedDevice
  <1>3. CASE \E by : UnpairDevice(by)
    BY <1>3 DEF UnpairDevice, RemoveAllowedDevice
  <1>4. ASSUME NEW r \in Revoke, NEW by \in Endpoint \cup {Nobody}, RevokeRemoves(r, by)
        PROVE  /\ revokes' \in [Revoke -> Revocation] /\ grant' \in BOOLEAN
               /\ revoked' \in {"no", "interrupted", "done"}
               /\ \A s \in Revoke : revokes'[s].todo \subseteq revokes[s].todo
    <2>1. [stage |-> "removed", by |-> by, todo |-> {}, clean |-> TRUE] \in Revocation
      BY DEF Revocation
    <2> QED BY <1>4, <2>1 DEF RevokeRemoves, RemoveAllowedDevice
  <1>5. ASSUME NEW r \in Revoke, RevokeCollects(r) \/ RevokeGoesOn(r)
        PROVE  /\ revokes' \in [Revoke -> Revocation] /\ grant' \in BOOLEAN
               /\ revoked' \in {"no", "interrupted", "done"}
               /\ \A s \in Revoke : revokes'[s].todo \subseteq revokes[s].todo \cup TokensOfSite
    <2>1. PICK todo \in SUBSET Token : todo \in {TokensOfSite, revokes[r].todo} /\ RevokeCloses(r, todo)
      <3>1. revokes[r].todo \in SUBSET Token
        BY DEF Revocation
      <3> QED BY <1>5, <3>1 DEF RevokeCollects, RevokeGoesOn, TokensOfSite
    <2>2. grant' = grant
      BY <1>5 DEF RevokeCollects, RevokeGoesOn
    <2>3. OwnType
      OBVIOUS
    <2>4. CASE RevokeEnds(r, IF ScopeCurrent(revokes[r].by) THEN "done" ELSE "interrupted")
      BY <2>2, <2>3, <2>4, RevokeEndsCases
    <2> QED BY <2>1, <2>2, <2>3, <2>4, RevokeClosesCases, ZenonT(40)
  <1>6. ASSUME Deliver \/ \E i \in DOMAIN asked : RequestTimesOut(i)
        PROVE  /\ revokes' \in [Revoke -> Revocation] /\ UNCHANGED <<grant, revoked>>
               /\ \A s \in Revoke : revokes'[s].todo = revokes[s].todo
    <2>1. UNCHANGED <<grant, revoked>>
      BY <1>6 DEF Deliver, RequestTimesOut
    <2>2. OwnType
      OBVIOUS
    <2>3. revokes' = revokes \/ \E r \in Revoke \cup {Nothing} : Resume(r)
      <3>1. CASE Deliver
        <4>1. Head(answers) \in Reply
          BY <3>1 DEF Deliver, WireType
        <4> QED BY <3>1, <4>1 DEF Deliver, OpenAnswered, LateOpenAnswered, CloseAnswered, CleanupAnswered,
                                  AnswerUnwanted, DeviceGoneArrives, CleanupSettles, Reply
      <3>2. ASSUME NEW i \in DOMAIN asked, RequestTimesOut(i)
            PROVE  revokes' = revokes \/ \E r \in Revoke \cup {Nothing} : Resume(r)
        <4>1. asked[i] \in Request
          BY DEF WireType, GoodRequest
        <4> QED BY <3>2, <4>1 DEF RequestTimesOut, CleanupSettles, Request
      <3> QED BY <1>6, <3>1, <3>2
    <2> QED BY <2>1, <2>2, <2>3, ResumeCases
  <1>7. CASE PortLost
    <2>1. ASSUME NEW r \in Revoke
          PROVE  revokes'[r] \in Revocation /\ revokes'[r].todo = revokes[r].todo
      BY <1>7 DEF PortLost, Revocation
    <2>2. DOMAIN revokes' = Revoke /\ revokes' = [r \in Revoke |-> revokes'[r]]
      BY <1>7 DEF PortLost
    <2> QED BY <1>7, <2>1, <2>2 DEF PortLost
  <1>8. CASE \/ \E p \in Place : RegisterFrameEndpoint(p)
             \/ \E e \in Endpoint : RetireEndpoint(e) \/ HandleOpen(e)
             \/ \E tab \in Tab : PurgeTab(tab)
             \/ \E x \in rereading : HandleOpenRegisters(x)
             \/ \E e \in Endpoint, t \in Token : HandleClose(e, t) \/ HandleCleanupSession(e, t)
             \/ RetryOrphanCleanup \/ PortReconnects \/ DaemonAnswers \/ DeviceGone \/ UNCHANGED vars
    BY <1>1, <1>8 DEF RegisterFrameEndpoint, RetireEndpoint, ReplaceEndpoints, HandleOpen, PurgeTab,
       HandleOpenRegisters, HandleClose, HandleCleanupSession, RetryOrphanCleanup, PortReconnects, DaemonAnswers,
       DeviceGone, vars
  <1>9. ASSUME NEW i, RequestTimesOut(i)
        PROVE  i \in DOMAIN asked
    BY <1>9 DEF RequestTimesOut
  <1> QED BY <1>2, <1>3, <1>4, <1>5, <1>6, <1>7, <1>8, <1>9 DEF Next, Event

LEMMA CountLess ==
  ASSUME OwnType, NEW ts \in SUBSET Token
  PROVE  CountWithout(ts) \in [Tab -> Nat] /\ \A b \in Tab : CountWithout(ts)[b] <= count[b]
  <1>1. ASSUME NEW b \in Tab
        PROVE  Cardinality({t \in ts : owner[t] # Nobody /\ TabOf(owner[t]) = b}) \in Nat
    <2>1. {t \in ts : owner[t] # Nobody /\ TabOf(owner[t]) = b} \in SUBSET Token
      OBVIOUS
    <2> QED BY <2>1, TokenSets
  <1>2. ASSUME NEW b \in Tab
        PROVE  CountWithout(ts)[b] \in Nat /\ CountWithout(ts)[b] <= count[b]
    <2>1. count[b] \in Nat
      BY DEF OwnType
    <2> QED BY <1>1, <2>1 DEF CountWithout
  <1> QED BY <1>2 DEF CountWithout
-----------------------------------------------------------------------------
(* The wire after a step *)

\* A step of the wire: what is on it stays good, what is granted is new or was
\* granted, and whatever else the step closes, owns or keeps is not granted.
WireStep ==
  /\ up' \in BOOLEAN
  /\ opened' \in 0..MaxTokens /\ opened <= opened'
  /\ alive' \in SUBSET (Known') /\ orphans' \in SUBSET Known
  /\ asked' \in Seq(Request)
  /\ \A i \in DOMAIN asked' : GoodRequest(asked'[i])
  /\ answers' \in Seq(Reply)
  /\ \A i \in DOMAIN answers' : GoodReply(answers'[i]) \/ (answers'[i].k \in Opening /\ answers'[i].ok
                                  /\ answers'[i].t \in Known' /\ answers'[i].e \in DOMAIN place)
  /\ ~up' => asked' = <<>> /\ answers' = <<>>
  /\ rereading' \in SUBSET [e: DOMAIN place, t: Known]
  /\ owner' \in [Token -> DOMAIN place \cup {Nobody}]
  /\ \A t \in Token : owner'[t] # Nobody => t \in Known

GrantStep ==
  /\ \A t \in Token : Granted(t)' => Granted(t) \/ t \notin Known
  /\ \A t \in Token : owner'[t] # Nobody => owner[t] # Nobody \/ ~Granted(t)'
  /\ \A t \in orphans' : t \in orphans \/ Busy(t) \/ ~Granted(t)'
  /\ \A t \in Token : Busy(t)' => Busy(t) \/ (t \in Known /\ ~Granted(t)')

LEMMA WireStaysStep ==
  ASSUME OwnershipType, WireStays \/ PortReconnects
  PROVE  WireStep /\ GrantStep
  <1>1. UNCHANGED <<owner, orphans, rereading, asked, answers, alive, opened>> /\ up' \in BOOLEAN
        /\ (~up' => ~up)
    BY DEF WireStays, PortReconnects, OwnershipType, WireType, ownVars
  <1>2. WireStep
    BY <1>1 DEF WireStep, OwnershipType, WireType, OwnType, Known
  <1>3. GrantStep
    BY <1>1 DEF GrantStep, Granted, GrantedAt, Rereading, Busy
  <1> QED BY <1>2, <1>3

LEMMA AsksStep ==
  ASSUME OwnershipType, GrantsFresh, Asks
  PROVE  WireStep /\ GrantStep
  <1>1. PICK e \in DOMAIN place, k \in {"open", "close"}, t \in Known \cup {Nothing} :
          Ask(k, e, t) /\ (k = "close" => t \in Known /\ owner[t] # Nobody)
    BY DEF Asks
  <1> DEFINE q == [k |-> k, e |-> e, t |-> t, owned |-> FALSE, r |-> Nothing]
  <1>2. asked' = Append(asked, q) /\ asked \in Seq(Request)
    BY <1>1 DEF Ask, OwnershipType, WireType
  <1>3. GoodRequest(q) /\ q.k = k /\ q.t = t
    <2>1. t \in Token \cup {Nothing} /\ e \in Nat
      BY Tabs DEF OwnershipType, WireType, Known, Token, Endpoint
    <2> QED BY <1>1, <2>1 DEF GoodRequest, Request, Kind, Closing
  <1> HIDE DEF q
  <1>4. UNCHANGED <<owner, orphans, rereading, up, answers, alive, opened>> /\ up
    BY DEF Asks
  <1>5. /\ asked' \in Seq(Request)
        /\ \A i \in DOMAIN asked' : asked'[i] = q \/ (i \in DOMAIN asked /\ asked'[i] = asked[i])
    BY <1>2, <1>3 DEF GoodRequest
  <1>6. WireStep
    <2>1. \A i \in DOMAIN asked' : GoodRequest(asked'[i])
      BY <1>3, <1>5 DEF OwnershipType, WireType
    <2> QED BY <1>4, <1>5, <2>1 DEF WireStep, OwnershipType, WireType, OwnType, Known
  <1>7. q.k \in Closing => t \in Known /\ t \in Token /\ ~Granted(t)
    BY <1>1, <1>3 DEF GrantsFresh, Closing, OwnershipType, WireType, Known, Token
  <1>8. GrantStep
    BY <1>3, <1>4, <1>5, <1>7 DEF GrantStep, Granted, GrantedAt, Rereading, Busy
  <1> QED BY <1>6, <1>8

LEMMA CleansStep ==
  ASSUME OwnershipType, NEW ts \in SUBSET Known, NEW r \in Revoke \cup {Nothing}, Cleans(ts, r)
  PROVE  WireStep /\ GrantStep
  <1>1. /\ CloseForCleanup(ts, r) /\ \A t \in ts : ~Granted(t)'
        /\ rereading' = {x \in rereading : x.t \notin ts}
        /\ UNCHANGED <<up, answers, alive, opened>>
    BY DEF Cleans
  <1>2. \A t \in Token : Granted(t)' => Granted(t)
    BY <1>1 DEF Granted, GrantedAt, Rereading
  <1>3. CASE up
    <2>1. /\ asked' \in Seq(Request) /\ UNCHANGED <<owner, orphans>>
          /\ \A i \in DOMAIN asked' : \/ i \in DOMAIN asked /\ asked'[i] = asked[i]
                                      \/ \E t \in ts : asked'[i] = CleanupEntry(t, r)
      <3>1. /\ asked' \in Seq(Request) /\ UNCHANGED <<owner, orphans>>
            /\ \A i \in DOMAIN asked : i \in DOMAIN asked' /\ asked'[i] = asked[i]
            /\ \A i \in DOMAIN asked' \ DOMAIN asked : \E t \in ts : asked'[i] = CleanupEntry(t, r)
        BY <1>1, <1>3, CleanupAsks, Zenon
      <3> QED BY <3>1
    <2>2. ASSUME NEW t \in ts
          PROVE  CleanupEntry(t, r).t = t /\ GoodRequest(CleanupEntry(t, r))
      <3>1. t \in Token
        BY DEF OwnershipType, WireType, Known, Token
      <3> QED BY <3>1 DEF CleanupEntry, GoodRequest, Request, Kind, OfDocument, Nobody
    <2>3. WireStep
      BY <1>1, <1>3, <2>1, <2>2 DEF WireStep, OwnershipType, WireType, OwnType, Known
    <2>4. GrantStep
      BY <1>1, <1>2, <2>1, <2>2 DEF GrantStep, Busy
    <2> QED BY <2>3, <2>4
  <1>4. CASE ~up
    <2>1. owner' = Unregistered(ts) /\ orphans' = orphans \cup ts /\ asked' = asked
      BY <1>1, <1>4 DEF CloseForCleanup
    <2>2. WireStep
      BY <1>1, <1>4, <2>1 DEF WireStep, OwnershipType, WireType, OwnType, Known, Unregistered, Nobody
    <2>3. GrantStep
      BY <1>1, <1>2, <2>1 DEF GrantStep, Busy, Unregistered, OwnershipType, OwnType
    <2> QED BY <2>2, <2>3
  <1> QED BY <1>3, <1>4

LEMMA RegistersStep ==
  ASSUME OwnershipType, GrantsUnique, NEW x \in rereading, Registers(x)
  PROVE  WireStep /\ GrantStep
  <1>1. /\ owner' = [owner EXCEPT ![x.t] = x.e] /\ rereading' = rereading \ {x}
        /\ UNCHANGED <<orphans, up, asked, answers, alive, opened>>
    BY DEF Registers, Register
  <1>2. x.t \in Known /\ x.t \in Token /\ x.e \in DOMAIN place
    BY DEF OwnershipType, WireType, Known, Token
  <1>3. ~Granted(x.t)'
    BY <1>1, <1>2 DEF GrantsUnique, Granted, GrantedAt, Rereading
  <1>4. WireStep
    BY <1>1, <1>2 DEF WireStep, OwnershipType, WireType, OwnType, Known
  <1>5. \A t \in Token : Granted(t)' => Granted(t)
    BY <1>1 DEF Granted, GrantedAt, Rereading
  <1>6. GrantStep
    BY <1>1, <1>2, <1>3, <1>5 DEF GrantStep, Busy, OwnershipType, OwnType
  <1> QED BY <1>4, <1>6

\* What is left of a queue once its head is taken.
LEMMA Tails ==
  ASSUME NEW S, NEW q \in Seq(S), q # <<>>
  PROVE  /\ Tail(q) \in Seq(S) /\ Head(q) = q[1] /\ 1 \in DOMAIN q /\ Head(q) \in S
         /\ \A i \in DOMAIN Tail(q) : i + 1 \in DOMAIN q /\ Tail(q)[i] = q[i + 1] /\ i + 1 # 1
         /\ \A i \in DOMAIN q : i # 1 => i - 1 \in DOMAIN Tail(q) /\ Tail(q)[i - 1] = q[i]
  OBVIOUS

LEMMA DeliverCases ==
  ASSUME OwnershipType, Deliver
  PROVE  /\ answers # <<>> /\ answers' = Tail(answers) /\ Head(answers) = answers[1] /\ 1 \in DOMAIN answers
         /\ GoodReply(Head(answers)) /\ up
         /\ UNCHANGED <<frameVars, grant, revoked, up, alive, opened>>
         /\ \/ OpenAnswered(Head(answers)) \/ LateOpenAnswered(Head(answers)) \/ CloseAnswered(Head(answers))
            \/ CleanupAnswered(Head(answers)) \/ AnswerUnwanted(Head(answers)) \/ DeviceGoneArrives(Head(answers))
  <1>1. answers \in Seq(Reply) /\ answers # <<>>
    BY DEF Deliver, OwnershipType, WireType
  <1>2. Head(answers) = answers[1] /\ 1 \in DOMAIN answers
    BY <1>1, Tails
  <1>3. GoodReply(Head(answers))
    BY <1>2 DEF OwnershipType, WireType
  <1> QED BY <1>1, <1>2, <1>3 DEF Deliver

LEMMA DeliverStep ==
  ASSUME OwnershipType, GrantsUnique, GrantsFresh, Deliver
  PROVE  WireStep /\ GrantStep
  <1> DEFINE a == Head(answers)
  <1>1. /\ answers' = Tail(answers) /\ a = answers[1] /\ 1 \in DOMAIN answers /\ GoodReply(a)
        /\ up' = up /\ up /\ alive' = alive /\ opened' = opened
        /\ \/ OpenAnswered(a) \/ LateOpenAnswered(a) \/ CloseAnswered(a)
           \/ CleanupAnswered(a) \/ AnswerUnwanted(a) \/ DeviceGoneArrives(a)
    BY DeliverCases
  <1>2. answers \in Seq(Reply) /\ answers # <<>>
    BY DeliverCases DEF OwnershipType, WireType
  <1>3. /\ answers' \in Seq(Reply)
        /\ \A i \in DOMAIN answers' : i + 1 \in DOMAIN answers /\ answers'[i] = answers[i + 1] /\ i + 1 # 1
    BY <1>1, <1>2, Tails
  <1>4. \A i \in DOMAIN answers' : GoodReply(answers'[i])
    BY <1>3 DEF OwnershipType, WireType
  <1>5. \A t \in Token : (\E i \in DOMAIN answers' : GrantedAt(i, t)')
                           => \E i \in DOMAIN answers : GrantedAt(i, t) /\ i # 1
    BY <1>3 DEF GrantedAt
  <1>6. \A t \in Token : (\E i \in DOMAIN answers' : answers'[i].k \in Closing /\ answers'[i].t = t)
                           => \E i \in DOMAIN answers : answers[i].k \in Closing /\ answers[i].t = t
    BY <1>3
  <1> HIDE DEF a
  <1>7. CASE OpenAnswered(a)
    <2>1. /\ a.k = "open" /\ UNCHANGED <<owner, orphans, asked>>
          /\ rereading' = IF a.ok THEN rereading \cup {[e |-> a.e, t |-> a.t]} ELSE rereading
      BY <1>7 DEF OpenAnswered, ownVars
    <2>2. a.e \in DOMAIN place /\ (a.ok => a.t \in Known)
      BY <1>1, <2>1 DEF GoodReply, OfDocument, Opening
    <2>3. WireStep
      BY <1>1, <1>3, <1>4, <2>1, <2>2 DEF WireStep, OwnershipType, WireType, OwnType, Known
    <2>4. \A t \in Token : Granted(t)' => Granted(t)
      BY <1>1, <1>5, <2>1 DEF Granted, Rereading, GrantedAt, Opening
    <2>5. GrantStep
      BY <1>6, <2>1, <2>4 DEF GrantStep, Busy
    <2> QED BY <2>3, <2>5
  <1>8. CASE LateOpenAnswered(a)
    <2>1. a.k = "lateOpen" /\ UNCHANGED <<owner, orphans, rereading>>
      BY <1>8 DEF LateOpenAnswered, ownVars
    <2>2. \A t \in Token : Granted(t)' => Granted(t)
      BY <1>5, <2>1 DEF Granted, Rereading
    <2>3. CASE ~a.ok
      <3>1. asked' = asked
        BY <1>8, <2>3 DEF LateOpenAnswered
      <3>2. WireStep
        BY <1>1, <1>3, <1>4, <2>1, <3>1 DEF WireStep, OwnershipType, WireType, OwnType, Known
      <3>3. GrantStep
        BY <1>6, <2>1, <2>2, <3>1 DEF GrantStep, Busy
      <3> QED BY <3>2, <3>3
    <2>4. CASE a.ok
      <3> DEFINE q == [k |-> "drop", e |-> Nobody, t |-> a.t, owned |-> FALSE, r |-> Nothing]
      <3>1. asked' = Append(asked, q) /\ asked \in Seq(Request) /\ a.t \in Known /\ a.t \in Token
        BY <1>1, <1>8, <2>1, <2>4 DEF LateOpenAnswered, Ask, GoodReply, Opening, OwnershipType, WireType, Known, Token
      <3>2. GoodRequest(q) /\ q.t = a.t /\ q \in Request
        BY <3>1 DEF GoodRequest, Request, Kind, OfDocument, Nobody
      <3> HIDE DEF q
      <3>3. /\ asked' \in Seq(Request)
            /\ \A i \in DOMAIN asked' : asked'[i] = q \/ (i \in DOMAIN asked /\ asked'[i] = asked[i])
        BY <3>1, <3>2
      <3>4. PICK d \in Token : d = a.t /\ ~Granted(d)'
        <4>1. GrantedAt(1, a.t)
          BY <1>1, <2>1 DEF GrantedAt, Opening
        <4>2. ~Rereading(a.t) /\ \A i \in DOMAIN answers : GrantedAt(i, a.t) => i = 1
          BY <1>1, <3>1, <4>1 DEF GrantsUnique
        <4>3. PICK d \in Token : d = a.t
          BY <3>1
        <4> QED BY <1>5, <2>1, <4>2, <4>3 DEF Granted, Rereading
      <3>5. \A i \in DOMAIN asked' : GoodRequest(asked'[i])
        BY <3>2, <3>3 DEF OwnershipType, WireType
      <3>6. WireStep
        BY <1>1, <1>3, <1>4, <2>1, <3>3, <3>5 DEF WireStep, OwnershipType, WireType, OwnType, Known
      <3>7. GrantStep
        <4>1. \A t \in Token : Busy(t)' => Busy(t) \/ t = a.t
          BY <1>6, <3>2, <3>3 DEF Busy
        <4> QED BY <2>1, <2>2, <3>1, <3>4, <4>1 DEF GrantStep
      <3> QED BY <3>6, <3>7
    <2> QED BY <2>3, <2>4
  <1>9. CASE CloseAnswered(a) \/ CleanupAnswered(a) \/ AnswerUnwanted(a) \/ DeviceGoneArrives(a)
    <2>1. /\ asked' = asked /\ rereading' = rereading
          /\ owner' \in {owner, Unregistered({a.t}), [t \in Token |-> Nobody]}
          /\ orphans' \in {orphans, orphans \ {a.t}, {}}
      BY <1>9 DEF CloseAnswered, CleanupAnswered, AnswerUnwanted, DeviceGoneArrives, CleanupSettles, ClearOwnership,
         ownVars
    <2>2. owner' \in [Token -> DOMAIN place \cup {Nobody}] /\ \A t \in Token : owner'[t] # Nobody => owner[t] # Nobody
      BY <2>1 DEF Unregistered, OwnershipType, OwnType
    <2>3. WireStep
      BY <1>1, <1>3, <1>4, <2>1, <2>2 DEF WireStep, OwnershipType, WireType, OwnType, Known
    <2>4. GrantStep
      <3>1. \A t \in Token : (Granted(t)' => Granted(t)) /\ (Busy(t)' => Busy(t))
        BY <1>5, <1>6, <2>1 DEF Busy, Granted, Rereading
      <3> QED BY <2>1, <2>2, <3>1 DEF GrantStep
    <2> QED BY <2>3, <2>4
  <1> QED BY <1>1, <1>7, <1>8, <1>9

LEMMA TimesOutStep ==
  ASSUME OwnershipType, NEW i \in DOMAIN asked, RequestTimesOut(i)
  PROVE  WireStep /\ GrantStep
  <1>1. PICK v \in Request : v = asked[i] /\ GoodRequest(v)
    BY DEF OwnershipType, WireType, GoodRequest
  <1> DEFINE w == [v EXCEPT !.k = IF @ = "open" THEN "lateOpen" ELSE "drop"]
  <1>2. v.k \in {"open", "close", "cleanup"}
    BY <1>1 DEF RequestTimesOut
  <1>3. /\ w \in Request /\ GoodRequest(w) /\ w.t = v.t
        /\ w.k \in Closing => v.k \in Closing
    <2>1. w \in Request /\ w.t = v.t /\ w.e = v.e /\ w.k = IF v.k = "open" THEN "lateOpen" ELSE "drop"
      BY DEF Request, Kind
    <2> HIDE DEF w
    <2> QED BY <1>1, <1>2, <2>1 DEF GoodRequest, Closing, OfDocument
  <1>4. asked' = [asked EXCEPT ![i] = w]
    BY <1>1 DEF RequestTimesOut
  <1> HIDE DEF w
  <1>5. asked \in Seq(Request) /\ asked' \in Seq(Request) /\ DOMAIN asked' = DOMAIN asked
        /\ asked'[i] = w /\ \A j \in DOMAIN asked : j # i => asked'[j] = asked[j]
    BY <1>3, <1>4 DEF OwnershipType, WireType
  <1>6. UNCHANGED <<rereading, up, answers, alive, opened>> /\ up
    <2>1. asked # <<>>
      OBVIOUS
    <2> QED BY <2>1 DEF RequestTimesOut, OwnershipType, WireType
  <1>7. /\ owner' \in {owner, Unregistered({v.t})}
        /\ orphans' \in {orphans, orphans \cup {v.t}} /\ (orphans' # orphans => v.k = "cleanup")
    BY <1>1 DEF RequestTimesOut, CleanupSettles
  <1>8. owner' \in [Token -> DOMAIN place \cup {Nobody}] /\ \A t \in Token : owner'[t] # Nobody => owner[t] # Nobody
    BY <1>7 DEF Unregistered, OwnershipType, OwnType
  <1>9. \A j \in DOMAIN asked' : GoodRequest(asked'[j])
    BY <1>3, <1>5 DEF OwnershipType, WireType
  <1>10. v.k = "cleanup" => v.t \in Known /\ Busy(v.t)
    BY <1>1 DEF GoodRequest, Closing, Busy
  <1>11. WireStep
    BY <1>5, <1>6, <1>7, <1>8, <1>9, <1>10 DEF WireStep, OwnershipType, WireType, OwnType, Known
  <1>12. \A t \in Token : Busy(t)' => Busy(t)
    BY <1>1, <1>3, <1>5, <1>6 DEF Busy
  <1>13. GrantStep
    BY <1>6, <1>7, <1>8, <1>10, <1>12 DEF GrantStep, Granted, GrantedAt, Rereading
  <1> QED BY <1>11, <1>13

LEMMA PortLostStep ==
  ASSUME OwnershipType, PortLost
  PROVE  WireStep /\ GrantStep
  <1>1. /\ asked' = <<>> /\ answers' = <<>> /\ alive' = {} /\ up' = FALSE
        /\ UNCHANGED <<rereading, opened>> /\ owner' = [t \in Token |-> Nobody]
        /\ orphans' = {a.t : a \in {b \in Waiting : b.k = "cleanup"}}
    BY DEF PortLost, ClearOwnership
  <1>2. ASSUME NEW t \in orphans'
        PROVE  t \in Known /\ Busy(t)
    <2>1. PICK b \in Waiting : b.k = "cleanup" /\ b.t = t
      BY <1>1, <1>2
    <2> QED BY <2>1 DEF Waiting, Busy, Closing, OwnershipType, WireType, GoodRequest, GoodReply
  <1>3. WireStep
    <2>1. /\ asked' \in Seq(Request) /\ answers' \in Seq(Reply) /\ DOMAIN asked' = {} /\ DOMAIN answers' = {}
          /\ up' \in BOOLEAN
      <3>1. <<>> \in Seq(Request) /\ <<>> \in Seq(Reply) /\ DOMAIN <<>> = {}
        BY EmptySeq
      <3> QED BY <1>1, <3>1
    <2>3. alive' \in SUBSET (Known') /\ orphans' \in SUBSET Known
      <3>1. \A t \in orphans' : t \in Known
        BY <1>2
      <3>2. alive' = {}
        BY <1>1
      <3> QED BY <3>1, <3>2
    <2>2. owner' \in [Token -> DOMAIN place \cup {Nobody}] /\ \A t \in Token : owner'[t] = Nobody
      BY <1>1 DEF Nobody
    <2> QED BY <1>1, <2>1, <2>2, <2>3 DEF WireStep, OwnershipType, WireType
  <1>4. GrantStep
    <2>1. \A t : ~Busy(t)' /\ (Granted(t)' => Granted(t))
      BY <1>1 DEF Granted, GrantedAt, Rereading, Busy
    <2>2. \A t \in Token : owner'[t] = Nobody
      BY <1>1
    <2> QED BY <1>2, <2>1, <2>2 DEF GrantStep
  <1> QED BY <1>3, <1>4

LEMMA DaemonAnswersStep ==
  ASSUME OwnershipType, DaemonAnswers
  PROVE  WireStep /\ GrantStep
  <1> DEFINE q == Head(asked)
             reply(ok, t) == [k |-> q.k, e |-> q.e, t |-> t, owned |-> q.owned, r |-> q.r, ok |-> ok]
  <1>1. asked \in Seq(Request) /\ answers \in Seq(Reply) /\ asked # <<>> /\ asked' = Tail(asked)
    BY DEF DaemonAnswers, OwnershipType, WireType
  <1>2. /\ q = asked[1] /\ GoodRequest(q) /\ asked' \in Seq(Request)
        /\ \A i \in DOMAIN asked' : i + 1 \in DOMAIN asked /\ asked'[i] = asked[i + 1]
    <2>1. /\ q = asked[1] /\ 1 \in DOMAIN asked /\ asked' \in Seq(Request)
          /\ \A i \in DOMAIN asked' : i + 1 \in DOMAIN asked /\ asked'[i] = asked[i + 1]
      BY <1>1, Tails
    <2> QED BY <2>1 DEF OwnershipType, WireType
  <1>3. UNCHANGED <<owner, orphans, rereading, up>> /\ up
    <2>1. UNCHANGED <<owner, orphans, rereading, up>>
      BY DEF DaemonAnswers, ownVars
    <2> QED BY <1>1, <2>1 DEF OwnershipType, WireType
  <1>4. PICK ok \in BOOLEAN, t \in Token \cup {Nothing} :
          /\ answers' = Append(answers, reply(ok, t))
          /\ q.k \in Opening => \/ ok /\ t = opened + 1 /\ opened' = t /\ alive' = alive \cup {t} /\ t \in Token
                                \/ ~ok /\ t = Nothing /\ UNCHANGED <<alive, opened>>
          /\ q.k \notin Opening => t = q.t /\ alive' = alive \ {t} /\ opened' = opened
    <2>1. CASE q.k \in Opening
      BY <2>1 DEF DaemonAnswers, Opening
    <2>2. CASE q.k \notin Opening
      <3>1. q.t \in Token \cup {Nothing} /\ (q.t \in alive) \in BOOLEAN
        BY <1>2 DEF GoodRequest, Request
      <3>2. answers' = Append(answers, reply(q.t \in alive, q.t)) /\ alive' = alive \ {q.t} /\ opened' = opened
        BY <2>2 DEF DaemonAnswers, Opening
      <3> QED BY <2>2, <3>1, <3>2
    <2> QED BY <2>1, <2>2
  <1>5. opened \in Nat /\ opened <= MaxTokens
    BY DEF OwnershipType, WireType
  <1>6. opened' \in 0..MaxTokens /\ opened <= opened' /\ Known \subseteq Known'
    BY <1>4, <1>5 DEF Known, Token
  <1>7. alive' \in SUBSET (Known')
    <2>1. alive \in SUBSET (Known') /\ (t = opened + 1 /\ opened' = t => t \in Known')
      BY <1>5, <1>6 DEF OwnershipType, WireType, Known
    <2> QED BY <1>4, <2>1
  <1> DEFINE a == reply(ok, t)
  <1>8. a \in Reply /\ a.k = q.k /\ a.t = t /\ a.ok = ok /\ a.e = q.e
    BY <1>2, <1>4 DEF Reply, GoodRequest, Request
  <1>9. answers' = Append(answers, a)
    BY <1>4
  <1> HIDE DEF a, q
  <1>10. GoodReply(a) \/ (a.k \in Opening /\ a.ok /\ a.t \in Known' /\ a.e \in DOMAIN place)
    <2>1. CASE q.k \in Opening
      BY <1>2, <1>4, <1>5, <1>8, <2>1 DEF GoodReply, GoodRequest, Opening, Closing, OfDocument, Known
    <2>2. CASE q.k \notin Opening
      BY <1>2, <1>4, <1>8, <2>2 DEF GoodReply, GoodRequest, Opening, Closing, OfDocument
    <2> QED BY <2>1, <2>2
  <1>11. /\ answers' \in Seq(Reply)
         /\ \A i \in DOMAIN answers' : answers'[i] = a \/ (i \in DOMAIN answers /\ answers'[i] = answers[i])
    BY <1>1, <1>8, <1>9
  <1>12. /\ \A i \in DOMAIN asked' : GoodRequest(asked'[i])
         /\ \A i \in DOMAIN answers' : GoodReply(answers'[i]) \/ (answers'[i].k \in Opening /\ answers'[i].ok
                                  /\ answers'[i].t \in Known' /\ answers'[i].e \in DOMAIN place)
    BY <1>2, <1>10, <1>11 DEF OwnershipType, WireType
  <1>13. WireStep
    BY <1>2, <1>3, <1>6, <1>7, <1>11, <1>12 DEF WireStep, OwnershipType, WireType, OwnType
  <1>14. \A u \in Token : Granted(u)' => Granted(u) \/ u \notin Known
    <2>1. a.k \in Opening => a.t \notin Known /\ a.t \notin Known
      BY <1>4, <1>5, <1>8 DEF Known, Nothing
    <2> QED BY <1>3, <1>11, <2>1 DEF Granted, GrantedAt, Rereading
  <1>15. \A u \in Token : Busy(u)' => Busy(u)
    <2>1. ASSUME NEW u \in Token, a.k \in Closing, a.t = u
          PROVE  Busy(u)
      <3>1. q.k \in Closing /\ q.t = u /\ 1 \in DOMAIN asked
        BY <1>1, <1>4, <1>8, <2>1 DEF Closing, Opening
      <3> QED BY <1>2, <3>1 DEF Busy
    <2> QED BY <1>2, <1>11, <2>1 DEF Busy
  <1>16. GrantStep
    BY <1>3, <1>14, <1>15 DEF GrantStep
  <1> QED BY <1>13, <1>16

LEMMA DeviceGoneStep ==
  ASSUME OwnershipType, DeviceGone
  PROVE  WireStep /\ GrantStep
  <1> DEFINE a == [k |-> "gone", e |-> Nobody, t |-> Nothing, owned |-> FALSE, r |-> Nothing, ok |-> TRUE]
  <1>1. a \in Reply /\ a.k \notin Opening /\ a.k \notin Closing /\ GoodReply(a)
    BY DEF Reply, GoodReply, Opening, Closing, OfDocument, Nobody, Nothing
  <1>2. answers' = Append(answers, a) /\ UNCHANGED <<owner, orphans, rereading, up, asked, opened>>
        /\ alive' = {} /\ up /\ answers \in Seq(Reply)
    BY DEF DeviceGone, ownVars, OwnershipType, WireType
  <1> HIDE DEF a
  <1>3. /\ answers' \in Seq(Reply)
        /\ \A i \in DOMAIN answers' : answers'[i] = a \/ (i \in DOMAIN answers /\ answers'[i] = answers[i])
    BY <1>1, <1>2
  <1>4. \A i \in DOMAIN answers' : GoodReply(answers'[i])
    BY <1>1, <1>3 DEF OwnershipType, WireType
  <1>5. WireStep
    BY <1>2, <1>3, <1>4 DEF WireStep, OwnershipType, WireType, OwnType
  <1>6. GrantStep
    BY <1>1, <1>2, <1>3 DEF GrantStep, Busy, Granted, GrantedAt, Rereading
  <1> QED BY <1>5, <1>6

LEMMA WireSteps ==
  ASSUME OwnershipType, GrantsUnique, GrantsFresh, [Next]_vars
  PROVE  WireStep /\ GrantStep
  BY WireCases, WireStaysStep, AsksStep, CleansStep, RegistersStep, DeliverStep, TimesOutStep, PortLostStep,
     DaemonAnswersStep, DeviceGoneStep
-----------------------------------------------------------------------------
(* Grants and counts after a step *)

LEMMA UniqueStep ==
  ASSUME OwnershipType, GrantsUnique, GrantsFresh, [Next]_vars
  PROVE  GrantsUnique'
  <1>1. CASE answers' = answers /\ rereading' \in SUBSET rereading
    BY <1>1 DEF GrantsUnique, GrantedAt, Rereading
  <1>2. CASE Deliver
    <2> DEFINE a == Head(answers)
    <2>1. PICK d \in Reply : d = a
      BY <1>2, DeliverCases DEF GoodReply
    <2>2. /\ answers' = Tail(answers) /\ a = answers[1] /\ 1 \in DOMAIN answers /\ GoodReply(d)
          /\ answers \in Seq(Reply) /\ answers # <<>>
          /\ rereading' \in {rereading, rereading \cup {[e |-> d.e, t |-> d.t]}}
          /\ rereading' # rereading => d.k = "open"
      BY <1>2, <2>1, DeliverCases DEF OwnershipType, WireType, OpenAnswered, LateOpenAnswered, CloseAnswered,
         CleanupAnswered, AnswerUnwanted, DeviceGoneArrives
    <2>3. \A i \in DOMAIN answers' : i + 1 \in DOMAIN answers /\ answers'[i] = answers[i + 1] /\ i + 1 # 1
                                     /\ i \in Int
      BY <2>2, Tails
    <2> HIDE DEF a
    <2>4. ASSUME NEW t \in Token, NEW i \in DOMAIN answers', GrantedAt(i, t)'
          PROVE  GrantedAt(i + 1, t) /\ i + 1 \in DOMAIN answers /\ i + 1 # 1 /\ i \in Int
      BY <2>3, <2>4 DEF GrantedAt
    <2>5. ASSUME NEW t \in Token, NEW i \in DOMAIN answers', NEW j \in DOMAIN answers',
                 GrantedAt(i, t)', GrantedAt(j, t)'
          PROVE  i = j
      <3>1. i + 1 = j + 1 /\ i \in Int /\ j \in Int
        BY <2>4, <2>5 DEF GrantsUnique
      <3> QED BY <3>1
    <2>6. ASSUME NEW x \in rereading'
          PROVE  x \in rereading \/ (x.t = d.t /\ GrantedAt(1, d.t) /\ x = [e |-> d.e, t |-> d.t])
      BY <2>1, <2>2, <2>6 DEF GrantedAt, Opening
    <2>7. ASSUME NEW t \in Token, NEW x \in rereading', NEW y \in rereading', x.t = t, y.t = t
          PROVE  x = y
      <3>1. CASE x \in rereading /\ y \in rereading
        BY <2>7, <3>1 DEF GrantsUnique
      <3>2. CASE ~(x \in rereading /\ y \in rereading)
        <4>1. GrantedAt(1, t) /\ 1 \in DOMAIN answers
          BY <2>2, <2>6, <2>7, <3>2
        <4>2. x \notin rereading /\ y \notin rereading
          BY <2>7, <4>1 DEF GrantsUnique, Rereading
        <4> QED BY <2>6, <4>2
      <3> QED BY <3>1, <3>2
    <2>8. ASSUME NEW t \in Token, NEW i \in DOMAIN answers', GrantedAt(i, t)', NEW x \in rereading', x.t = t
          PROVE  FALSE
      <3>1. GrantedAt(i + 1, t) /\ i + 1 \in DOMAIN answers /\ i + 1 # 1
        BY <2>4, <2>8
      <3>2. x \notin rereading
        BY <2>8, <3>1 DEF GrantsUnique, Rereading
      <3>3. GrantedAt(1, t) /\ 1 \in DOMAIN answers
        BY <2>2, <2>6, <2>8, <3>2
      <3> QED BY <3>1, <3>3 DEF GrantsUnique
    <2> QED BY <2>5, <2>7, <2>8 DEF GrantsUnique, Rereading
  <1>3. CASE PortLost
    <2>1. answers' = <<>> /\ rereading' = rereading /\ DOMAIN answers' = {}
      BY <1>3, EmptySeq DEF PortLost
    <2> QED BY <2>1 DEF GrantsUnique, Rereading
  <1>4. ASSUME NEW a, answers' = Append(answers, a), rereading' = rereading,
               \A t \in Token : a.k \in Opening /\ a.t = t => t \notin Known
        PROVE  GrantsUnique'
    <2>1. answers \in Seq(Reply) /\ Len(answers) \in Nat /\ DOMAIN answers = 1..Len(answers)
          /\ DOMAIN answers' = 1..(Len(answers) + 1)
          /\ \A i \in DOMAIN answers' : IF i \in DOMAIN answers THEN answers'[i] = answers[i]
                                        ELSE answers'[i] = a /\ i = Len(answers) + 1
      BY <1>4 DEF OwnershipType, WireType
    <2>2. \A t \in Token, i \in DOMAIN answers : GrantedAt(i, t) => t \in Known
      BY DEF GrantedAt, OwnershipType, WireType, GoodReply, Opening, Nothing, Token
    <2>3. \A t \in Token : Rereading(t) => t \in Known
      BY DEF Rereading, OwnershipType, WireType
    <2>4. ASSUME NEW t \in Token, NEW i \in DOMAIN answers', GrantedAt(i, t)'
          PROVE  IF t \in Known THEN i \in DOMAIN answers /\ GrantedAt(i, t) ELSE i = Len(answers) + 1
      BY <1>4, <2>1, <2>2, <2>4 DEF GrantedAt
    <2> QED BY <1>4, <2>3, <2>4 DEF GrantsUnique, Rereading
  <1>5. CASE DeviceGone
    <2>1. \E a : /\ answers' = Append(answers, a) /\ rereading' = rereading
                 /\ \A t \in Token : a.k \in Opening /\ a.t = t => t \notin Known
      BY <1>5 DEF DeviceGone, Opening
    <2> QED BY <1>4, <2>1
  <1>6. CASE DaemonAnswers
    <2> DEFINE q == Head(asked)
               reply(ok, t) == [k |-> q.k, e |-> q.e, t |-> t, owned |-> q.owned, r |-> q.r, ok |-> ok]
    <2>1. CASE q.k \notin Opening
      BY <1>4, <1>6, <2>1 DEF DaemonAnswers, Opening
    <2>2. CASE q.k \in Opening
      <3>1. rereading' = rereading /\ \E ok \in BOOLEAN, t \in {opened + 1, Nothing} :
              answers' = Append(answers, reply(ok, t))
        BY <1>6, <2>2 DEF DaemonAnswers, Opening
      <3>2. \A t \in {opened + 1, Nothing} : t \notin Known
        BY DEF Known, Nothing, OwnershipType, WireType
      <3> QED BY <1>4, <3>1, <3>2
    <2> QED BY <2>1, <2>2
  <1>7. CASE \/ WireStays \/ PortReconnects \/ Asks \/ \E i \in DOMAIN asked : RequestTimesOut(i)
             \/ \E ts \in SUBSET Known, r \in Revoke \cup {Nothing} : Cleans(ts, r)
             \/ \E x \in rereading : Registers(x)
    BY <1>1, <1>7 DEF WireStays, PortReconnects, Asks, RequestTimesOut, Cleans, Registers
  <1> QED BY <1>2, <1>3, <1>5, <1>6, <1>7, WireCases

LEMMA FreshStep ==
  ASSUME OwnershipType, GrantsUnique, GrantsFresh, [Next]_vars
  PROVE  GrantsFresh'
  <1> SUFFICES ASSUME NEW t \in Token, Granted(t)'
               PROVE  /\ owner'[t] = Nobody /\ t \notin orphans' /\ ~Busy(t)'
                      /\ \A r \in Revoke : t \notin revokes'[r].todo
    BY DEF GrantsFresh
  <1>1. GrantStep /\ WireStep
    BY WireSteps
  <1>2. Granted(t) \/ t \notin Known
    BY <1>1 DEF GrantStep
  <1>3. /\ owner[t] = Nobody /\ t \notin orphans /\ ~Busy(t)
        /\ \A r \in Revoke : t \notin revokes[r].todo
    <2>1. CASE Granted(t)
      BY <2>1 DEF GrantsFresh
    <2>2. CASE t \notin Known
      <3>1. owner[t] = Nobody /\ t \notin orphans /\ \A r \in Revoke : t \notin revokes[r].todo
        BY <2>2 DEF OwnershipType, WireType
      <3>2. ~Busy(t)
        BY <2>2 DEF Busy, OwnershipType, WireType, GoodRequest, GoodReply
      <3> QED BY <3>1, <3>2
    <2> QED BY <1>2, <2>1, <2>2
  <1>4. owner'[t] = Nobody /\ t \notin orphans' /\ ~Busy(t)'
    BY <1>1, <1>3 DEF GrantStep
  <1>5. \A r \in Revoke : t \notin revokes'[r].todo
    <2>1. t \notin TokensOfSite
      BY <1>3 DEF TokensOfSite
    <2> QED BY <1>3, <2>1, RevokesType
  <1> QED BY <1>4, <1>5

LEMMA CountStep ==
  ASSUME OwnershipType, [Next]_vars
  PROVE  /\ count' \in [Tab -> Nat]
         /\ (\A b \in Tab : count'[b] <= count[b]) \/ (\E x \in rereading : Registers(x))
  <1> DEFINE Less == count' \in [Tab -> Nat] /\ \A b \in Tab : count'[b] <= count[b]
  <1>1. OwnType /\ count \in [Tab -> Nat]
    BY DEF OwnershipType, OwnType
  <1>2. ASSUME count' = count
        PROVE  Less
    BY <1>1, <1>2
  <1>3. ASSUME NEW ts \in SUBSET Token, count' = CountWithout(ts)
        PROVE  Less
    BY <1>1, <1>3, CountLess
  <1>4. ASSUME count' = [b \in Tab |-> 0]
        PROVE  Less
    BY <1>1, <1>4
  <1>5. ASSUME NEW b \in Tab, count' = [count EXCEPT ![b] = 0]
        PROVE  Less
    BY <1>1, <1>5
  <1>6. ASSUME NEW b \in Tab, count' = [count EXCEPT ![b] = IF @ > 0 THEN @ - 1 ELSE 0]
        PROVE  Less
    BY <1>1, <1>6
  <1> HIDE DEF Less
  <1>7. CASE \/ \E p \in Place : RegisterFrameEndpoint(p)
             \/ \E e \in Endpoint : RetireEndpoint(e)
    <2>1. \E ts \in SUBSET Token : count' = CountWithout(ts)
      BY <1>7 DEF RegisterFrameEndpoint, RetireEndpoint, ReplaceEndpoints, Tokens
    <2>2. Less
      BY <1>3, <2>1
    <2> QED BY <2>2 DEF Less
  <1>8. CASE \E tab \in Tab : PurgeTab(tab)
    <2>1. Less
      BY <1>5, <1>8 DEF PurgeTab
    <2> QED BY <2>1 DEF Less
  <1>9. CASE \E r \in Revoke : RevokeCollects(r) \/ RevokeGoesOn(r)
    <2>1. PICK r \in Revoke, todo \in SUBSET Token : RevokeCloses(r, todo)
      BY <1>9 DEF RevokeCollects, RevokeGoesOn, TokensOfSite, OwnershipType, OwnType, Revocation
    <2>2. count' = count \/ \E t \in todo : count' = CountWithout({t})
      BY <1>1, <2>1, RevokeClosesCases DEF ownVars
    <2>3. \A t \in todo : {t} \in SUBSET Token
      OBVIOUS
    <2>4. Less
      BY <1>2, <1>3, <2>2, <2>3
    <2> QED BY <2>4 DEF Less
  <1>10. CASE \E x \in rereading : HandleOpenRegisters(x)
    <2>1. PICK x \in rereading : HandleOpenRegisters(x)
      BY <1>10
    <2>2. CASE ~OwnerChecked(x)
      <3>1. Less
        BY <1>2, <2>1, <2>2 DEF HandleOpenRegisters
      <3> QED BY <3>1 DEF Less
    <2>3. CASE OwnerChecked(x)
      <3>1. Registers(x)
        BY <2>1, <2>3 DEF HandleOpenRegisters, Registers
      <3>2. count' \in [Tab -> Nat]
        <4>1. count' = [count EXCEPT ![TabOf(x.e)] = @ + 1]
          BY <3>1 DEF Registers, Register
        <4>2. TabOf(x.e) \in Tab
          BY Tabs DEF OwnershipType, WireType
        <4> QED BY <1>1, <4>1, <4>2
      <3> QED BY <3>1, <3>2
    <2> QED BY <2>2, <2>3
  <1>11. CASE Deliver
    <2> DEFINE a == Head(answers)
    <2>2. GoodReply(a)
      BY <1>11, DeliverCases
    <2>3. ASSUME CloseAnswered(a)
          PROVE  TabOf(a.e) \in Tab
      BY <2>2, <2>3, Tabs DEF CloseAnswered, GoodReply, OfDocument, OwnershipType
    <2>1. Less
      BY <1>2, <1>4, <1>6, <1>11, <2>3, DeliverCases DEF OpenAnswered, LateOpenAnswered, CloseAnswered, CleanupAnswered,
         AnswerUnwanted, DeviceGoneArrives, ClearOwnership, ownVars
    <2> QED BY <2>1 DEF Less
  <1>12. CASE PortLost
    <2>1. Less
      BY <1>4, <1>12 DEF PortLost, ClearOwnership
    <2> QED BY <2>1 DEF Less
  <1>13. CASE count' = count
    BY <1>2, <1>13 DEF Less
  <1> QED
    BY <1>7, <1>8, <1>9, <1>10, <1>11, <1>12, <1>13 DEF Next, Event, vars, ownVars, HandleOpen, PairDevice,
       UnpairDevice, RevokeRemoves, HandleClose, HandleCleanupSession, RetryOrphanCleanup, RequestTimesOut,
       PortReconnects, DaemonAnswers, DeviceGone

LEMMA CountingStep ==
  ASSUME OwnershipType, GrantsUnique, GrantsFresh, Counting, [Next]_vars
  PROVE  Counting'
  <1>1. GrantStep /\ WireStep
    BY WireSteps
  <1>2. HandedOut \subseteq HandedOut'
    BY <1>1 DEF GrantStep, WireStep, HandedOut, Known, Token, OwnershipType, WireType
  <1>3. opened' \in Nat /\ opened \in Nat
    BY <1>1 DEF WireStep, OwnershipType, WireType
  <1>4. IsFiniteSet(HandedOut') /\ Cardinality(HandedOut') \in Nat
    <2>1. IsFiniteSet(1..opened')
      BY <1>3, FS_Interval
    <2>2. HandedOut' \subseteq 1..opened'
      BY DEF HandedOut, Known
    <2> QED BY <2>1, <2>2, FS_Subset, FS_CardinalityType
  <1>5. IsFiniteSet(HandedOut) /\ Cardinality(HandedOut) \in Nat /\ Cardinality(HandedOut) <= Cardinality(HandedOut')
    BY <1>2, <1>4, FS_Subset, FS_CardinalityType
  <1>6. count \in [Tab -> Nat] /\ count' \in [Tab -> Nat]
    BY CountStep DEF OwnershipType, OwnType
  <1>7. CASE \A b \in Tab : count'[b] <= count[b]
    BY <1>4, <1>5, <1>6, <1>7 DEF Counting
  <1>8. ASSUME NEW x \in rereading, Registers(x)
        PROVE  Counting'
    <2>1. x.t \in Known /\ x.t \in Token /\ Granted(x.t)
      BY DEF OwnershipType, WireType, Known, Token, Granted, Rereading
    <2>2. x.t \notin HandedOut /\ x.t \in HandedOut'
      BY <1>8, <2>1 DEF HandedOut, Registers, GrantsUnique, Granted, GrantedAt, Rereading, Known
    <2>3. Cardinality(HandedOut \cup {x.t}) = Cardinality(HandedOut) + 1
      BY <1>5, <2>2, FS_AddElement
    <2>4. Cardinality(HandedOut) + 1 <= Cardinality(HandedOut')
      BY <1>2, <1>4, <2>2, <2>3, FS_Subset
    <2>5. count' = [count EXCEPT ![TabOf(x.e)] = @ + 1]
      BY <1>8 DEF Registers, Register
    <2> QED BY <1>4, <1>5, <1>6, <2>4, <2>5 DEF Counting
  <1> QED BY <1>7, <1>8, CountStep

LEMMA OwnershipTypeStep ==
  ASSUME OwnershipType, GrantsUnique, GrantsFresh, [Next]_vars
  PROVE  OwnershipType'
  <1>1. FrameType' /\ DOMAIN place \subseteq DOMAIN place'
    BY FrameStep, PlaceGrows DEF OwnershipType
  <1>2. WireStep
    BY WireSteps
  <1>3. opened \in Nat /\ opened' \in Nat /\ Known \subseteq Known'
    BY <1>2 DEF WireStep, OwnershipType, WireType, Known
  <1>4. OwnType'
    BY <1>1, <1>2, CountStep, RevokesType DEF WireStep, OwnType
  <1>5. \A q : GoodRequest(q) => GoodRequest(q)'
    BY <1>1, <1>3 DEF GoodRequest
  <1>6. \A a : GoodReply(a) => GoodReply(a)'
    BY <1>1, <1>3 DEF GoodReply
  <1>7. \A i \in DOMAIN asked' : GoodRequest(asked[i])'
    BY <1>1, <1>2, <1>3 DEF WireStep, GoodRequest
  <1>8. \A i \in DOMAIN answers' : GoodReply(answers[i])'
    <2>1. ASSUME NEW i \in DOMAIN answers'
          PROVE  GoodReply(answers[i])'
      <3>1. answers'[i] \in Reply
        BY <1>2 DEF WireStep
      <3> QED BY <1>1, <1>2, <1>3, <3>1 DEF WireStep, GoodReply, Opening, Closing, OfDocument
    <2> QED BY <2>1
  <1>9. \A r \in Revoke : revokes'[r].todo \subseteq Known'
    <2>1. TokensOfSite \subseteq Known
      BY DEF TokensOfSite, OwnershipType, WireType
    <2> QED BY <1>3, <2>1, RevokesType DEF OwnershipType, WireType
  <1>10. WireType'
    BY <1>1, <1>2, <1>3, <1>7, <1>8, <1>9 DEF WireStep, WireType
  <1> QED BY <1>1, <1>4, <1>10 DEF OwnershipType
-----------------------------------------------------------------------------
(* What is gone owns nothing *)

\* The owned session t is being closed, for the revocation r or for none.
CleaningAt(q, i, t, r) == q[i].k = "cleanup" /\ q[i].t = t /\ q[i].owned /\ q[i].r = r
CleaningFor(t, r) ==
  \/ \E i \in DOMAIN asked : CleaningAt(asked, i, t, r)
  \/ \E i \in DOMAIN answers : CleaningAt(answers, i, t, r)

LEMMA CleaningWaits ==
  ASSUME NEW t
  PROVE  BeingCleaned(t) <=> \E r : CleaningFor(t, r)
  BY DEF BeingCleaned, Waiting, CleaningFor, CleaningAt

\* A close that was asked for goes on until its session has no owner.
LEMMA CleaningGoesOn ==
  ASSUME OwnershipType, GrantsUnique, GrantsFresh, [Next]_vars, NEW t \in Token, NEW r, CleaningFor(t, r),
         owner'[t] # Nobody
  PROVE  CleaningFor(t, r)'
  <1>1. CASE UNCHANGED <<asked, answers>>
    BY <1>1 DEF CleaningFor, CleaningAt
  <1>2. CASE answers' = answers /\ \A i \in DOMAIN asked : i \in DOMAIN asked' /\ asked'[i] = asked[i]
    BY <1>2 DEF CleaningFor, CleaningAt
  <1>3. asked \in Seq(Request) /\ answers \in Seq(Reply)
    BY DEF OwnershipType, WireType
  <1>4. CASE Asks
    <2>1. \E q : asked' = Append(asked, q)
      BY <1>4 DEF Asks, Ask
    <2>2. \A i \in DOMAIN asked : i \in DOMAIN asked' /\ asked'[i] = asked[i]
      BY <1>3, <2>1
    <2> QED BY <1>2, <1>4, <2>2 DEF Asks
  <1>5. ASSUME NEW ts \in SUBSET Known, NEW c \in Revoke \cup {Nothing}, Cleans(ts, c)
        PROVE  CleaningFor(t, r)'
    <2>1. CloseForCleanup(ts, c) /\ answers' = answers
      BY <1>5 DEF Cleans
    <2>2. CASE up
      <3>1. \A i \in DOMAIN asked : i \in DOMAIN asked' /\ asked'[i] = asked[i]
        BY <2>1, <2>2, CleanupAsks, Zenon
      <3> QED BY <1>2, <2>1, <3>1
    <2>3. CASE ~up
      BY <1>1, <2>1, <2>3 DEF CloseForCleanup
    <2> QED BY <2>2, <2>3
  <1>6. CASE Deliver
    <2> DEFINE a == Head(answers)
    <2>1. /\ answers' = Tail(answers) /\ a = answers[1] /\ answers # <<>>
          /\ asked' = asked \/ \E q : asked' = Append(asked, q)
          /\ a.k = "cleanup" => CleanupAnswered(a)
      BY <1>6, DeliverCases DEF OpenAnswered, LateOpenAnswered, CloseAnswered, CleanupAnswered, AnswerUnwanted,
         DeviceGoneArrives, Ask
    <2>2. \A i \in DOMAIN answers : i # 1 => i - 1 \in DOMAIN answers' /\ answers'[i - 1] = answers[i]
      BY <1>3, <2>1, Tails
    <2>3. \A i \in DOMAIN asked : i \in DOMAIN asked' /\ asked'[i] = asked[i]
      BY <1>3, <2>1
    <2>4. CASE CleaningAt(answers, 1, t, r)
      <3>1. owner' = Unregistered({t})
        BY <2>1, <2>4 DEF CleaningAt, CleanupAnswered, CleanupSettles
      <3> QED BY <3>1 DEF Unregistered
    <2> HIDE DEF a
    <2>5. CASE ~CleaningAt(answers, 1, t, r)
      BY <2>2, <2>3, <2>5 DEF CleaningFor, CleaningAt
    <2> QED BY <2>4, <2>5
  <1>7. ASSUME NEW i \in DOMAIN asked, RequestTimesOut(i)
        PROVE  CleaningFor(t, r)'
    <2>1. answers' = answers /\ \A j \in DOMAIN asked : j # i => j \in DOMAIN asked' /\ asked'[j] = asked[j]
      BY <1>3, <1>7 DEF RequestTimesOut
    <2>2. CASE CleaningAt(asked, i, t, r)
      <3>1. owner' = Unregistered({t})
        BY <1>7, <2>2 DEF CleaningAt, RequestTimesOut, CleanupSettles
      <3> QED BY <3>1 DEF Unregistered
    <2>3. CASE ~CleaningAt(asked, i, t, r)
      BY <2>1, <2>3 DEF CleaningFor, CleaningAt
    <2> QED BY <2>2, <2>3
  <1>8. CASE PortLost
    BY <1>8 DEF PortLost, ClearOwnership
  <1>9. CASE DaemonAnswers
    <2> DEFINE q == Head(asked)
    <2>1. asked' = Tail(asked) /\ q = asked[1] /\ asked # <<>> /\ 1 \in DOMAIN asked
      BY <1>3, <1>9, Tails DEF DaemonAnswers
    <2>2. \E a : answers' = Append(answers, a) /\ (q.k \notin Opening =>
                   a.k = q.k /\ a.t = q.t /\ a.owned = q.owned /\ a.r = q.r)
      BY <1>9 DEF DaemonAnswers, Opening
    <2>3. \A i \in DOMAIN asked : i # 1 => i - 1 \in DOMAIN asked' /\ asked'[i - 1] = asked[i]
      BY <1>3, <2>1, Tails
    <2> HIDE DEF q
    <2>4. PICK a : answers' = Append(answers, a) /\ (q.k \notin Opening =>
                   a.k = q.k /\ a.t = q.t /\ a.owned = q.owned /\ a.r = q.r)
      BY <2>2
    <2>5. /\ \A i \in DOMAIN answers : i \in DOMAIN answers' /\ answers'[i] = answers[i]
          /\ Len(answers) + 1 \in DOMAIN answers' /\ answers'[Len(answers) + 1] = a
      BY <1>3, <2>4
    <2>6. CASE CleaningAt(asked, 1, t, r)
      <3>1. CleaningAt(answers', Len(answers) + 1, t, r)
        BY <2>1, <2>4, <2>5, <2>6 DEF CleaningAt, Opening
      <3>2. \E i \in DOMAIN answers' : CleaningAt(answers', i, t, r)
        BY <2>5, <3>1
      <3> QED BY <3>2 DEF CleaningFor, CleaningAt
    <2>7. CASE ~CleaningAt(asked, 1, t, r)
      BY <2>3, <2>5, <2>7 DEF CleaningFor, CleaningAt
    <2> QED BY <2>6, <2>7
  <1>10. CASE DeviceGone
    <2>1. asked' = asked /\ \E a : answers' = Append(answers, a)
      BY <1>10 DEF DeviceGone
    <2>2. \A i \in DOMAIN answers : i \in DOMAIN answers' /\ answers'[i] = answers[i]
      BY <1>3, <2>1
    <2> QED BY <2>1, <2>2 DEF CleaningFor, CleaningAt
  <1> QED BY <1>1, <1>4, <1>5, <1>6, <1>7, <1>8, <1>9, <1>10, WireCases DEF WireStays, PortReconnects, Registers

\* Closing owned sessions leaves each of them without owner, or being closed.
LEMMA CleaningStarts ==
  ASSUME OwnershipType, NEW ts \in SUBSET Known, NEW r \in Revoke \cup {Nothing}, CloseForCleanup(ts, r), NEW t \in ts,
         owner[t] # Nobody, UNCHANGED answers
  PROVE  owner'[t] = Nobody \/ (CleaningFor(t, r)' /\ owner' = owner)
  <1>1. t \in Token
    BY DEF Known, Token, OwnershipType, WireType
  <1>2. CASE up
    <2>1. owner' = owner /\ \E i \in DOMAIN asked' : asked'[i] = CleanupEntry(t, r)
      BY <1>2, CleanupAsks, Zenon
    <2>2. PICK i \in DOMAIN asked' : asked'[i] = CleanupEntry(t, r)
      BY <2>1
    <2>3. asked'[i].k = "cleanup" /\ asked'[i].t = t /\ asked'[i].owned /\ asked'[i].r = r
      <3>1. (owner[t] # Nobody) = TRUE
        OBVIOUS
      <3>2. CleanupEntry(t, r) = [k |-> "cleanup", e |-> Nobody, t |-> t, owned |-> TRUE, r |-> r]
        BY <3>1 DEF CleanupEntry
      <3> QED BY <2>2, <3>2
    <2> QED BY <2>1, <2>3 DEF CleaningFor, CleaningAt
  <1>3. CASE ~up
    BY <1>1, <1>3 DEF CloseForCleanup, Unregistered
  <1> QED BY <1>2, <1>3

\* A session gets its owner only from an open whose document is current and whose grant stands.
LEMMA OwnerStep ==
  ASSUME OwnershipType, GrantsUnique, GrantsFresh, [Next]_vars, NEW t \in Token, owner'[t] # Nobody
  PROVE  \/ owner'[t] = owner[t]
         \/ /\ grant /\ AuthorityCurrent(owner'[t]) /\ UNCHANGED <<frameVars, grant>>
            /\ \E x \in rereading : Registers(x)
  <1>1. CASE WireStays \/ PortReconnects \/ Asks \/ DaemonAnswers \/ DeviceGone
    BY <1>1 DEF WireStays, PortReconnects, Asks, DaemonAnswers, DeviceGone, ownVars
  <1>2. CASE \E ts \in SUBSET Known, r \in Revoke \cup {Nothing} : Cleans(ts, r)
    BY <1>2 DEF Cleans, CloseForCleanup, Unregistered
  <1>3. CASE Deliver
    BY <1>3, DeliverCases DEF OpenAnswered, LateOpenAnswered, CloseAnswered, CleanupAnswered, AnswerUnwanted,
       DeviceGoneArrives, CleanupSettles, ClearOwnership, Unregistered, ownVars
  <1>4. CASE \E i \in DOMAIN asked : RequestTimesOut(i)
    BY <1>4 DEF RequestTimesOut, CleanupSettles, Unregistered
  <1>5. CASE PortLost
    BY <1>5 DEF PortLost, ClearOwnership
  <1>6. ASSUME NEW x \in rereading, Registers(x)
        PROVE  \/ owner'[t] = owner[t]
               \/ grant /\ AuthorityCurrent(owner'[t]) /\ UNCHANGED <<frameVars, grant>>
    BY <1>6 DEF Registers, OwnerChecked, GetAllowedDevices, Register, OwnershipType, OwnType, frameVars
  <1> QED BY <1>1, <1>2, <1>3, <1>4, <1>5, <1>6, WireCases

\* A document that stops being active has its sessions closed in the same step.
LEMMA RetiredIsCleaned ==
  ASSUME OwnershipType, [Next]_vars, NEW t \in Token, owner[t] # Nobody, lifetime[owner[t]] = "active",
         lifetime'[owner[t]] # "active"
  PROVE  owner'[t] = Nobody \/ BeingCleaned(t)'
  <1>1. owner[t] \in DOMAIN place /\ owner[t] \in Endpoint /\ t \in Known
    BY Tabs DEF OwnershipType, OwnType, WireType
  <1>2. ASSUME NEW ts \in SUBSET Token, ts \subseteq TokensOfSite, t \in ts, CloseForCleanup(ts, Nothing),
               answers' = answers
        PROVE  owner'[t] = Nobody \/ BeingCleaned(t)'
    <2>1. ts \in SUBSET Known
      BY <1>2 DEF TokensOfSite, OwnershipType, WireType
    <2>2. owner'[t] = Nobody \/ CleaningFor(t, Nothing)'
      BY <1>2, <2>1, CleaningStarts
    <2>3. BeingCleaned(t)' <=> \E r : CleaningFor(t, r)'
      BY DEF BeingCleaned, Waiting, CleaningFor, CleaningAt
    <2> QED BY <2>2, <2>3
  <1>3. ASSUME NEW tab, NEW gone \in SUBSET live, NEW news, ReplaceEndpoints(tab, gone, news)
        PROVE  owner'[t] = Nobody \/ BeingCleaned(t)'
    <2> DEFINE ts == Tokens(gone \cup (Moved(tab) \ news))
    <2>1. ts \in SUBSET Token /\ ts \subseteq TokensOfSite
      <3>1. gone \cup (Moved(tab) \ news) \subseteq live /\ Nobody \notin live
        BY <1>3 DEF ReplaceEndpoints, Moved, OwnershipType, FrameType, Nobody
      <3> QED BY <3>1 DEF Tokens, TokensOfSite
    <2>2. owner[t] \in gone
      BY <1>1, <1>3 DEF ReplaceEndpoints, Lifetimes
    <2>3. t \in ts
      BY <2>2 DEF Tokens
    <2>4. CloseForCleanup(ts, Nothing) /\ answers' = answers
      BY <1>3 DEF ReplaceEndpoints
    <2> HIDE DEF ts
    <2> QED BY <1>2, <2>1, <2>3, <2>4
  <1>4. ASSUME NEW p \in Place, RegisterFrameEndpoint(p)
        PROVE  owner'[t] = Nobody \/ BeingCleaned(t)'
    <2> DEFINE gone == {e \in live : TabOf(e) = p.tab /\ p.frame \in {0, place[e].frame}}
    <2>1. gone \in SUBSET live /\ ReplaceEndpoints(p.tab, gone, {Len(place) + 1})
      BY <1>4 DEF RegisterFrameEndpoint
    <2> HIDE DEF gone
    <2> QED BY <1>3, <2>1
  <1>5. ASSUME NEW e \in Endpoint, RetireEndpoint(e)
        PROVE  owner'[t] = Nobody \/ BeingCleaned(t)'
    <2>1. {e} \in SUBSET live /\ ReplaceEndpoints(TabOf(e), {e}, {})
      BY <1>5 DEF RetireEndpoint
    <2> QED BY <1>3, <2>1
  <1>6. ASSUME NEW tab \in Tab, PurgeTab(tab)
        PROVE  owner'[t] = Nobody \/ BeingCleaned(t)'
    <2>1. TokensOfTab(tab) \in SUBSET Token /\ TokensOfTab(tab) \subseteq TokensOfSite
      BY DEF TokensOfTab, TokensOfSite
    <2>2. TabOf(owner[t]) = tab
      BY <1>1, <1>6 DEF PurgeTab
    <2>3. t \in TokensOfTab(tab)
      BY <2>2 DEF TokensOfTab
    <2> QED BY <1>2, <1>6, <2>1, <2>3 DEF PurgeTab
  <1> QED BY <1>4, <1>5, <1>6, FrameCases DEF frameVars

LEMMA RetiredStep ==
  ASSUME OwnershipType, GrantsUnique, GrantsFresh, RetiredFrameOwnsNothing, [Next]_vars
  PROVE  RetiredFrameOwnsNothing'
  <1> SUFFICES ASSUME NEW t \in Token, owner'[t] # Nobody, lifetime'[owner'[t]] # "active"
               PROVE  BeingCleaned(t)'
    BY DEF RetiredFrameOwnsNothing
  <1>1. owner'[t] = owner[t]
    BY OwnerStep DEF AuthorityCurrent, LifetimeActive, frameVars
  <1>2. CASE lifetime[owner[t]] = "active"
    BY <1>1, <1>2, RetiredIsCleaned
  <1>3. CASE lifetime[owner[t]] # "active"
    <2>1. PICK r : CleaningFor(t, r)
      BY <1>1, <1>3, CleaningWaits DEF RetiredFrameOwnsNothing
    <2>2. CleaningFor(t, r)'
      BY <2>1, CleaningGoesOn
    <2> QED BY <2>2 DEF BeingCleaned, Waiting, CleaningFor, CleaningAt
  <1> QED BY <1>2, <1>3

LEMMA ClosedTabStep ==
  ASSUME OwnershipType, ClosedTabs, ClosedTabHasNoAuthority, [Next]_vars
  PROVE  ClosedTabHasNoAuthority'
  <1> SUFFICES ASSUME NEW tab \in closedTabs'
               PROVE  count'[tab] = 0
    BY DEF ClosedTabHasNoAuthority
  <1>1. FrameType /\ FrameType' /\ tab \in Tab
    BY FrameStep DEF OwnershipType, FrameType
  <1>2. count \in [Tab -> Nat] /\ count' \in [Tab -> Nat]
    BY CountStep DEF OwnershipType, OwnType
  <1>3. CASE PurgeTab(tab)
    BY <1>1, <1>2, <1>3 DEF PurgeTab
  <1>4. CASE ~PurgeTab(tab)
    <2>1. tab \in closedTabs
      BY <1>4, FrameCases DEF frameVars, RegisterFrameEndpoint, RetireEndpoint, PurgeTab
    <2>2. count[tab] = 0
      BY <2>1 DEF ClosedTabHasNoAuthority
    <2>3. CASE \A b \in Tab : count'[b] <= count[b]
      BY <1>1, <1>2, <2>2, <2>3
    <2>4. ASSUME NEW x \in rereading, Registers(x)
          PROVE  count'[tab] = 0
      <3>1. x.e \in DOMAIN place /\ TabOf(x.e) # tab
        BY <2>1, <2>4 DEF Registers, OwnerChecked, AuthorityCurrent, LifetimeActive, ClosedTabs, OwnershipType, WireType
      <3>2. count' = [count EXCEPT ![TabOf(x.e)] = @ + 1]
        BY <2>4 DEF Registers, Register
      <3> QED BY <1>1, <1>2, <2>2, <3>1, <3>2
    <2> QED BY <2>3, <2>4, CountStep
  <1> QED BY <1>3, <1>4
-----------------------------------------------------------------------------
(* The invariant *)

LEMMA OwnershipInit ==
  Init => OwnershipInv
  <1> SUFFICES ASSUME Init
               PROVE  OwnershipInv
    OBVIOUS
  <1> USE DEF Init
  <1>1. place = <<>> /\ DOMAIN place = {} /\ place \in Seq(Place) /\ Len(place) = 0
    BY EmptySeq
  <1>2. FrameType
    BY <1>1 DEF FrameType
  <1>3. OwnType
    BY DEF OwnType, Revocation, NoRevocation, Nobody
  <1>4. asked = <<>> /\ answers = <<>> /\ asked \in Seq(Request) /\ answers \in Seq(Reply)
        /\ DOMAIN asked = {} /\ DOMAIN answers = {}
    BY EmptySeq
  <1>5. WireType
    BY <1>4 DEF WireType, NoRevocation, Nobody
  <1>6. \A t : ~Granted(t)
    BY <1>4 DEF Granted, Rereading
  <1>7. GrantsUnique /\ GrantsFresh
    BY <1>4, <1>6 DEF GrantsUnique, GrantsFresh, Granted, Rereading
  <1>8. Counting
    <2>1. HandedOut = {} /\ Cardinality(HandedOut) = 0
      BY FS_EmptySet DEF HandedOut, Known
    <2> QED BY <2>1 DEF Counting
  <1>9. ClosedTabs /\ RetiredFrameOwnsNothing /\ ClosedTabHasNoAuthority
    BY <1>1 DEF ClosedTabs, RetiredFrameOwnsNothing, ClosedTabHasNoAuthority
  <1> QED BY <1>2, <1>3, <1>5, <1>7, <1>8, <1>9 DEF OwnershipInv, OwnershipType

LEMMA OwnershipStep ==
  OwnershipInv /\ [Next]_vars => OwnershipInv'
  <1> SUFFICES ASSUME OwnershipInv, [Next]_vars
               PROVE  OwnershipInv'
    OBVIOUS
  <1>1. /\ OwnershipType /\ FrameType /\ GrantsUnique /\ GrantsFresh /\ ClosedTabs /\ Counting
        /\ RetiredFrameOwnsNothing /\ ClosedTabHasNoAuthority
    BY DEF OwnershipInv, OwnershipType
  <1>2. OwnershipType' /\ GrantsUnique' /\ GrantsFresh'
    BY <1>1, OwnershipTypeStep, UniqueStep, FreshStep
  <1>3. ClosedTabs' /\ Counting'
    BY <1>1, ClosedTabsStep, CountingStep
  <1>4. RetiredFrameOwnsNothing' /\ ClosedTabHasNoAuthority'
    BY <1>1, RetiredStep, ClosedTabStep
  <1> QED BY <1>2, <1>3, <1>4 DEF OwnershipInv

\* The invariant implies what the runs check of types, documents and tabs.
LEMMA OwnershipHolds ==
  OwnershipInv => GoneOwnsNothing
  <1> SUFFICES ASSUME OwnershipInv
               PROVE  TypeOK
    BY DEF OwnershipInv, GoneOwnsNothing
  <1>1. FrameType /\ OwnType /\ WireType /\ Counting
    BY DEF OwnershipInv, OwnershipType
  <1>2. opened \in Nat /\ opened <= MaxTokens /\ Known \subseteq Token
    BY <1>1 DEF WireType, Known, Token
  <1>3. count \in [Tab -> 0..MaxTokens]
    <2>1. Cardinality(HandedOut) <= MaxTokens /\ Cardinality(HandedOut) \in Nat
      BY <1>2, TokenSets DEF HandedOut
    <2>2. ASSUME NEW b \in Tab
          PROVE  count[b] \in 0..MaxTokens
      <3>1. count[b] \in Nat /\ count[b] <= Cardinality(HandedOut)
        BY <1>1 DEF OwnType, Counting
      <3> QED BY <2>1, <3>1
    <2> QED BY <1>1, <2>2 DEF OwnType
  <1>4. \A i \in DOMAIN asked : asked[i].k \in Kind
    BY <1>1 DEF WireType, GoodRequest, Request
  <1>5. \A i \in DOMAIN answers : answers[i].k \in Kind \cup {"gone"}
    BY <1>1 DEF WireType, GoodReply, Reply
  <1>6. \A r \in Revoke :
          /\ revokes[r].stage \in {"idle", "removed", "closing", "next"}
          /\ revokes[r].by \in Endpoint \cup {Nobody}
          /\ revokes[r].todo \subseteq Token
    BY <1>1 DEF OwnType, Revocation
  <1>7. rereading \subseteq [e: DOMAIN place, t: Token]
    BY <1>1, <1>2 DEF WireType
  <1>8. orphans \subseteq Token /\ alive \subseteq Token /\ opened \in 0..MaxTokens
    BY <1>1, <1>2 DEF WireType
  <1> QED BY <1>1, <1>3, <1>4, <1>5, <1>6, <1>7, <1>8 DEF TypeOK, FrameType, OwnType, WireType

LEMMA OwnershipInvariant ==
  Spec => []OwnershipInv
  <1>1. Init => OwnershipInv
    BY OwnershipInit
  <1>2. OwnershipInv /\ [Next]_vars => OwnershipInv'
    BY OwnershipStep
  <1> QED BY <1>1, <1>2, PTL DEF Spec

\* Documents that are gone own no session and closed tabs no device, for any
\* number of documents, tabs, sessions, revocations and requests in flight.
THEOREM WhatIsGoneOwnsNothing ==
  Spec => []GoneOwnsNothing
  <1>1. OwnershipInv => GoneOwnsNothing
    BY OwnershipHolds
  <1> QED BY <1>1, OwnershipInvariant, PTL
-----------------------------------------------------------------------------
(* Revocations *)

\* A close that the revocation r waits for.
MineAt(q, i, r) == q[i].k = "cleanup" /\ q[i].r = r
Waits(r) == (\E i \in DOMAIN asked : MineAt(asked, i, r)) \/ (\E i \in DOMAIN answers : MineAt(answers, i, r))

\* A revocation waits for one close at a time.
OneEach ==
  \A r \in Revoke :
    /\ \A i, j \in DOMAIN asked : MineAt(asked, i, r) /\ MineAt(asked, j, r) => i = j
    /\ \A i, j \in DOMAIN answers : MineAt(answers, i, r) /\ MineAt(answers, j, r) => i = j
    /\ \A i \in DOMAIN asked, j \in DOMAIN answers : ~(MineAt(asked, i, r) /\ MineAt(answers, j, r))
    /\ Waits(r) => revokes[r].stage = "closing"

\* Unless the device was granted anew, a revocation under way knows every
\* session that still has an owner: it has yet to be closed, or its close is
\* the one waited for.
Leaves(t, r) == t \in revokes[r].todo \/ CleaningFor(t, r)
Covered(r) ==
  revokes[r].stage # "idle" /\ revokes[r].clean =>
    /\ ~grant
    /\ revokes[r].stage \in {"closing", "next"} => \A t \in Token : owner[t] # Nobody => Leaves(t, r)
Revoking ==
  /\ revoked = "done" => ~grant /\ \A t \in Token : owner[t] = Nobody
  /\ \A r \in Revoke : Covered(r)

RevocationInv == OwnershipInv /\ OneEach /\ Revoking

\* Closes for no revocation change nothing for any.
LEMMA MineStays ==
  ASSUME OwnershipType, NEW ts \in SUBSET Known, NEW c \in Revoke \cup {Nothing}, CloseForCleanup(ts, c), UNCHANGED answers,
         NEW r \in Revoke, r # c
  PROVE  /\ \A i \in DOMAIN asked' : MineAt(asked, i, r)' => i \in DOMAIN asked /\ MineAt(asked, i, r)
         /\ \A i \in DOMAIN answers : MineAt(answers, i, r)' <=> MineAt(answers, i, r)
  <1>1. CASE up
    <2>1. /\ \A i \in DOMAIN asked : i \in DOMAIN asked' /\ asked'[i] = asked[i]
          /\ \A i \in DOMAIN asked' \ DOMAIN asked : \E t \in ts : asked'[i] = CleanupEntry(t, c)
      BY <1>1, CleanupAsks, Zenon
    <2>2. \A t \in ts : CleanupEntry(t, c).r = c
      BY DEF CleanupEntry
    <2> QED BY <2>1, <2>2 DEF MineAt
  <1>2. CASE ~up
    BY <1>2 DEF CloseForCleanup, MineAt
  <1> QED BY <1>1, <1>2

\* What OneEach says of one revocation, and when a step keeps it.
One(r) ==
  /\ \A i, j \in DOMAIN asked : MineAt(asked, i, r) /\ MineAt(asked, j, r) => i = j
  /\ \A i, j \in DOMAIN answers : MineAt(answers, i, r) /\ MineAt(answers, j, r) => i = j
  /\ \A i \in DOMAIN asked, j \in DOMAIN answers : ~(MineAt(asked, i, r) /\ MineAt(answers, j, r))
  /\ Waits(r) => revokes[r].stage = "closing"

LEMMA OneStays ==
  ASSUME OwnershipType, NEW r \in Revoke, One(r),
         \A i \in DOMAIN asked' : MineAt(asked, i, r)' => i \in DOMAIN asked /\ MineAt(asked, i, r),
         \A i \in DOMAIN answers' : MineAt(answers, i, r)' => i \in DOMAIN answers /\ MineAt(answers, i, r),
         revokes'[r].stage = revokes[r].stage \/ revokes'[r].stage = "closing"
  PROVE  One(r)'
  BY DEF One, Waits

\* The close of a single session for the revocation r, which waited for none.
LEMMA OneStarts ==
  ASSUME OwnershipType, NEW r \in Revoke, NEW t \in Known, ~Waits(r), CloseForCleanup({t}, r), UNCHANGED answers,
         revokes'[r].stage = IF up THEN "closing" ELSE "next"
  PROVE  One(r)'
  <1>1. {t} \in SUBSET Known /\ r \in Revoke \cup {Nothing}
    OBVIOUS
  <1>2. \A i \in DOMAIN answers' : ~MineAt(answers, i, r)'
    BY DEF Waits, MineAt
  <1>3. CASE up
    <2>1. /\ Len(asked') = Len(asked) + Cardinality({t}) /\ asked' \in Seq(Request) /\ asked \in Seq(Request)
          /\ \A i \in DOMAIN asked : i \in DOMAIN asked' /\ asked'[i] = asked[i]
      BY <1>1, <1>3, CleanupAsks, Zenon DEF OwnershipType, WireType
    <2>2. Cardinality({t}) = 1
      BY FS_Singleton
    <2>3. \A i \in DOMAIN asked' : MineAt(asked, i, r)' => i = Len(asked) + 1
      <3>1. \A i \in DOMAIN asked' : i \in DOMAIN asked \/ i = Len(asked) + 1
        BY <2>1, <2>2
      <3> QED BY <2>1, <3>1 DEF Waits, MineAt
    <2> QED BY <1>2, <1>3, <2>3 DEF One, Waits
  <1>4. CASE ~up
    <2>1. asked' = asked
      BY <1>4 DEF CloseForCleanup
    <2>2. ~Waits(r)'
      BY <1>2, <2>1 DEF Waits, MineAt
    <2> QED BY <2>2 DEF One, Waits
  <1> QED BY <1>3, <1>4

LEMMA OneEachStep ==
  ASSUME OwnershipType, GrantsUnique, GrantsFresh, OneEach, [Next]_vars
  PROVE  OneEach'
  <1> SUFFICES ASSUME NEW r \in Revoke
               PROVE  One(r)'
    BY DEF OneEach, One
  <1>1. One(r) /\ r # Nothing /\ revokes \in [Revoke -> Revocation] /\ OwnType
    BY DEF OneEach, One, Nothing, OwnershipType, OwnType
  <1>2. asked \in Seq(Request) /\ answers \in Seq(Reply)
    BY DEF OwnershipType, WireType
  <1>3. CASE UNCHANGED <<asked, answers>> /\ \A s \in Revoke : Waits(s) => revokes'[s].stage = revokes[s].stage
    BY <1>1, <1>3 DEF One, Waits, MineAt
  <1>4. CASE RestStays /\ \E ts \in SUBSET Known : Cleans(ts, Nothing)
    BY <1>1, <1>4, MineStays, OneStays DEF Cleans, RestStays
  <1>5. ASSUME NEW s \in Revoke, RevokeCollects(s) \/ RevokeGoesOn(s)
        PROVE  One(r)'
    <2>5. TokensOfSite \in SUBSET Known /\ TokensOfSite \in SUBSET Token
      BY DEF TokensOfSite, OwnershipType, WireType
    <2>1. PICK todo \in SUBSET Known : RevokeCloses(s, todo) /\ todo \in SUBSET Token
      BY <1>5, <2>5 DEF RevokeCollects, RevokeGoesOn, TokensOfSite, OwnershipType, OwnType, WireType, Revocation
    <2>2. answers' = answers /\ ~Waits(s)
      BY <1>5 DEF RevokeCollects, RevokeGoesOn, OneEach
    <2>3. CASE /\ asked' = asked /\ \A q \in Revoke \ {s} : revokes'[q] = revokes[q]
      BY <1>1, <2>2, <2>3 DEF One, Waits, MineAt
    <2>4. ASSUME NEW t \in todo, CloseForCleanup({t}, s), revokes'[s].stage = IF up THEN "closing" ELSE "next",
                 \A q \in Revoke \ {s} : revokes'[q] = revokes[q]
          PROVE  One(r)'
      <3>1. {t} \in SUBSET Known /\ t \in Known
        OBVIOUS
      <3>2. CASE r = s
        BY <2>2, <2>4, <3>1, <3>2, OneStarts
      <3>3. CASE r # s
        BY <1>1, <2>2, <2>4, <3>1, <3>3, MineStays, OneStays
      <3> QED BY <3>2, <3>3
    <2> QED BY <1>1, <2>1, <2>3, <2>4, RevokeClosesCases, RevokeEndsCases
  <1>6. CASE RestStays /\ Asks
    <2>1. PICK q : asked' = Append(asked, q) /\ q.k # "cleanup"
      BY <1>6 DEF Asks, Ask
    <2>2. \A i \in DOMAIN asked' : asked'[i] = q \/ (i \in DOMAIN asked /\ asked'[i] = asked[i])
      BY <1>2, <2>1
    <2> QED BY <1>1, <1>6, <2>1, <2>2, OneStays DEF MineAt, Asks, RestStays
  <1>7. CASE Deliver
    <2> DEFINE a == Head(answers)
    <2>1. PICK d \in Reply : d = a
      BY <1>7, DeliverCases DEF GoodReply
    <2>2. /\ answers' = Tail(answers) /\ a = answers[1] /\ answers # <<>> /\ 1 \in DOMAIN answers
          /\ asked' = asked \/ \E q : asked' = Append(asked, q) /\ q.k # "cleanup"
          /\ IF d.k = "cleanup" THEN Resume(d.r) ELSE revokes' = revokes
      BY <1>7, <2>1, DeliverCases DEF OpenAnswered, LateOpenAnswered, CloseAnswered, CleanupAnswered, AnswerUnwanted,
         DeviceGoneArrives, CleanupSettles, Ask
    <2>3. \A i \in DOMAIN answers' : i + 1 \in DOMAIN answers /\ answers'[i] = answers[i + 1] /\ i + 1 # 1 /\ i \in Int
      BY <1>2, <2>2, Tails
    <2>4. \A i \in DOMAIN asked' : MineAt(asked, i, r)' => i \in DOMAIN asked /\ MineAt(asked, i, r)
      <3>1. CASE asked' = asked
        BY <3>1 DEF MineAt
      <3>2. ASSUME NEW q, asked' = Append(asked, q), q.k # "cleanup"
            PROVE  \A i \in DOMAIN asked' : MineAt(asked, i, r)' => i \in DOMAIN asked /\ MineAt(asked, i, r)
        <4>1. \A i \in DOMAIN asked' : asked'[i] = q \/ (i \in DOMAIN asked /\ asked'[i] = asked[i])
          BY <1>2, <3>2
        <4> QED BY <3>2, <4>1 DEF MineAt
      <3> QED BY <2>2, <3>1, <3>2
    <2>5. \A i \in DOMAIN answers' : MineAt(answers, i, r)' => MineAt(answers, i + 1, r)
      BY <2>3 DEF MineAt
    <2> HIDE DEF a
    <2>6. CASE MineAt(answers, 1, r)
      <3>1. ~Waits(r)'
        BY <1>1, <2>2, <2>3, <2>4, <2>5, <2>6 DEF One, Waits
      <3> QED BY <3>1 DEF One, Waits
    <2>7. CASE ~MineAt(answers, 1, r)
      <3>1. revokes'[r] = revokes[r]
        <4>1. CASE d.k = "cleanup"
          <5>1. d.r # r /\ d.r \in Revoke \cup {Nothing}
            BY <2>1, <2>2, <2>7, <4>1 DEF MineAt, Reply
          <5> QED BY <1>1, <2>2, <4>1, <5>1, ResumeCases
        <4> QED BY <2>2, <4>1
      <3>2. Waits(r)' => Waits(r)
        BY <2>3, <2>4, <2>5 DEF Waits
      <3>3. ASSUME NEW i \in DOMAIN answers', NEW j \in DOMAIN answers', MineAt(answers, i, r)', MineAt(answers, j, r)'
            PROVE  i = j
        <4>1. i + 1 = j + 1 /\ i \in Int /\ j \in Int
          BY <1>1, <2>3, <2>5, <3>3 DEF One
        <4> QED BY <4>1
      <3>4. ASSUME NEW i \in DOMAIN asked', NEW j \in DOMAIN answers', MineAt(asked, i, r)', MineAt(answers, j, r)'
            PROVE  FALSE
        BY <1>1, <2>3, <2>4, <2>5, <3>4 DEF One
      <3>5. ASSUME NEW i \in DOMAIN asked', NEW j \in DOMAIN asked', MineAt(asked, i, r)', MineAt(asked, j, r)'
            PROVE  i = j
        BY <1>1, <2>4, <3>5 DEF One
      <3> QED BY <1>1, <3>1, <3>2, <3>3, <3>4, <3>5 DEF One
    <2> QED BY <2>6, <2>7
  <1>8. ASSUME NEW i \in DOMAIN asked, RequestTimesOut(i)
        PROVE  One(r)'
    <2>1. /\ \A j \in DOMAIN asked' : j \in DOMAIN asked /\ (j # i => asked'[j] = asked[j])
          /\ i \in DOMAIN asked' => asked'[i].k # "cleanup"
          /\ answers' = answers
      <3>1. PICK v \in Request : v = asked[i]
        BY DEF OwnershipType, WireType, GoodRequest
      <3> DEFINE w == [v EXCEPT !.k = IF @ = "open" THEN "lateOpen" ELSE "drop"]
      <3>2. asked' = [asked EXCEPT ![i] = w] /\ w.k # "cleanup"
        BY <1>8, <3>1 DEF RequestTimesOut, Request
      <3> HIDE DEF w
      <3> QED BY <1>2, <1>8, <3>2 DEF RequestTimesOut
    <2>2. \A j \in DOMAIN asked' : MineAt(asked, j, r)' => j \in DOMAIN asked /\ MineAt(asked, j, r) /\ j # i
      BY <2>1 DEF MineAt
    <2>3. \A j \in DOMAIN answers' : MineAt(answers, j, r)' => j \in DOMAIN answers /\ MineAt(answers, j, r)
      BY <2>1 DEF MineAt
    <2>4. CASE MineAt(asked, i, r)
      <3>1. ~Waits(r)'
        BY <1>1, <2>2, <2>3, <2>4 DEF One, Waits
      <3> QED BY <3>1 DEF One, Waits
    <2>5. CASE ~MineAt(asked, i, r)
      <3>1. revokes'[r] = revokes[r]
        <4>1. CASE asked[i].k = "cleanup"
          <5>1. asked[i].r # r /\ asked[i].r \in Revoke \cup {Nothing} /\ Resume(asked[i].r)
            BY <1>8, <2>5, <4>1 DEF MineAt, Request, RequestTimesOut, CleanupSettles, OwnershipType, WireType, GoodRequest
          <5> QED BY <1>1, <5>1, ResumeCases
        <4> QED BY <1>8, <4>1 DEF RequestTimesOut
      <3> QED BY <1>1, <2>2, <2>3, <3>1, OneStays
    <2> QED BY <2>4, <2>5
  <1>9. CASE PortLost
    <2>1. DOMAIN asked' = {} /\ DOMAIN answers' = {}
      BY <1>9, EmptySeq DEF PortLost
    <2> QED BY <2>1 DEF One, Waits
  <1>10. CASE DaemonAnswers
    <2> DEFINE q == Head(asked)
    <2>1. /\ asked' = Tail(asked) /\ q = asked[1] /\ asked # <<>> /\ 1 \in DOMAIN asked
          /\ revokes' = revokes
      BY <1>2, <1>10, Tails DEF DaemonAnswers
    <2>2. PICK a : answers' = Append(answers, a) /\ a.k = q.k /\ a.r = q.r
      BY <1>10 DEF DaemonAnswers
    <2>3. \A i \in DOMAIN asked' : i + 1 \in DOMAIN asked /\ asked'[i] = asked[i + 1] /\ i + 1 # 1 /\ i \in Int
      BY <1>2, <2>1, Tails
    <2> HIDE DEF q
    <2>4. \A i \in DOMAIN answers' : \/ i \in DOMAIN answers /\ answers'[i] = answers[i]
                                     \/ i = Len(answers) + 1 /\ answers'[i] = a
      BY <1>2, <2>2
    <2>5. \A i \in DOMAIN asked' : MineAt(asked, i, r)' => MineAt(asked, i + 1, r)
      BY <2>3 DEF MineAt
    <2>6. \A i \in DOMAIN answers' : MineAt(answers, i, r)' =>
             \/ i \in DOMAIN answers /\ MineAt(answers, i, r)
             \/ i = Len(answers) + 1 /\ MineAt(asked, 1, r)
      BY <2>1, <2>2, <2>4 DEF MineAt
    <2>7. Waits(r)' => Waits(r)
      BY <2>1, <2>3, <2>5, <2>6 DEF Waits
    <2>8. ASSUME NEW i \in DOMAIN asked', NEW j \in DOMAIN asked', MineAt(asked, i, r)', MineAt(asked, j, r)'
          PROVE  i = j
      <3>1. i + 1 = j + 1 /\ i \in Int /\ j \in Int
        BY <1>1, <2>3, <2>5, <2>8 DEF One
      <3> QED BY <3>1
    <2>9. ASSUME NEW i \in DOMAIN answers', NEW j \in DOMAIN answers', MineAt(answers, i, r)', MineAt(answers, j, r)'
          PROVE  i = j
      BY <1>1, <2>1, <2>6, <2>9 DEF One
    <2>10. ASSUME NEW i \in DOMAIN asked', NEW j \in DOMAIN answers', MineAt(asked, i, r)', MineAt(answers, j, r)'
           PROVE  FALSE
      BY <1>1, <2>1, <2>3, <2>5, <2>6, <2>10 DEF One
    <2> QED BY <1>1, <2>1, <2>7, <2>8, <2>9, <2>10 DEF One
  <1>11. CASE DeviceGone
    <2>1. PICK a : answers' = Append(answers, a) /\ a.k # "cleanup"
      BY <1>11 DEF DeviceGone
    <2>2. \A i \in DOMAIN answers' : (i \in DOMAIN answers /\ answers'[i] = answers[i]) \/ answers'[i] = a
      BY <1>2, <2>1
    <2> QED BY <1>1, <1>11, <2>1, <2>2, OneStays DEF MineAt, DeviceGone
  <1>12. CASE RestStays /\ (WireStays \/ PortReconnects \/ \E x \in rereading : Registers(x))
    BY <1>3, <1>12 DEF RestStays, WireStays, PortReconnects, Registers
  <1>13. CASE WireStays /\ \E by \in Endpoint \cup {Nobody} : PairDevice(by) \/ UnpairDevice(by)
    <2>1. \A q \in Revoke : revokes'[q].stage = revokes[q].stage
      <3>1. CASE revokes' = revokes
        BY <3>1
      <3>2. CASE revokes' = [q \in Revoke |-> [revokes[q] EXCEPT !.clean = FALSE]]
        BY <1>1, <3>2 DEF Revocation
      <3> QED BY <1>13, <3>1, <3>2 DEF PairDevice, UnpairDevice
    <2> QED BY <1>3, <1>13, <2>1 DEF WireStays
  <1>14. CASE WireStays /\ \E q \in Revoke, by \in Endpoint \cup {Nobody} : RevokeRemoves(q, by)
    <2>1. \A q \in Revoke : Waits(q) => revokes'[q].stage = revokes[q].stage
      BY <1>1, <1>14 DEF RevokeRemoves, OneEach
    <2> QED BY <1>3, <1>14, <2>1 DEF WireStays
  <1> QED BY <1>3, <1>4, <1>5, <1>6, <1>7, <1>8, <1>9, <1>10, <1>11, <1>12, <1>13, <1>14, StepCases

\* A revocation that stays as it is knows its sessions as before.
LEMMA CoveredStays ==
  ASSUME OwnershipType, GrantsUnique, GrantsFresh, [Next]_vars, NEW r \in Revoke, Covered(r),
         grant' \in {grant, FALSE}, revokes'[r].clean = revokes[r].clean, revokes'[r].todo = revokes[r].todo,
         \/ revokes'[r].stage = revokes[r].stage
         \/ revokes[r].stage \in {"closing", "next"}
  PROVE  Covered(r)'
  <1> SUFFICES ASSUME revokes'[r].stage # "idle", revokes[r].clean
               PROVE  /\ ~grant'
                      /\ revokes'[r].stage \in {"closing", "next"} =>
                           \A t \in Token : owner'[t] # Nobody => Leaves(t, r)'
    BY DEF Covered
  <1>1. ~grant /\ (revokes'[r].stage \in {"closing", "next"} => revokes[r].stage \in {"closing", "next"})
    BY DEF Covered
  <1>2. ASSUME NEW t \in Token, revokes'[r].stage \in {"closing", "next"}, owner'[t] # Nobody
        PROVE  Leaves(t, r)'
    <2>1. owner[t] # Nobody
      BY <1>1, <1>2, OwnerStep
    <2>2. t \in revokes[r].todo \/ CleaningFor(t, r)
      BY <1>1, <1>2, <2>1 DEF Covered, Leaves
    <2>3. CASE t \in revokes[r].todo
      BY <2>3 DEF Leaves
    <2>4. CASE CleaningFor(t, r)
      <3>1. CleaningFor(t, r)'
        BY <1>2, <2>4, CleaningGoesOn
      <3> QED BY <3>1 DEF Leaves
    <2> QED BY <2>2, <2>3, <2>4
  <1>3. ~grant'
    BY <1>1, Zenon
  <1> QED BY <1>2, <1>3

\* Success stays true until the device is granted again.
LEMMA DoneStays ==
  ASSUME OwnershipType, GrantsUnique, GrantsFresh, Revoking, [Next]_vars, revoked' \in {revoked, "no", "interrupted"},
         grant' \in {grant, FALSE} \/ revoked' = "no"
  PROVE  revoked' = "done" => ~grant' /\ \A t \in Token : owner'[t] = Nobody
  <1> SUFFICES ASSUME revoked' = "done"
               PROVE  ~grant' /\ \A t \in Token : owner'[t] = Nobody
    OBVIOUS
  <1>1. revoked = "done" /\ (grant' = grant \/ grant' = FALSE)
    OBVIOUS
  <1>3. ~grant /\ \A t \in Token : owner[t] = Nobody
    BY <1>1 DEF Revoking
  <1>4. ~grant'
    BY <1>1, <1>3, Zenon
  <1>2. ASSUME NEW t \in Token
        PROVE  owner'[t] = Nobody
    BY <1>3, OwnerStep
  <1> QED BY <1>2, <1>4

\* The next step of one revocation.
LEMMA CoveredGoesOn ==
  ASSUME OwnershipType, GrantsUnique, GrantsFresh, OneEach, Revoking, [Next]_vars, NEW r \in Revoke,
         RevokeCollects(r) \/ RevokeGoesOn(r)
  PROVE  Revoking'
  <1>0. /\ grant' = grant /\ answers' = answers /\ revokes[r].stage \in {"removed", "next"} /\ Nothing \notin Revoke
        /\ OwnType /\ Covered(r)
    BY DEF RevokeCollects, RevokeGoesOn, OwnershipType, Nothing, Revoking
  <1>1. ~Waits(r)
    BY <1>0 DEF OneEach
  <1>2. PICK todo \in SUBSET Known :
          /\ RevokeCloses(r, todo) /\ todo \in SUBSET Token
          /\ revokes[r].clean => ~grant /\ \A t \in Token : owner[t] # Nobody => t \in todo
    <2>1. CASE RevokeCollects(r)
      <3>1. TokensOfSite \in SUBSET Known /\ TokensOfSite \in SUBSET Token
            /\ \A t \in Token : owner[t] # Nobody => t \in TokensOfSite
        BY DEF TokensOfSite, OwnershipType, WireType
      <3>2. revokes[r].clean => ~grant
        BY <1>0, <2>1 DEF Covered, RevokeCollects
      <3> QED BY <2>1, <3>1, <3>2 DEF RevokeCollects
    <2>2. CASE RevokeGoesOn(r)
      <3>1. revokes[r].todo \in SUBSET Known /\ revokes[r].todo \in SUBSET Token
        BY DEF OwnershipType, WireType, OwnType, Revocation
      <3>2. ASSUME NEW t \in Token
            PROVE  ~CleaningFor(t, r)
        BY <1>1 DEF CleaningFor, CleaningAt, Waits, MineAt
      <3>3. revokes[r].clean => ~grant /\ \A t \in Token : owner[t] # Nobody => t \in revokes[r].todo
        BY <1>0, <2>2, <3>2 DEF Covered, Leaves, RevokeGoesOn
      <3> QED BY <2>2, <3>1, <3>3 DEF RevokeGoesOn
    <2> QED BY <1>0, <2>1, <2>2
  <1>3. ASSUME NEW s \in Revoke, s # r, revokes'[s] = revokes[s]
        PROVE  Covered(s)'
    BY <1>0, <1>3, CoveredStays DEF Revoking
  <1>4. ASSUME NEW how \in {"interrupted", "done"}, how = "done" => todo = {}, RevokeEnds(r, how),
               UNCHANGED <<ownVars, asked>>
        PROVE  Revoking'
    <2>1. /\ revokes'[r].stage = "idle" /\ \A s \in Revoke \ {r} : revokes'[s] = revokes[s]
          /\ IF revokes[r].clean THEN revoked' = how ELSE revoked' = revoked
      BY <1>0, <1>4, RevokeEndsCases
    <2>2. \A s \in Revoke : Covered(s)'
      BY <1>3, <2>1 DEF Covered
    <2>3. owner' = owner
      BY <1>4 DEF ownVars
    <2>4. revoked' = "done" => ~grant' /\ \A t \in Token : owner'[t] = Nobody
      <3>1. CASE revoked' = revoked
        BY <1>0, <3>1, DoneStays
      <3>2. CASE revoked' = how /\ revokes[r].clean
        BY <1>0, <1>2, <1>4, <2>3, <3>2
      <3> QED BY <2>1, <3>1, <3>2
    <2> QED BY <2>2, <2>4 DEF Revoking
  <1>5. ASSUME NEW t \in todo, CloseForCleanup({t}, r), revoked' = revoked,
               revokes'[r].todo = todo \ {t}, revokes'[r].clean = revokes[r].clean,
               revokes'[r].stage = IF up THEN "closing" ELSE "next",
               \A s \in Revoke \ {r} : revokes'[s] = revokes[s]
        PROVE  Revoking'
    <2>1. ASSUME revokes[r].clean, NEW u \in Token, owner'[u] # Nobody
          PROVE  Leaves(u, r)'
      <3>1. ~grant /\ owner[u] # Nobody
        BY <1>2, <2>1, OwnerStep
      <3>2. u \in todo
        BY <1>2, <2>1, <3>1
      <3>3. CASE u = t
        <4>1. {t} \in SUBSET Known
          OBVIOUS
        <4>2. CleaningFor(u, r)'
          BY <1>0, <1>5, <2>1, <3>1, <3>3, <4>1, CleaningStarts
        <4> QED BY <4>2 DEF Leaves
      <3>4. CASE u # t
        BY <1>5, <3>2, <3>4 DEF Leaves
      <3> QED BY <3>3, <3>4
    <2>2. Covered(r)'
      BY <1>0, <1>2, <1>5, <2>1 DEF Covered
    <2>3. \A s \in Revoke : Covered(s)'
      BY <1>3, <1>5, <2>2
    <2>4. revoked' = "done" => ~grant' /\ \A u \in Token : owner'[u] = Nobody
      BY <1>0, <1>5, DoneStays
    <2> QED BY <2>3, <2>4 DEF Revoking
  <1> QED BY <1>0, <1>2, <1>4, <1>5, RevokeClosesCases

LEMMA RevokingStep ==
  ASSUME OwnershipType, GrantsUnique, GrantsFresh, OneEach, Revoking, [Next]_vars
  PROVE  Revoking'
  <1>0. OwnType /\ revokes \in [Revoke -> Revocation] /\ \A r \in Revoke : Covered(r)
    BY DEF OwnershipType, OwnType, Revoking
  <1>1. ASSUME UNCHANGED <<grant, revoked>>,
               \A r \in Revoke : /\ revokes'[r].clean = revokes[r].clean /\ revokes'[r].todo = revokes[r].todo
                                 /\ \/ revokes'[r].stage = revokes[r].stage
                                    \/ revokes[r].stage \in {"closing", "next"}
        PROVE  Revoking'
    <2>1. \A r \in Revoke : Covered(r)'
      BY <1>0, <1>1, CoveredStays
    <2>2. revoked' = "done" => ~grant' /\ \A t \in Token : owner'[t] = Nobody
      BY <1>1, DoneStays
    <2> QED BY <2>1, <2>2 DEF Revoking
  <1>2. CASE RestStays
    BY <1>1, <1>2 DEF RestStays
  <1>3. CASE WireStays /\ \E by \in Endpoint \cup {Nobody} : PairDevice(by) \/ UnpairDevice(by)
    <2>1. CASE \E by \in Endpoint \cup {Nobody} : UnpairDevice(by)
      <3>1. grant' = FALSE /\ UNCHANGED <<revokes, revoked>>
        BY <2>1 DEF UnpairDevice, RemoveAllowedDevice
      <3>2. \A r \in Revoke : Covered(r)'
        BY <1>0, <3>1, CoveredStays
      <3>3. revoked' = "done" => ~grant' /\ \A t \in Token : owner'[t] = Nobody
        BY <3>1, DoneStays
      <3> QED BY <3>2, <3>3 DEF Revoking
    <2>2. CASE \E by \in Endpoint \cup {Nobody} : PairDevice(by)
      <3>1. revoked' = "no" /\ revokes' = [q \in Revoke |-> [revokes[q] EXCEPT !.clean = FALSE]]
        BY <2>2 DEF PairDevice
      <3>2. \A r \in Revoke : ~revokes'[r].clean
        BY <1>0, <3>1 DEF Revocation
      <3> QED BY <3>1, <3>2 DEF Revoking, Covered
    <2> QED BY <1>3, <2>1, <2>2
  <1>4. CASE WireStays /\ \E r \in Revoke, by \in Endpoint \cup {Nobody} : RevokeRemoves(r, by)
    <2>1. PICK r \in Revoke, by \in Endpoint \cup {Nobody} : RevokeRemoves(r, by)
      BY <1>4
    <2>2. /\ grant' = FALSE /\ revoked' = revoked
          /\ revokes' = [revokes EXCEPT ![r] = [stage |-> "removed", by |-> by, todo |-> {}, clean |-> TRUE]]
      BY <2>1 DEF RevokeRemoves, RemoveAllowedDevice
    <2>3. Covered(r)'
      BY <1>0, <2>2 DEF Covered
    <2>4. \A s \in Revoke \ {r} : Covered(s)'
      BY <1>0, <2>2, CoveredStays
    <2>5. revoked' = "done" => ~grant' /\ \A t \in Token : owner'[t] = Nobody
      BY <2>2, DoneStays
    <2> QED BY <2>3, <2>4, <2>5 DEF Revoking
  <1>5. CASE \E r \in Revoke : RevokeCollects(r) \/ RevokeGoesOn(r)
    BY <1>5, CoveredGoesOn
  <1>6. ASSUME NEW c \in Revoke \cup {Nothing}, Resume(c), c # Nothing => Waits(c), UNCHANGED <<grant, revoked>>
        PROVE  Revoking'
    <2>1. \A r \in Revoke : /\ revokes'[r].clean = revokes[r].clean /\ revokes'[r].todo = revokes[r].todo
                            /\ r # c => revokes'[r] = revokes[r]
      BY <1>0, <1>6, ResumeCases
    <2>2. c # Nothing => revokes[c].stage = "closing"
      BY <1>6 DEF OneEach
    <2> QED BY <1>1, <1>6, <2>1, <2>2 DEF Nothing
  <1>7. CASE Deliver
    <2> DEFINE a == Head(answers)
    <2>1. a = answers[1] /\ 1 \in DOMAIN answers /\ GoodReply(a) /\ UNCHANGED <<grant, revoked>>
      BY <1>7, DeliverCases
    <2>2. a.r \in Revoke \cup {Nothing}
      BY <2>1 DEF GoodReply, Reply
    <2>3. IF a.k = "cleanup" THEN Resume(a.r) ELSE revokes' = revokes
      BY <1>7, DeliverCases DEF OpenAnswered, LateOpenAnswered, CloseAnswered, CleanupAnswered, AnswerUnwanted,
         DeviceGoneArrives, CleanupSettles
    <2> HIDE DEF a
    <2>4. CASE a.k = "cleanup"
      <3>1. PICK c \in Revoke \cup {Nothing} : c = a.r
        BY <2>2
      <3>2. Waits(c)
        BY <2>1, <2>4, <3>1 DEF Waits, MineAt
      <3> QED BY <1>6, <2>1, <2>3, <2>4, <3>1, <3>2
    <2>5. CASE a.k # "cleanup"
      BY <1>2, <2>1, <2>3, <2>5 DEF RestStays
    <2> QED BY <2>4, <2>5
  <1>8. ASSUME NEW i \in DOMAIN asked, RequestTimesOut(i)
        PROVE  Revoking'
    <2>1. UNCHANGED <<grant, revoked>> /\ asked[i].r \in Revoke \cup {Nothing}
      BY <1>8 DEF RequestTimesOut, OwnershipType, WireType, GoodRequest, Request
    <2>2. CASE asked[i].k = "cleanup"
      <3>1. PICK c \in Revoke \cup {Nothing} : c = asked[i].r
        BY <2>1
      <3>2. Waits(c) /\ Resume(c)
        BY <1>8, <2>2, <3>1 DEF Waits, MineAt, RequestTimesOut, CleanupSettles
      <3> QED BY <1>6, <2>1, <3>2
    <2>3. CASE asked[i].k # "cleanup"
      BY <1>2, <1>8, <2>1, <2>3 DEF RestStays, RequestTimesOut
    <2> QED BY <2>2, <2>3
  <1>9. CASE PortLost
    <2>1. UNCHANGED <<grant, revoked>>
          /\ revokes' = [r \in Revoke |-> IF revokes[r].stage = "closing"
                                          THEN [revokes[r] EXCEPT !.stage = "next"] ELSE revokes[r]]
      BY <1>9 DEF PortLost
    <2>2. \A r \in Revoke : /\ revokes'[r].clean = revokes[r].clean /\ revokes'[r].todo = revokes[r].todo
                            /\ \/ revokes'[r].stage = revokes[r].stage
                               \/ revokes[r].stage \in {"closing", "next"}
      BY <1>0, <2>1 DEF Revocation
    <2> QED BY <1>1, <2>1, <2>2
  <1> QED BY <1>2, <1>3, <1>4, <1>5, <1>7, <1>8, <1>9, StepCases

LEMMA RevocationInvariant ==
  Spec => []RevocationInv
  <1>1. Init => RevocationInv
    <2> SUFFICES ASSUME Init
                 PROVE  OneEach /\ Revoking
      BY OwnershipInit DEF RevocationInv
    <2>1. DOMAIN asked = {} /\ DOMAIN answers = {}
      BY EmptySeq DEF Init
    <2>2. OneEach
      BY <2>1 DEF OneEach, Waits
    <2>3. Revoking
      BY DEF Init, Revoking, Covered, NoRevocation
    <2> QED BY <2>2, <2>3
  <1>2. RevocationInv /\ [Next]_vars => RevocationInv'
    <2> SUFFICES ASSUME RevocationInv, [Next]_vars
                 PROVE  RevocationInv'
      OBVIOUS
    <2>1. OwnershipInv /\ OneEach /\ Revoking /\ OwnershipType /\ GrantsUnique /\ GrantsFresh
      BY DEF RevocationInv, OwnershipInv
    <2>2. OwnershipInv'
      BY <2>1, OwnershipStep
    <2>3. OneEach' /\ Revoking'
      BY <2>1, OneEachStep, RevokingStep
    <2> QED BY <2>2, <2>3 DEF RevocationInv
  <1> QED BY <1>1, <1>2, PTL DEF Spec

\* A revocation that reported success leaves the site no session, for any
\* number of revocations and opens under way.
THEOREM RevocationsHold ==
  Spec => []RevocationHolds
  <1>1. RevocationInv => RevocationHolds
    BY DEF RevocationInv, Revoking, RevocationHolds
  <1> QED BY <1>1, RevocationInvariant, PTL
-----------------------------------------------------------------------------
(* The background implements SessionCustody *)

\* What the daemon has answered a close of, it no longer holds; when it says
\* that the device is gone, it holds only what it granted after.
Ended ==
  /\ \A i \in DOMAIN answers : answers[i].k \in Closing => answers[i].t \notin alive
  /\ \A i \in DOMAIN answers : answers[i].k = "gone" =>
       \A t \in alive : \E j \in DOMAIN answers : j > i /\ GrantedAt(j, t)

NoneAbandoned == \A t \in Token : Custody(t) # "abandoned"

CustodyInv == OwnershipInv /\ Ended /\ NoneAbandoned

CustodyStays(t) == Custody(t)' = Custody(t)

LEMMA WaysIn ==
  ASSUME NEW t
  PROVE  OnItsWay(t) <=> Granted(t)
  BY DEF OnItsWay, Granted, GrantedAt, Rereading, Opening

LEMMA WaysInNext ==
  ASSUME NEW t
  PROVE  OnItsWay(t)' <=> Granted(t)'
  <1>1. OnItsWay(t) <=> Granted(t)
    BY WaysIn
  <1> QED BY <1>1, PTL

\* The custody of a session follows from four facts about it.
LEMMA SameCustody ==
  ASSUME NEW t, t \in alive' <=> t \in alive, Granted(t)' <=> Granted(t), OnItsWayOut(t)' <=> OnItsWayOut(t),
         owner'[t] # Nobody <=> owner[t] # Nobody
  PROVE  CustodyStays(t)
  BY WaysIn, WaysInNext DEF CustodyStays, Custody

LEMMA EndedStep ==
  ASSUME OwnershipType, GrantsUnique, GrantsFresh, Ended, [Next]_vars
  PROVE  Ended'
  <1>0. asked \in Seq(Request) /\ answers \in Seq(Reply) /\ opened \in Nat
    BY DEF OwnershipType, WireType
  <1>1. CASE UNCHANGED <<answers, alive>>
    BY <1>1 DEF Ended, GrantedAt
  <1>2. CASE Deliver
    <2>1. answers' = Tail(answers) /\ alive' = alive /\ answers # <<>>
      BY <1>2, DeliverCases
    <2>2. /\ \A i \in DOMAIN answers' : i + 1 \in DOMAIN answers /\ answers'[i] = answers[i + 1] /\ i \in Int
          /\ \A i \in DOMAIN answers : i # 1 => i - 1 \in DOMAIN answers' /\ answers'[i - 1] = answers[i]
          /\ \A i \in DOMAIN answers : i \in Int /\ i >= 1
      BY <1>0, <2>1, Tails
    <2>3. ASSUME NEW i \in DOMAIN answers', answers'[i].k = "gone", NEW t \in alive
          PROVE  \E j \in DOMAIN answers' : j > i /\ GrantedAt(j, t)'
      <3>1. PICK j \in DOMAIN answers : j > i + 1 /\ GrantedAt(j, t)
        BY <2>2, <2>3 DEF Ended
      <3>2. j - 1 \in DOMAIN answers' /\ j - 1 > i /\ GrantedAt(j - 1, t)'
        BY <2>2, <3>1 DEF GrantedAt
      <3> QED BY <3>2
    <2>4. \A i \in DOMAIN answers' : answers'[i].k \in Closing => answers'[i].t \notin alive
      BY <2>2 DEF Ended
    <2> QED BY <2>1, <2>3, <2>4 DEF Ended
  <1>3. CASE PortLost
    <2>1. DOMAIN answers' = {}
      BY <1>3, EmptySeq DEF PortLost
    <2> QED BY <2>1 DEF Ended
  <1>4. CASE DaemonAnswers
    <2> DEFINE q == Head(asked)
    <2>1. PICK d \in Request : d = q
      BY <1>0, <1>4, Tails DEF DaemonAnswers
    <2>2. PICK a : /\ answers' = Append(answers, a) /\ a.k = d.k
                   /\ \/ a.k \in Opening /\ a.t = opened + 1 /\ alive' = alive \cup {opened + 1}
                      \/ a.k \in Opening /\ alive' = alive
                      \/ a.k \notin Opening /\ a.t = d.t /\ alive' = alive \ {d.t}
      BY <1>4, <2>1 DEF DaemonAnswers, Opening
    <2>3. /\ \A i \in DOMAIN answers : i \in DOMAIN answers' /\ answers'[i] = answers[i] /\ i < Len(answers) + 1
          /\ Len(answers) + 1 \in DOMAIN answers' /\ answers'[Len(answers) + 1] = a
          /\ \A i \in DOMAIN answers' : i \in DOMAIN answers \/ i = Len(answers) + 1
      BY <1>0, <2>2
    <2>4. ASSUME NEW i \in DOMAIN answers', answers'[i].k \in Closing
          PROVE  answers'[i].t \notin alive'
      <3>1. CASE i \in DOMAIN answers
        <4>1. answers[i].t \in Known /\ answers[i].t \notin alive
          BY <2>3, <2>4, <3>1 DEF Ended, OwnershipType, WireType, GoodReply
        <4> QED BY <1>0, <2>2, <2>3, <3>1, <4>1 DEF Known
      <3>2. CASE i = Len(answers) + 1
        BY <2>2, <2>3, <2>4, <3>2 DEF Opening, Closing
      <3> QED BY <2>3, <3>1, <3>2
    <2>5. ASSUME NEW i \in DOMAIN answers', answers'[i].k = "gone", NEW t \in alive'
          PROVE  \E j \in DOMAIN answers' : j > i /\ GrantedAt(j, t)'
      <3>1. i \in DOMAIN answers /\ answers[i].k = "gone" /\ i \in Int /\ i < Len(answers) + 1
        BY <1>0, <2>1, <2>2, <2>3, <2>5 DEF Request, Kind
      <3>2. CASE t \in alive
        <4>1. PICK j \in DOMAIN answers : j > i /\ GrantedAt(j, t)
          BY <3>1, <3>2 DEF Ended
        <4> QED BY <2>3, <4>1 DEF GrantedAt
      <3>3. CASE t \notin alive
        <4>1. a.k \in Opening /\ a.t = t
          BY <2>2, <2>5, <3>3
        <4>2. PICK j \in DOMAIN answers' : j = Len(answers) + 1 /\ answers'[j] = a
          BY <2>3
        <4>3. j > i /\ GrantedAt(j, t)'
          BY <1>0, <3>1, <4>1, <4>2 DEF GrantedAt
        <4> QED BY <4>3
      <3> QED BY <3>2, <3>3
    <2> QED BY <2>4, <2>5 DEF Ended
  <1>5. CASE DeviceGone
    <2>1. alive' = {}
      BY <1>5 DEF DeviceGone
    <2> QED BY <2>1 DEF Ended
  <1>6. CASE \/ WireStays \/ PortReconnects \/ Asks \/ \E i \in DOMAIN asked : RequestTimesOut(i)
             \/ \E ts \in SUBSET Known, r \in Revoke \cup {Nothing} : Cleans(ts, r)
             \/ \E x \in rereading : Registers(x)
    BY <1>1, <1>6 DEF WireStays, PortReconnects, Asks, RequestTimesOut, Cleans, Registers
  <1> QED BY <1>2, <1>3, <1>4, <1>5, <1>6, WireCases

\* What a step may do to the custody of the sessions.
OnlyEnds == \A t \in Token : CustodyStays(t) \/ Custody(t)' = "none"
OnlyReleases ==
  \A t \in Token : CustodyStays(t) \/ (Custody(t) \in {"granted", "held"} /\ Custody(t)' = "closing")
OnlyGrants ==
  \E u \in Token : /\ Custody(u) = "none" /\ Custody(u)' = "granted"
                   /\ \A t \in Token \ {u} : CustodyStays(t)
OnlyHands ==
  \E u \in Token : /\ Custody(u) = "granted" /\ Custody(u)' = "held"
                   /\ \A t \in Token \ {u} : CustodyStays(t)
CustodyMoves == OnlyEnds \/ OnlyReleases \/ OnlyGrants \/ OnlyHands

LEMMA AllStay ==
  ASSUME \A t \in Token : CustodyStays(t)
  PROVE  CustodyMoves
  BY DEF CustodyMoves, OnlyEnds

\* A session whose close goes out while the daemon holds it was released, or was being closed.
LEMMA Releases ==
  ASSUME NoneAbandoned, NEW t \in Token, UNCHANGED alive, ~Granted(t)', OnItsWayOut(t)'
  PROVE  CustodyStays(t) \/ (Custody(t) \in {"granted", "held"} /\ Custody(t)' = "closing")
  BY WaysIn, WaysInNext DEF CustodyStays, Custody, NoneAbandoned

LEMMA CustodyAsks ==
  ASSUME OwnershipType, GrantsUnique, GrantsFresh, NoneAbandoned, Asks
  PROVE  CustodyMoves
  <1>1. PICK e \in DOMAIN place, k \in {"open", "close"}, t \in Known \cup {Nothing} :
          Ask(k, e, t) /\ (k = "close" => t \in Known /\ owner[t] # Nobody)
    BY DEF Asks
  <1> DEFINE q == [k |-> k, e |-> e, t |-> t, owned |-> FALSE, r |-> Nothing]
  <1>2. asked' = Append(asked, q) /\ asked \in Seq(Request) /\ q.k = k /\ q.t = t
    BY <1>1 DEF Ask, OwnershipType, WireType
  <1> HIDE DEF q
  <1>3. UNCHANGED <<owner, orphans, rereading, up, answers, alive, opened>>
    BY DEF Asks
  <1>4. /\ \A i \in DOMAIN asked : i \in DOMAIN asked' /\ asked'[i] = asked[i]
        /\ \A i \in DOMAIN asked' : asked'[i] = q \/ (i \in DOMAIN asked /\ asked'[i] = asked[i])
        /\ \E i \in DOMAIN asked' : asked'[i] = q
    <2>1. Len(asked) + 1 \in DOMAIN asked' /\ asked'[Len(asked) + 1] = q
      BY <1>2
    <2> QED BY <1>2, <2>1
  <1>5. \A u \in Token : Granted(u)' <=> Granted(u)
    BY <1>3 DEF Granted, GrantedAt, Rereading
  <1>6. ASSUME NEW u \in Token, ~(k = "close" /\ u = t)
        PROVE  CustodyStays(u)
    <2>1. OnItsWayOut(u)' <=> OnItsWayOut(u)
      BY <1>2, <1>3, <1>4, <1>6 DEF OnItsWayOut
    <2> QED BY <1>3, <1>5, <2>1, SameCustody
  <1>7. CASE k = "open"
    BY <1>6, <1>7, AllStay
  <1>8. CASE k = "close"
    <2>1. t \in Token /\ owner[t] # Nobody
      BY <1>1, <1>8 DEF OwnershipType, WireType, Known, Token
    <2>2. ~Granted(t)'
      BY <1>5, <2>1 DEF GrantsFresh
    <2>3. OnItsWayOut(t)'
      BY <1>2, <1>4, <1>8 DEF OnItsWayOut
    <2>4. CustodyStays(t) \/ (Custody(t) \in {"granted", "held"} /\ Custody(t)' = "closing")
      BY <1>3, <2>1, <2>2, <2>3, Releases
    <2>5. OnlyReleases
      BY <1>6, <2>4 DEF OnlyReleases
    <2> QED BY <2>5 DEF CustodyMoves
  <1> QED BY <1>7, <1>8

LEMMA CustodyCleans ==
  ASSUME OwnershipType, GrantsUnique, GrantsFresh, NoneAbandoned, NEW ts \in SUBSET Known,
         NEW r \in Revoke \cup {Nothing}, Cleans(ts, r)
  PROVE  CustodyMoves
  <1>1. /\ CloseForCleanup(ts, r) /\ \A t \in ts : ~Granted(t)'
        /\ rereading' = {x \in rereading : x.t \notin ts}
        /\ UNCHANGED <<up, answers, alive, opened>>
    BY DEF Cleans
  <1>2. \A t \in Token \ ts : Granted(t)' <=> Granted(t)
    BY <1>1 DEF Granted, GrantedAt, Rereading
  <1>3. /\ \A t \in ts : OnItsWayOut(t)'
        /\ \A t \in Token \ ts : (OnItsWayOut(t)' <=> OnItsWayOut(t)) /\ owner'[t] = owner[t]
    <2>1. CASE up
      <3>1. /\ UNCHANGED <<owner, orphans>>
            /\ \A i \in DOMAIN asked : i \in DOMAIN asked' /\ asked'[i] = asked[i]
            /\ \A i \in DOMAIN asked' \ DOMAIN asked : \E t \in ts : asked'[i] = CleanupEntry(t, r)
            /\ \A t \in ts : \E i \in DOMAIN asked' : asked'[i] = CleanupEntry(t, r)
        BY <1>1, <2>1, CleanupAsks, Zenon
      <3>2. \A t \in ts : CleanupEntry(t, r).k = "cleanup" /\ CleanupEntry(t, r).t = t
        BY DEF CleanupEntry
      <3>3. ASSUME NEW t \in ts
            PROVE  OnItsWayOut(t)'
        BY <3>1, <3>2 DEF OnItsWayOut
      <3>4. ASSUME NEW t \in Token \ ts
            PROVE  OnItsWayOut(t)' <=> OnItsWayOut(t)
        BY <3>1, <3>2 DEF OnItsWayOut
      <3> QED BY <3>1, <3>3, <3>4
    <2>2. CASE ~up
      <3>1. owner' = Unregistered(ts) /\ orphans' = orphans \cup ts /\ asked' = asked
        BY <1>1, <2>2 DEF CloseForCleanup
      <3> QED BY <3>1 DEF OnItsWayOut, Unregistered
    <2> QED BY <2>1, <2>2
  <1>4. ASSUME NEW t \in Token \ ts
        PROVE  CustodyStays(t)
    BY <1>1, <1>2, <1>3, SameCustody
  <1>5. ASSUME NEW t \in ts
        PROVE  CustodyStays(t) \/ (Custody(t) \in {"granted", "held"} /\ Custody(t)' = "closing")
    <2>1. t \in Token
      BY DEF OwnershipType, WireType, Known, Token
    <2> QED BY <1>1, <1>3, <2>1, Releases
  <1>6. OnlyReleases
    BY <1>4, <1>5 DEF OnlyReleases
  <1> QED BY <1>6 DEF CustodyMoves

LEMMA CustodyRegisters ==
  ASSUME OwnershipType, GrantsUnique, GrantsFresh, NEW x \in rereading, Registers(x)
  PROVE  CustodyMoves
  <1>1. /\ owner' = [owner EXCEPT ![x.t] = x.e] /\ rereading' = rereading \ {x}
        /\ UNCHANGED <<orphans, up, asked, answers, alive, opened>>
    BY DEF Registers, Register
  <1>2. x.t \in Token /\ x.e # Nobody /\ Granted(x.t)
    BY Tabs DEF OwnershipType, WireType, Known, Token, Granted, Rereading
  <1>3. ~Granted(x.t)' /\ ~OnItsWayOut(x.t)'
    <2>1. ~Granted(x.t)'
      BY <1>1, <1>2 DEF GrantsUnique, Granted, GrantedAt, Rereading
    <2>2. ~OnItsWayOut(x.t)
      BY <1>2 DEF GrantsFresh, Busy, OnItsWayOut, Closing
    <2> QED BY <1>1, <2>1, <2>2 DEF OnItsWayOut
  <1>4. owner'[x.t] # Nobody
    BY <1>1, <1>2 DEF OwnershipType, OwnType
  <1>5. ASSUME NEW t \in Token \ {x.t}
        PROVE  CustodyStays(t)
    <2>1. Granted(t)' <=> Granted(t)
      BY <1>1, <1>5 DEF Granted, GrantedAt, Rereading
    <2>2. OnItsWayOut(t)' <=> OnItsWayOut(t)
      BY <1>1 DEF OnItsWayOut
    <2>3. owner'[t] = owner[t]
      BY <1>1, <1>5 DEF OwnershipType, OwnType
    <2> QED BY <1>1, <2>1, <2>2, <2>3, SameCustody
  <1>6. CASE x.t \in alive
    <2>1. Custody(x.t) = "granted" /\ Custody(x.t)' = "held"
      BY <1>1, <1>2, <1>3, <1>4, <1>6, WaysIn, WaysInNext DEF Custody
    <2>2. OnlyHands
      BY <1>2, <1>5, <2>1 DEF OnlyHands
    <2> QED BY <2>2 DEF CustodyMoves
  <1>7. CASE x.t \notin alive
    <2>1. CustodyStays(x.t)
      BY <1>1, <1>7 DEF Custody, CustodyStays
    <2> QED BY <1>5, <2>1, AllStay
  <1> QED BY <1>6, <1>7

LEMMA CustodyDeliver ==
  ASSUME OwnershipType, GrantsUnique, GrantsFresh, Ended, NoneAbandoned, Deliver
  PROVE  CustodyMoves
  <1>1. PICK a \in Reply : a = Head(answers)
    BY DeliverCases DEF GoodReply
  <1>2. /\ answers' = Tail(answers) /\ a = answers[1] /\ 1 \in DOMAIN answers /\ GoodReply(a)
        /\ answers \in Seq(Reply) /\ asked \in Seq(Request) /\ answers # <<>> /\ alive' = alive
        /\ \/ OpenAnswered(a) \/ LateOpenAnswered(a) \/ CloseAnswered(a)
           \/ CleanupAnswered(a) \/ AnswerUnwanted(a) \/ DeviceGoneArrives(a)
    BY <1>1, DeliverCases DEF OwnershipType, WireType
  <1>3. /\ \A i \in DOMAIN answers' : i + 1 \in DOMAIN answers /\ answers'[i] = answers[i + 1] /\ i + 1 # 1
        /\ \A i \in DOMAIN answers : i # 1 => i - 1 \in DOMAIN answers' /\ answers'[i - 1] = answers[i]
        /\ \A i \in DOMAIN answers : i \in Int /\ i >= 1
    BY <1>2, Tails
  <1>4. \A t \in Token : (\E i \in DOMAIN answers' : GrantedAt(i, t)')
                           <=> \E i \in DOMAIN answers : GrantedAt(i, t) /\ i # 1
    BY <1>3 DEF GrantedAt
  <1>5. CASE OpenAnswered(a)
    <2>1. /\ a.k = "open" /\ UNCHANGED <<owner, orphans, asked>>
          /\ rereading' = IF a.ok THEN rereading \cup {[e |-> a.e, t |-> a.t]} ELSE rereading
      BY <1>5 DEF OpenAnswered, ownVars
    <2>2. \A t \in Token : GrantedAt(1, t) <=> a.ok /\ t = a.t
      BY <1>2, <2>1 DEF GrantedAt, GoodReply, Opening, Nothing, Token
    <2>3. ASSUME NEW t \in Token
          PROVE  Granted(t)' <=> Granted(t)
      <3>1. Rereading(t)' <=> Rereading(t) \/ (a.ok /\ t = a.t)
        <4>1. CASE a.ok
          <5>1. rereading' = rereading \cup {[e |-> a.e, t |-> a.t]}
            BY <2>1, <4>1
          <5>2. \A x \in rereading' : x \in rereading \/ x.t = a.t
            BY <5>1
          <5>3. \E x \in rereading' : x.t = a.t
            <6>1. [e |-> a.e, t |-> a.t] \in rereading' /\ [e |-> a.e, t |-> a.t].t = a.t
              BY <5>1
            <6> QED BY <6>1
          <5>4. \A x \in rereading : x \in rereading'
            BY <5>1
          <5> QED BY <4>1, <5>2, <5>3, <5>4 DEF Rereading
        <4>2. CASE ~a.ok
          BY <2>1, <4>2 DEF Rereading
        <4> QED BY <4>1, <4>2
      <3>2. (\E i \in DOMAIN answers : GrantedAt(i, t))
              <=> GrantedAt(1, t) \/ \E i \in DOMAIN answers : GrantedAt(i, t) /\ i # 1
        BY <1>2
      <3> QED BY <1>4, <2>2, <3>1, <3>2 DEF Granted
    <2>4. ASSUME NEW t \in Token
          PROVE  CustodyStays(t)
      <3>1. OnItsWayOut(t)' <=> OnItsWayOut(t)
        BY <2>1 DEF OnItsWayOut
      <3> QED BY <1>2, <2>1, <2>3, <3>1, SameCustody
    <2> QED BY <2>4, AllStay
  <1>6. CASE LateOpenAnswered(a)
    <2>1. a.k = "lateOpen" /\ UNCHANGED <<owner, orphans, rereading>>
      BY <1>6 DEF LateOpenAnswered, ownVars
    <2>2. \A t \in Token : GrantedAt(1, t) <=> a.ok /\ t = a.t
      BY <1>2, <2>1 DEF GrantedAt, GoodReply, Opening, Nothing, Token
    <2>3. CASE ~a.ok
      <3>1. asked' = asked
        BY <1>6, <2>3 DEF LateOpenAnswered
      <3>2. ASSUME NEW t \in Token
            PROVE  CustodyStays(t)
        <4>1. (Granted(t)' <=> Granted(t)) /\ (OnItsWayOut(t)' <=> OnItsWayOut(t))
          BY <1>4, <2>1, <2>2, <2>3, <3>1 DEF Granted, Rereading, OnItsWayOut
        <4> QED BY <1>2, <2>1, <4>1, SameCustody
      <3> QED BY <3>2, AllStay
    <2>4. CASE a.ok
      <3>1. /\ \A i \in DOMAIN asked : i \in DOMAIN asked' /\ asked'[i] = asked[i]
            /\ \A i \in DOMAIN asked' : i \in DOMAIN asked \/ (asked'[i].k = "drop" /\ asked'[i].t = a.t)
            /\ \E i \in DOMAIN asked' : asked'[i].k = "drop" /\ asked'[i].t = a.t
        <4> DEFINE q == [k |-> "drop", e |-> Nobody, t |-> a.t, owned |-> FALSE, r |-> Nothing]
        <4>1. asked' = Append(asked, q) /\ q.k = "drop" /\ q.t = a.t
          BY <1>6, <2>4 DEF LateOpenAnswered, Ask
        <4> HIDE DEF q
        <4>2. Len(asked) + 1 \in DOMAIN asked' /\ asked'[Len(asked) + 1] = q
          BY <1>2, <4>1
        <4> QED BY <1>2, <4>1, <4>2
      <3>2. a.t \in Token /\ GrantedAt(1, a.t)
        BY <1>2, <2>1, <2>4 DEF GoodReply, Opening, OwnershipType, WireType, Known, Token, GrantedAt
      <3>3. ASSUME NEW t \in Token \ {a.t}
            PROVE  CustodyStays(t)
        <4>1. Granted(t)' <=> Granted(t)
          BY <1>4, <2>1, <2>2 DEF Granted, Rereading
        <4>2. OnItsWayOut(t)' <=> OnItsWayOut(t)
          BY <2>1, <3>1 DEF OnItsWayOut
        <4> QED BY <1>2, <2>1, <4>1, <4>2, SameCustody
      <3>4. ~Granted(a.t)'
        <4>1. ~Rereading(a.t) /\ \A i \in DOMAIN answers : GrantedAt(i, a.t) => i = 1
          BY <1>2, <3>2 DEF GrantsUnique
        <4> QED BY <1>4, <2>1, <3>2, <4>1 DEF Granted, Rereading
      <3>5. OnItsWayOut(a.t)'
        BY <3>1 DEF OnItsWayOut
      <3>6. OnlyReleases
        BY <1>2, <3>2, <3>3, <3>4, <3>5, Releases DEF OnlyReleases
      <3> QED BY <3>6 DEF CustodyMoves
    <2> QED BY <2>3, <2>4
  <1>7. CASE CloseAnswered(a) \/ CleanupAnswered(a) \/ AnswerUnwanted(a)
    <2>1. /\ a.k \in Closing /\ UNCHANGED <<asked, rereading>>
          /\ owner' \in {owner, Unregistered({a.t})} /\ orphans' \in {orphans, orphans \ {a.t}}
      BY <1>7 DEF CloseAnswered, CleanupAnswered, AnswerUnwanted, CleanupSettles, ownVars, Closing
    <2>2. a.t \notin alive
      BY <1>2, <2>1 DEF Ended
    <2>3. \A t \in Token : ~GrantedAt(1, t)
      BY <1>2, <2>1 DEF GrantedAt, Opening, Closing
    <2>4. ASSUME NEW t \in Token
          PROVE  CustodyStays(t)
      <3>1. CASE t = a.t
        BY <1>2, <2>2, <3>1 DEF CustodyStays, Custody
      <3>2. CASE t # a.t
        <4>1. Granted(t)' <=> Granted(t)
          BY <1>4, <2>1, <2>3 DEF Granted, Rereading
        <4>2. (OnItsWayOut(t)' <=> OnItsWayOut(t)) /\ owner'[t] = owner[t]
          BY <2>1, <3>2 DEF OnItsWayOut, Unregistered
        <4> QED BY <1>2, <4>1, <4>2, SameCustody
      <3> QED BY <3>1, <3>2
    <2> QED BY <2>4, AllStay
  <1>8. CASE DeviceGoneArrives(a)
    <2>1. a.k = "gone" /\ UNCHANGED <<asked, rereading>>
      BY <1>8 DEF DeviceGoneArrives
    <2>2. ASSUME NEW t \in Token
          PROVE  CustodyStays(t)
      <3>1. CASE t \notin alive
        BY <1>2, <3>1 DEF CustodyStays, Custody
      <3>2. CASE t \in alive
        <4>1. PICK j \in DOMAIN answers : j > 1 /\ GrantedAt(j, t)
          BY <1>2, <2>1, <3>2 DEF Ended
        <4>2. Granted(t) /\ Granted(t)'
          BY <1>3, <1>4, <4>1 DEF Granted
        <4> QED BY <1>2, <3>2, <4>2, WaysIn, WaysInNext DEF CustodyStays, Custody
      <3> QED BY <3>1, <3>2
    <2> QED BY <2>2, AllStay
  <1> QED BY <1>2, <1>5, <1>6, <1>7, <1>8

LEMMA CustodyTimesOut ==
  ASSUME OwnershipType, GrantsUnique, GrantsFresh, NEW i \in DOMAIN asked, RequestTimesOut(i)
  PROVE  CustodyMoves
  <1>1. PICK v \in Request : v = asked[i]
    BY DEF OwnershipType, WireType, GoodRequest
  <1> DEFINE w == [v EXCEPT !.k = IF @ = "open" THEN "lateOpen" ELSE "drop"]
  <1>2. /\ asked' = [asked EXCEPT ![i] = w] /\ w.t = v.t /\ v.k \in {"open", "close", "cleanup"}
        /\ w.k \in {"close", "cleanup", "drop"} <=> v.k \in {"close", "cleanup", "drop"}
    BY <1>1 DEF RequestTimesOut, Request
  <1>3. /\ UNCHANGED <<rereading, answers, alive>>
        /\ v.k # "cleanup" => UNCHANGED <<owner, orphans>>
        /\ owner' \in {owner, Unregistered({v.t})} /\ orphans' \in {orphans, orphans \cup {v.t}}
    BY <1>1 DEF RequestTimesOut, CleanupSettles
  <1> HIDE DEF w
  <1>4. /\ DOMAIN asked' = DOMAIN asked /\ asked'[i] = w
        /\ \A j \in DOMAIN asked : j # i => asked'[j] = asked[j]
    BY <1>2 DEF OwnershipType, WireType
  <1>5. ASSUME NEW t \in Token
        PROVE  CustodyStays(t)
    <2>1. Granted(t)' <=> Granted(t)
      BY <1>3 DEF Granted, GrantedAt, Rereading
    <2>2. v.k = "cleanup" /\ t = v.t => OnItsWayOut(t)
      BY <1>1 DEF OnItsWayOut
    <2>3. (\E j \in DOMAIN asked' : asked'[j].k \in {"close", "cleanup", "drop"} /\ asked'[j].t = t)
            <=> \E j \in DOMAIN asked : asked[j].k \in {"close", "cleanup", "drop"} /\ asked[j].t = t
      BY <1>1, <1>2, <1>4
    <2>4. OnItsWayOut(t)' <=> OnItsWayOut(t)
      BY <1>3, <2>2, <2>3 DEF OnItsWayOut
    <2>5. CASE owner'[t] = owner[t]
      BY <1>3, <2>1, <2>4, <2>5, SameCustody
    <2>6. CASE owner'[t] # owner[t]
      <3>1. v.k = "cleanup" /\ t = v.t
        BY <1>3, <2>6 DEF Unregistered
      <3> QED BY <1>3, <2>1, <2>2, <2>4, <3>1, WaysIn, WaysInNext DEF CustodyStays, Custody
    <2> QED BY <2>5, <2>6
  <1> QED BY <1>5, AllStay

LEMMA CustodyDaemonAnswers ==
  ASSUME OwnershipType, GrantsUnique, GrantsFresh, DaemonAnswers
  PROVE  CustodyMoves
  <1>0. asked \in Seq(Request) /\ answers \in Seq(Reply) /\ opened \in Nat
    BY DEF OwnershipType, WireType
  <1>1. PICK d \in Request : d = Head(asked) /\ d = asked[1] /\ 1 \in DOMAIN asked
    BY <1>0, Tails DEF DaemonAnswers
  <1>2. /\ asked' = Tail(asked) /\ UNCHANGED <<owner, orphans, rereading>> /\ asked # <<>>
    BY DEF DaemonAnswers, ownVars
  <1>3. /\ \A i \in DOMAIN asked' : i + 1 \in DOMAIN asked /\ asked'[i] = asked[i + 1] /\ i + 1 # 1
        /\ \A i \in DOMAIN asked : i # 1 => i - 1 \in DOMAIN asked' /\ asked'[i - 1] = asked[i]
    BY <1>0, <1>2, Tails
  <1>4. PICK a : /\ answers' = Append(answers, a) /\ a.k = d.k
                 /\ \/ /\ a.k \in Opening /\ a.t = opened + 1 /\ opened + 1 \in Token
                       /\ alive' = alive \cup {opened + 1}
                    \/ a.k \in Opening /\ a.t = Nothing /\ alive' = alive
                    \/ a.k \notin Opening /\ alive' = alive \ {d.t}
    BY <1>1 DEF DaemonAnswers, Opening
  <1>5. /\ \A i \in DOMAIN answers : i \in DOMAIN answers' /\ answers'[i] = answers[i]
        /\ Len(answers) + 1 \in DOMAIN answers' /\ answers'[Len(answers) + 1] = a
        /\ \A i \in DOMAIN answers' : i \in DOMAIN answers \/ i = Len(answers) + 1
    BY <1>0, <1>4
  <1>6. \A t \in Token : Granted(t)' <=> Granted(t) \/ (a.k \in Opening /\ a.t = t)
    BY <1>2, <1>5 DEF Granted, GrantedAt, Rereading
  <1>7. ASSUME NEW t \in Token, ~(d.k \in Closing /\ d.t = t)
        PROVE  OnItsWayOut(t)' <=> OnItsWayOut(t)
    <2>1. (\E j \in DOMAIN asked' : asked'[j].k \in {"close", "cleanup", "drop"} /\ asked'[j].t = t)
            <=> \E j \in DOMAIN asked : asked[j].k \in {"close", "cleanup", "drop"} /\ asked[j].t = t
      BY <1>1, <1>3, <1>7 DEF Closing
    <2> QED BY <1>2, <2>1 DEF OnItsWayOut
  <1>8. CASE d.k \in Opening
    <2>1. ASSUME NEW t \in Token, ~(a.t = t)
          PROVE  CustodyStays(t)
      <3>1. OnItsWayOut(t)' <=> OnItsWayOut(t)
        BY <1>7, <1>8 DEF Opening, Closing
      <3>2. (Granted(t)' <=> Granted(t)) /\ (t \in alive' <=> t \in alive)
        BY <1>4, <1>6, <1>8, <2>1
      <3> QED BY <1>2, <3>1, <3>2, SameCustody
    <2>2. CASE a.t = opened + 1 /\ opened + 1 \in Token /\ alive' = alive \cup {opened + 1}
      <3>1. opened + 1 \notin alive
        BY <1>0 DEF OwnershipType, WireType, Known
      <3>2. PICK u \in Token : u = opened + 1
        BY <2>2
      <3>3. Custody(u) = "none" /\ Granted(u)' /\ u \in alive'
        BY <1>4, <1>6, <1>8, <2>2, <3>1, <3>2 DEF Custody
      <3>4. Custody(u)' = "granted"
        BY <3>3, WaysInNext DEF Custody
      <3>5. OnlyGrants
        BY <2>1, <2>2, <3>2, <3>3, <3>4 DEF OnlyGrants
      <3> QED BY <3>5 DEF CustodyMoves
    <2>3. CASE a.t = Nothing
      BY <2>1, <2>3, AllStay DEF Nothing, Token
    <2> QED BY <1>4, <1>8, <2>2, <2>3
  <1>9. CASE d.k \notin Opening
    <2>1. ASSUME NEW t \in Token, t # d.t
          PROVE  CustodyStays(t)
      <3>1. OnItsWayOut(t)' <=> OnItsWayOut(t)
        BY <1>7, <2>1
      <3>2. (Granted(t)' <=> Granted(t)) /\ (t \in alive' <=> t \in alive)
        BY <1>4, <1>6, <1>9, <2>1
      <3> QED BY <1>2, <3>1, <3>2, SameCustody
    <2>2. d.t \notin alive'
      BY <1>4, <1>9
    <2>3. OnlyEnds
      BY <2>1, <2>2 DEF OnlyEnds, Custody
    <2> QED BY <2>3 DEF CustodyMoves
  <1> QED BY <1>8, <1>9

LEMMA CustodyStep ==
  ASSUME OwnershipType, GrantsUnique, GrantsFresh, Ended, NoneAbandoned, [Next]_vars
  PROVE  CustodyMoves
  <1>1. CASE WireStays \/ PortReconnects
    <2>1. UNCHANGED <<owner, orphans, rereading, asked, answers, alive>>
      BY <1>1 DEF WireStays, PortReconnects, ownVars
    <2>2. ASSUME NEW t \in Token
          PROVE  CustodyStays(t)
      BY <2>1, SameCustody DEF Granted, GrantedAt, Rereading, OnItsWayOut
    <2> QED BY <2>2, AllStay
  <1>2. CASE PortLost \/ DeviceGone
    <2>1. alive' = {}
      BY <1>2 DEF PortLost, DeviceGone
    <2> QED BY <2>1 DEF CustodyMoves, OnlyEnds, Custody
  <1> QED BY <1>1, <1>2, CustodyAsks, CustodyCleans, CustodyRegisters, CustodyDeliver, CustodyTimesOut,
             CustodyDaemonAnswers, WireCases

LEMMA CustodyInvariant ==
  Spec => []CustodyInv
  <1>1. Init => CustodyInv
    <2> SUFFICES ASSUME Init
                 PROVE  Ended /\ NoneAbandoned
      BY OwnershipInit DEF CustodyInv
    <2>1. DOMAIN answers = {} /\ alive = {}
      BY EmptySeq DEF Init
    <2> QED BY <2>1 DEF Ended, NoneAbandoned, Custody
  <1>2. CustodyInv /\ [Next]_vars => CustodyInv'
    <2> SUFFICES ASSUME CustodyInv, [Next]_vars
                 PROVE  CustodyInv'
      OBVIOUS
    <2>1. OwnershipInv /\ Ended /\ NoneAbandoned /\ OwnershipType /\ GrantsUnique /\ GrantsFresh
      BY DEF CustodyInv, OwnershipInv
    <2>2. OwnershipInv' /\ Ended'
      BY <2>1, OwnershipStep, EndedStep
    <2>3. CustodyMoves
      BY <2>1, CustodyStep
    <2>4. NoneAbandoned'
      BY <2>1, <2>3 DEF NoneAbandoned, CustodyMoves, OnlyEnds, OnlyReleases, OnlyGrants, OnlyHands, CustodyStays
    <2> QED BY <2>2, <2>4 DEF CustodyInv
  <1> QED BY <1>1, <1>2, PTL DEF Spec

\* The background implements SessionCustody, whatever documents, tabs, grants,
\* revocations, deadlines and ports do: no session of the daemon is abandoned.
THEOREM SessionsNeverAbandoned ==
  Spec => SessionsInCustody
  <1> DEFINE custody == [t \in Token |-> Custody(t)]
  <1>1. Init => Sessions!Init
    BY DEF Init, Sessions!Init, Custody
  <1>2. CustodyInv /\ [Next]_vars => [Sessions!Next]_custody
    <2> SUFFICES ASSUME CustodyInv, [Next]_vars
                 PROVE  Sessions!Next \/ custody' = custody
      OBVIOUS
    <2>1. CustodyMoves
      BY CustodyStep DEF CustodyInv, OwnershipInv
    <2>2. CASE OnlyEnds
      <3> DEFINE gone == {t \in Token : custody[t] # "none" /\ custody'[t] = "none"}
      <3>1. gone \in SUBSET {t \in Token : custody[t] # "none"}
        OBVIOUS
      <3>2. custody' = [t \in Token |-> IF t \in gone THEN "none" ELSE custody[t]]
        BY <2>2 DEF OnlyEnds, CustodyStays
      <3>3. Sessions!Ends
        BY <3>1, <3>2 DEF Sessions!Ends
      <3> QED BY <3>3 DEF Sessions!Next
    <2>3. CASE OnlyReleases
      <3> DEFINE ts == {t \in Token : custody'[t] # custody[t]}
      <3>1. ts \in SUBSET Token
        OBVIOUS
      <3>2. Sessions!Release(ts)
        BY <2>3 DEF Sessions!Release, Sessions!Move, OnlyReleases, CustodyStays
      <3> QED BY <3>1, <3>2 DEF Sessions!Next
    <2>4. CASE OnlyGrants
      <3>1. PICK u \in Token : Sessions!Grant(u)
        BY <2>4 DEF Sessions!Grant, Sessions!Move, OnlyGrants, CustodyStays
      <3> QED BY <3>1 DEF Sessions!Next
    <2>5. CASE OnlyHands
      <3>1. PICK u \in Token : Sessions!Hand(u)
        BY <2>5 DEF Sessions!Hand, Sessions!Move, OnlyHands, CustodyStays
      <3> QED BY <3>1 DEF Sessions!Next
    <2> QED BY <2>1, <2>2, <2>3, <2>4, <2>5 DEF CustodyMoves
  <1> QED BY <1>1, <1>2, CustodyInvariant, PTL DEF Spec, SessionsInCustody, Sessions!Spec
===============================================================================
