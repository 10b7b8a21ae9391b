---------------------------- MODULE PickersProofs ----------------------------
(***************************************************************************)
(* Proofs about the pickers: the doorhanger controller serves its queue    *)
(* (NativePicker), pendingPicker holds live requests only, and a page is   *)
(* answered by the picker its own request opened (PickerRequests).         *)
(*                                                                         *)
(* What a list is without some of its elements is proved by induction on   *)
(* its length.  The induction rests on the least element of a set of       *)
(* natural numbers (LeastNat): a theorem of the library that takes no      *)
(* operator as a parameter, where the library's induction rules do.        *)
(***************************************************************************)
EXTENDS MCPickers, SequenceTheorems, WellFoundedInduction, TLAPS

(***************************************************************************)
(* The list without some elements                                          *)
(***************************************************************************)
Below == OpToRel(LAMBDA x, y : x < y, Nat)

LEMMA BelowIsLess ==
  ASSUME NEW x \in Nat, NEW y \in Nat, x < y
  PROVE  <<x, y>> \in Below
<1>1. Below = {p \in Nat \X Nat : p[1] < p[2]}
  BY Zenon DEF Below, OpToRel
<1> QED
  BY <1>1

\* A set of natural numbers that is not empty has a least element.
LEMMA LeastNat ==
  ASSUME NEW S, S \subseteq Nat, S # {}
  PROVE  \E x \in S : \A y \in S : x <= y
<1>1. IsWellFoundedOn(Below, Nat)
  BY NatLessThanWellFounded DEF Below
<1>2. \E x \in S : \A y \in S : <<y, x>> \notin Below
  BY <1>1, WFMin
<1>3. \A x, y \in Nat : <<y, x>> \notin Below => x <= y
  BY BelowIsLess
<1> QED
  BY <1>2, <1>3

\* What the function of Without holds after one more element.
Sift(s, gone, g, i) ==
  IF i = 0 THEN <<>> ELSE IF s[i] \in gone THEN g[i - 1] ELSE Append(g[i - 1], s[i])

\* The first n elements of s have been looked at, with the results g.
Sifted(s, gone, n, U, g) ==
  /\ g \in [0..n -> Seq(U)]
  /\ \A i \in 0..n : g[i] = Sift(s, gone, g, i)

\* There is a function that goes through the list as Without does.
LEMMA SiftedExists ==
  ASSUME NEW U, NEW s \in Seq(U), NEW gone
  PROVE  \E g : Sifted(s, gone, Len(s), U, g)
<1> DEFINE Bad == {n \in Nat : n <= Len(s) /\ ~\E g : Sifted(s, gone, n, U, g)}
<1>1. SUFFICES ASSUME Bad # {} PROVE FALSE
  <2>1. Len(s) \in Nat /\ Len(s) <= Len(s)
    BY LenProperties
  <2> QED
    BY <1>1, <2>1, Zenon
<1>2. PICK n \in Bad : \A m \in Bad : n <= m
  <2>1. Bad \subseteq Nat
    OBVIOUS
  <2> HIDE DEF Bad
  <2> QED
    BY <1>1, <2>1, LeastNat, Zenon
<1>3. n # 0
  <2>1. <<>> \in Seq(U)
    OBVIOUS
  <2>2. Sifted(s, gone, 0, U, [i \in 0..0 |-> <<>>])
    BY <2>1 DEF Sifted, Sift
  <2> QED
    BY <2>2
<1>4. PICK g : Sifted(s, gone, n - 1, U, g)
  <2>1. n - 1 \in Nat /\ n - 1 <= Len(s) /\ ~(n <= n - 1)
    BY <1>2, <1>3, LenProperties
  <2>2. n - 1 \notin Bad
    BY <1>2, <2>1
  <2> QED
    BY <2>1, <2>2
<1>5. n \in 1..Len(s) /\ s[n] \in U
  BY <1>2, <1>3, LenProperties, ElementOfSeq
<1> DEFINE last == IF s[n] \in gone THEN g[n - 1] ELSE Append(g[n - 1], s[n])
           h == [i \in 0..n |-> IF i = n THEN last ELSE g[i]]
<1>6. last \in Seq(U)
  <2>1. g[n - 1] \in Seq(U)
    BY <1>4, <1>5 DEF Sifted
  <2> QED
    BY <1>5, <2>1
<1>7. h \in [0..n -> Seq(U)]
  <2> HIDE DEF last
  <2> QED
    BY <1>4, <1>5, <1>6 DEF Sifted
<1>8. ASSUME NEW i \in 0..n
      PROVE  h[i] = Sift(s, gone, h, i)
  <2>1. CASE i = n
    <3>1. h[i] = last
      BY <2>1
    <3>2. h[i - 1] = g[n - 1]
      BY <1>5, <2>1
    <3> HIDE DEF h
    <3> QED
      BY <1>5, <2>1, <3>1, <3>2 DEF Sift
  <2>2. CASE i # n
    <3>1. i \in 0..(n - 1)
      BY <1>5, <2>2
    <3>2. h[i] = g[i]
      BY <2>2
    <3>3. i # 0 => h[i - 1] = g[i - 1]
      BY <1>5, <3>1
    <3>4. g[i] = Sift(s, gone, g, i)
      BY <1>4, <3>1, Zenon DEF Sifted
    <3> HIDE DEF h
    <3> QED
      BY <3>2, <3>3, <3>4, Zenon DEF Sift
  <2> QED
    BY <2>1, <2>2
<1>9. Sifted(s, gone, n, U, h)
  <2> HIDE DEF h
  <2> QED
    BY <1>7, <1>8, Zenon DEF Sifted
<1> QED
  BY <1>9, <1>2

\* Without is the last result of such a function.
LEMMA WithoutSifts ==
  ASSUME NEW U, NEW s \in Seq(U), NEW gone
  PROVE  \E g : Sifted(s, gone, Len(s), U, g) /\ Without(s, gone) = g[Len(s)]
<1> DEFINE Walk(k) == [i \in 0..Len(s) |->
             IF i = 0 THEN <<>> ELSE IF s[i] \in gone THEN k[i - 1] ELSE Append(k[i - 1], s[i])]
           f == CHOOSE k : k = Walk(k)
<1>1. PICK g : Sifted(s, gone, Len(s), U, g)
  BY SiftedExists
<1>2. g = Walk(g)
  <2>1. \A i \in 0..Len(s) : g[i] = Walk(g)[i]
    BY <1>1 DEF Sifted, Sift
  <2>2. g \in [0..Len(s) -> Seq(U)]
    BY <1>1 DEF Sifted
  <2> QED
    BY <2>1, <2>2
<1>3. f = Walk(f)
  BY <1>2, Zenon
<1>4. Without(s, gone) = f[Len(s)]
  BY Zenon DEF Without
<1>5. \A i \in 0..Len(s) : f[i] = Sift(s, gone, f, i) /\ g[i] = Sift(s, gone, g, i)
  <2>1. \A i \in 0..Len(s) : f[i] = Walk(f)[i]
    BY <1>3, Zenon
  <2> HIDE DEF f
  <2>2. \A i \in 0..Len(s) : f[i] = Sift(s, gone, f, i)
    BY <2>1 DEF Sift
  <2> QED
    BY <1>1, <2>2, Zenon DEF Sifted
<1> HIDE DEF f
<1>6. \A i \in 0..Len(s) : f[i] = g[i]
  <2> DEFINE Bad == {i \in 0..Len(s) : f[i] # g[i]}
  <2>1. SUFFICES ASSUME Bad # {} PROVE FALSE
    BY <2>1, Zenon
  <2>2. Bad \subseteq Nat
    BY LenProperties
  <2>3. PICK n \in Bad : \A m \in Bad : n <= m
    <3> HIDE DEF Bad
    <3> QED
      BY <2>1, <2>2, LeastNat, Zenon
  <2>4. n \in 0..Len(s) /\ f[n] # g[n] /\ Len(s) \in Nat
    BY <2>3, LenProperties
  <2>5. f[n] = Sift(s, gone, f, n) /\ g[n] = Sift(s, gone, g, n)
    BY <1>5, <2>4, Zenon
  <2>6. n # 0
    BY <2>4, <2>5, Zenon DEF Sift
  <2>7. f[n - 1] = g[n - 1]
    <3>1. n - 1 \in 0..Len(s) /\ ~(n <= n - 1)
      BY <2>4, <2>6
    <3> QED
      BY <2>3, <3>1
  <2> QED
    BY <2>4, <2>5, <2>6, <2>7, Zenon DEF Sift
<1>7. Without(s, gone) = g[Len(s)]
  BY <1>4, <1>6, LenProperties
<1> QED
  BY <1>1, <1>7, Zenon

\* What is left is the elements that are not taken out, in their order, each
\* at a place of its own.
Leaves(s, gone, n, w, at) ==
  /\ at \in [DOMAIN w -> 1..n]
  /\ \A i, j \in DOMAIN w : i < j => at[i] < at[j]
  /\ \A i \in DOMAIN w : w[i] = s[at[i]] /\ w[i] \notin gone
  /\ \A j \in 1..n : s[j] \notin gone => \E i \in DOMAIN w : at[i] = j

LEMMA WithoutLeaves ==
  ASSUME NEW U, NEW s \in Seq(U), NEW gone
  PROVE  /\ Without(s, gone) \in Seq(U)
         /\ \E at : Leaves(s, gone, Len(s), Without(s, gone), at)
<1>1. PICK g : Sifted(s, gone, Len(s), U, g) /\ Without(s, gone) = g[Len(s)]
  BY WithoutSifts
<1>2. Len(s) \in Nat /\ DOMAIN s = 1..Len(s)
  BY LenProperties
<1>3. Without(s, gone) \in Seq(U)
  BY <1>1, <1>2 DEF Sifted
<1> DEFINE Bad == {n \in 0..Len(s) : ~\E at : Leaves(s, gone, n, g[n], at)}
<1>4. SUFFICES ASSUME Bad # {} PROVE FALSE
  <2>1. Len(s) \in 0..Len(s)
    BY <1>2
  <2> QED
    BY <1>1, <1>3, <1>4, <2>1, Zenon
<1>5. PICK n \in Bad : \A m \in Bad : n <= m
  <2>1. Bad \subseteq Nat
    BY <1>2
  <2> HIDE DEF Bad
  <2> QED
    BY <1>4, <2>1, LeastNat, Zenon
<1>6. n \in 0..Len(s) /\ g[n] = Sift(s, gone, g, n) /\ g[n] \in Seq(U)
  BY <1>1, <1>5 DEF Sifted
<1>7. CASE n = 0
  <2>1. g[n] = <<>>
    BY <1>6, <1>7, Zenon DEF Sift
  <2>2. DOMAIN g[n] = {} /\ 1..n = {}
    BY <1>7, <2>1
  <2>3. Leaves(s, gone, n, g[n], [i \in {} |-> 1])
    BY <2>2 DEF Leaves
  <2> QED
    BY <1>5, <2>3, Zenon
<1>8. CASE n # 0
  <2>1. n \in 1..Len(s) /\ n - 1 \in 0..Len(s) /\ ~(n <= n - 1) /\ s[n] \in U
    BY <1>2, <1>6, <1>8, ElementOfSeq
  <2>2. PICK v : v = g[n - 1]
    OBVIOUS
  <2>3. v \in Seq(U)
    BY <1>1, <2>1, <2>2 DEF Sifted
  <2>4. PICK at : Leaves(s, gone, n - 1, v, at)
    <3>1. n - 1 \notin Bad
      BY <1>5, <2>1
    <3> QED
      BY <2>1, <2>2, <3>1, Zenon
  <2>5. CASE s[n] \in gone
    <3>1. g[n] = v
      BY <1>6, <1>8, <2>2, <2>5, Zenon DEF Sift
    <3>2. Leaves(s, gone, n, v, at)
      BY <2>1, <2>4, <2>5 DEF Leaves
    <3> QED
      BY <1>5, <3>1, <3>2, Zenon
  <2>6. CASE s[n] \notin gone
    <3>1. PICK w : w = Append(v, s[n]) /\ g[n] = w
      BY <1>6, <1>8, <2>2, <2>6, Zenon DEF Sift
    <3>2. PICK k \in Nat : k = Len(v) /\ DOMAIN v = 1..k
      BY <2>3, LenProperties
    <3>3. /\ DOMAIN w = 1..(k + 1) /\ w[k + 1] = s[n]
          /\ \A i \in 1..k : w[i] = v[i]
      BY <2>1, <2>3, <3>1, <3>2, AppendProperties
    <3>4. PICK to : to = [i \in 1..(k + 1) |-> IF i = k + 1 THEN n ELSE at[i]]
      OBVIOUS
    <3>5. to[k + 1] = n /\ \A i \in 1..k : to[i] = at[i] /\ at[i] \in 1..(n - 1)
      BY <2>4, <3>2, <3>4 DEF Leaves
    <3>6. to \in [1..(k + 1) -> 1..n]
      <4>1. ASSUME NEW i \in 1..(k + 1)
            PROVE  to[i] \in 1..n
        <5>1. CASE i = k + 1
          BY <2>1, <3>5, <5>1
        <5>2. CASE i # k + 1
          <6>1. i \in 1..k /\ to[i] \in 1..(n - 1)
            BY <3>2, <3>5, <5>2
          <6> QED
            BY <2>1, <6>1
        <5> QED
          BY <5>1, <5>2
      <4> QED
        BY <3>4, <4>1, Zenon
    <3>7. \A i, j \in 1..(k + 1) : i < j => to[i] < to[j]
      <4> TAKE i, j \in 1..(k + 1)
      <4> HAVE i < j
      <4>1. i \in 1..k /\ to[i] = at[i]
        BY <3>2, <3>5
      <4>2. CASE j = k + 1
        BY <2>1, <3>5, <4>1, <4>2
      <4>3. CASE j # k + 1
        <5>1. j \in 1..k
          BY <3>2, <4>3
        <5>2. at[i] < at[j]
          BY <2>4, <3>2, <4>1, <5>1 DEF Leaves
        <5> QED
          BY <3>5, <4>1, <5>1, <5>2
      <4> QED
        BY <4>2, <4>3
    <3>8. \A i \in 1..(k + 1) : w[i] = s[to[i]] /\ w[i] \notin gone
      <4> TAKE i \in 1..(k + 1)
      <4>1. CASE i = k + 1
        BY <2>6, <3>3, <3>5, <4>1
      <4>2. CASE i \in 1..k
        <5>1. v[i] = s[at[i]] /\ v[i] \notin gone
          BY <2>4, <3>2, <4>2 DEF Leaves
        <5> QED
          BY <3>3, <3>5, <4>2, <5>1
      <4> QED
        BY <3>2, <4>1, <4>2
    <3>9. \A j \in 1..n : s[j] \notin gone => \E i \in 1..(k + 1) : to[i] = j
      <4> TAKE j \in 1..n
      <4> HAVE s[j] \notin gone
      <4>1. CASE j = n
        BY <3>2, <3>5, <4>1
      <4>2. CASE j # n
        <5>1. j \in 1..(n - 1)
          BY <2>1, <4>2
        <5>2. PICK i \in 1..k : at[i] = j
          BY <2>4, <3>2, <5>1 DEF Leaves
        <5> QED
          BY <3>2, <3>5, <5>2
      <4> QED
        BY <4>1, <4>2
    <3>10. Leaves(s, gone, n, w, to)
      BY <3>3, <3>6, <3>7, <3>8, <3>9 DEF Leaves
    <3> QED
      BY <1>5, <3>1, <3>10, Zenon
  <2> QED
    BY <2>5, <2>6
<1> QED
  BY <1>7, <1>8

\* The same, as the proofs below need it: who is in what is left.
Cut(w, s, gone, U) ==
  /\ w \in Seq(U)
  /\ \A i \in DOMAIN w : w[i] \in U /\ w[i] \notin gone /\ \E j \in DOMAIN s : w[i] = s[j]
  /\ \A j \in DOMAIN s : s[j] \notin gone => \E i \in DOMAIN w : w[i] = s[j]
  /\ s = <<>> => w = <<>>

LEMMA WithoutFacts ==
  ASSUME NEW U, NEW s \in Seq(U), NEW gone, NEW w, w = Without(s, gone)
  PROVE  Cut(w, s, gone, U)
<1>1. PICK at : w \in Seq(U) /\ Leaves(s, gone, Len(s), w, at)
  BY WithoutLeaves
<1>2. DOMAIN s = 1..Len(s) /\ DOMAIN w = 1..Len(w) /\ Len(w) \in Nat /\ Len(s) \in Nat
  BY <1>1, LenProperties
<1>3. \A i \in DOMAIN w : w[i] \in U /\ w[i] \notin gone /\ at[i] \in DOMAIN s /\ w[i] = s[at[i]]
  BY <1>1, <1>2, ElementOfSeq DEF Leaves
<1>4. \A j \in DOMAIN s : s[j] \notin gone => \E i \in DOMAIN w : w[i] = s[j]
  BY <1>1, <1>2 DEF Leaves
<1>5. s = <<>> => w = <<>>
  <2>1. w # <<>> => 1 \in DOMAIN w
    BY <1>1, <1>2, EmptySeq
  <2>2. s = <<>> => DOMAIN s = {}
    OBVIOUS
  <2> QED
    BY <1>3, <2>1, <2>2
<1> QED
  BY <1>1, <1>3, <1>4, <1>5 DEF Cut

\* No two of a list share a feature F when no two did before.
LEMMA WithoutOnce ==
  ASSUME NEW U, NEW s \in Seq(U), NEW gone, NEW w, w = Without(s, gone), NEW F,
         \A i, j \in DOMAIN s : F[s[i]] = F[s[j]] => i = j
  PROVE  \A i, j \in DOMAIN w : F[w[i]] = F[w[j]] => i = j
<1>1. PICK at : w \in Seq(U) /\ Leaves(s, gone, Len(s), w, at)
  BY WithoutLeaves
<1>2. DOMAIN s = 1..Len(s) /\ DOMAIN w = 1..Len(w) /\ Len(w) \in Nat /\ Len(s) \in Nat
  BY <1>1, LenProperties
<1>3. \A i \in DOMAIN w : at[i] \in DOMAIN s /\ w[i] = s[at[i]]
  BY <1>1, <1>2 DEF Leaves
<1>4. SUFFICES ASSUME NEW i \in DOMAIN w, NEW j \in DOMAIN w, F[w[i]] = F[w[j]]
               PROVE  i = j
  OBVIOUS
<1>5. at[i] = at[j]
  BY <1>3, <1>4
<1>6. at[i] \in Nat /\ at[j] \in Nat
  BY <1>2, <1>3
<1>7. ~(i < j) /\ ~(j < i)
  BY <1>1, <1>5, <1>6 DEF Leaves
<1> QED
  BY <1>2, <1>7

(***************************************************************************)
(* The doorhanger controller                                               *)
(***************************************************************************)
\* The controller knows the entry as the one its key stands for.
Open(n) == requests[key[n]] = n

\* What holds beside Served: a key stands for an entry of its own, the one its
\* helper waits for; entries not made yet have no result; who waits for his turn
\* or has it is open; after the window has closed nobody waits; nobody's anchor
\* is looked for while his notification is shown.
DoorInv ==
  /\ N!TypeOK
  /\ Len(key) <= MaxEntry
  /\ \A n \in N!Entry : n \notin N!Made => result[n] = "none"
  /\ \A k \in Key : requests[k] # N!None => helper[k] = requests[k] /\ key[requests[k]] = k
  /\ N!OpenRequestIsKnown
  /\ \A i \in DOMAIN queue : Open(queue[i])
  /\ active # N!None => Open(active)
  /\ destroyed => queue = <<>>
  /\ anchoring \cap shown = {}
  /\ N!OneDoorhanger /\ N!QueueIsServed

LEMMA DoorInit == N!Init => DoorInv
<1> SUFFICES ASSUME N!Init PROVE DoorInv
  OBVIOUS
<1>1. N!Made = {} /\ Len(key) = 0
  BY EmptySeq DEF N!Init, N!Made
<1>2. queue = <<>> /\ DOMAIN queue = {}
  BY DEF N!Init
<1>3. N!TypeOK
  BY <1>1, EmptySeq DEF N!Init, N!TypeOK, N!None, N!Made
<1> QED
  BY <1>1, <1>2, <1>3, EntryAssumption DEF DoorInv, N!Init, N!None, N!OpenRequestIsKnown, N!OneDoorhanger,
     N!QueueIsServed

\* pump takes at most the head, and only when nobody is active.
LEMMA PumpTakes ==
  ASSUME NEW E, NEW q \in Seq(E), NEW act, N!PumpFrom(q, act), 0 \notin E
  PROVE  /\ queue' \in Seq(E)
         /\ \A i \in DOMAIN queue' : \E j \in DOMAIN q : queue'[i] = q[j]
         /\ active' = act \/ (act = 0 /\ \E j \in DOMAIN q : active' = q[j])
         /\ act # 0 => active' = act /\ anchoring' = anchoring
         /\ queue' # <<>> => active' # 0
         /\ q = <<>> => queue' = <<>>
         /\ anchoring' \subseteq anchoring \cup ({active'} \ {0})
<1>1. CASE act # 0 \/ q = <<>>
  BY <1>1 DEF N!PumpFrom, N!None
<1>2. CASE act = 0 /\ q # <<>>
  <2>1. queue' = Tail(q) /\ active' = Head(q) /\ anchoring' = anchoring \cup {Head(q)}
    BY <1>2 DEF N!PumpFrom, N!None
  <2>2. Head(q) \in E /\ Head(q) = q[1] /\ 1 \in DOMAIN q
    BY <1>2, HeadTailProperties, EmptySeq, LenProperties
  <2>3. queue' \in Seq(E) /\ \A i \in DOMAIN queue' : i + 1 \in DOMAIN q /\ queue'[i] = q[i + 1]
    BY <1>2, <2>1, HeadTailProperties, LenProperties
  <2> QED
    BY <1>2, <2>1, <2>2, <2>3
<1> QED
  BY <1>1, <1>2

\* NativePicker's own copy of the operator is the same.
LEMMA SameWithout ==
  ASSUME NEW s, NEW gone
  PROVE  N!Without(s, gone) = Without(s, gone)
BY Zenon DEF N!Without, Without

\* settle ends one open request and nobody else's.
LEMMA SettleEnds ==
  ASSUME DoorInv, NEW n \in N!Made, Open(n), NEW how \in {"selected", "cancelled", "error"},
         N!Settle(n, how)
  PROVE  /\ requests' \in [Key -> N!Made \cup {0}]
         /\ \A k \in Key : requests'[k] # 0 => requests'[k] = requests[k]
         /\ \A m \in N!Made : requests'[key[m]] = m <=> (m # n /\ Open(m))
         /\ queue' \in Seq(N!Made)
         /\ \A i \in DOMAIN queue' : queue'[i] # n /\ \E j \in DOMAIN queue : queue'[i] = queue[j]
         /\ queue = <<>> => queue' = <<>>
         /\ active' = IF active = n THEN 0 ELSE active
         /\ result' \in [N!Entry -> {"none", "selected", "cancelled", "error"}]
         /\ \A m \in N!Entry : result'[m] = IF m = n THEN how ELSE result[m]
         /\ pumping' = TRUE
<1>1. /\ requests' = [requests EXCEPT ![key[n]] = 0] /\ queue' = Without(queue, {n})
      /\ active' = (IF active = n THEN 0 ELSE active)
      /\ result' = [result EXCEPT ![n] = how] /\ pumping' = TRUE
  BY SameWithout DEF N!Settle, N!WakePump, N!None
<1>2. /\ key \in Seq(Key) /\ requests \in [Key -> N!Made \cup {0}] /\ queue \in Seq(N!Made)
      /\ result \in [N!Entry -> {"none", "selected", "cancelled", "error"}]
  BY Zenon DEF DoorInv, N!TypeOK, N!None
<1>3. /\ N!Made = 1..Len(key) /\ Len(key) \in Nat /\ Len(key) <= MaxEntry /\ N!Entry = 1..MaxEntry
      /\ \A m \in N!Made : key[m] \in Key /\ m \in N!Entry /\ m # 0
  BY <1>2, LenProperties, ElementOfSeq, EntryAssumption DEF DoorInv, N!Made, N!Entry
<1>4. \A m \in N!Made : requests'[key[m]] = m <=> (m # n /\ Open(m))
  BY <1>1, <1>2, <1>3 DEF Open
<1>5. requests' \in [Key -> N!Made \cup {0}] /\ \A k \in Key : requests'[k] # 0 => requests'[k] = requests[k]
  BY <1>1, <1>2
<1>6. /\ queue' \in Seq(N!Made) /\ (queue = <<>> => queue' = <<>>)
      /\ \A i \in DOMAIN queue' : queue'[i] # n /\ \E j \in DOMAIN queue : queue'[i] = queue[j]
  <2>1. Cut(queue', queue, {n}, N!Made)
    BY <1>1, <1>2, WithoutFacts
  <2> QED
    BY <2>1 DEF Cut
<1>7. /\ result' \in [N!Entry -> {"none", "selected", "cancelled", "error"}]
      /\ \A m \in N!Entry : result'[m] = IF m = n THEN how ELSE result[m]
  BY <1>1, <1>2
<1> QED
  BY <1>1, <1>4, <1>5, <1>6, <1>7

\* The types of the controller's state, by name.
LEMMA DoorTypes ==
  ASSUME DoorInv
  PROVE  /\ key \in Seq(Key) /\ Len(key) \in Nat /\ N!Made = 1..Len(key) /\ N!Entry = 1..MaxEntry
         /\ \A n \in N!Made : key[n] \in Key /\ n \in N!Entry /\ n # 0
         /\ helper \in [Key -> N!Made \cup {0}] /\ requests \in [Key -> N!Made \cup {0}]
         /\ asked \subseteq N!Made /\ stale \subseteq N!Made
         /\ queue \in Seq(N!Made) /\ active \in N!Made \cup {0}
         /\ anchoring \subseteq N!Made /\ shown \subseteq N!Made
         /\ list \in [N!Entry -> {"loading", "groups", "error"}]
         /\ result \in [N!Entry -> {"none", "selected", "cancelled", "error"}]
         /\ pumping \in BOOLEAN /\ destroyed \in BOOLEAN
         /\ \A i \in DOMAIN queue : queue[i] \in N!Made
<1>1. N!TypeOK /\ Len(key) <= MaxEntry
  BY Zenon DEF DoorInv
<1>2. key \in Seq(Key) /\ queue \in Seq(N!Made)
  BY <1>1, Zenon DEF N!TypeOK
<1>3. Len(key) \in Nat /\ N!Made = 1..Len(key) /\ N!Entry = 1..MaxEntry
  BY <1>2, LenProperties DEF N!Made, N!Entry
<1>4. \A n \in N!Made : key[n] \in Key /\ n \in N!Entry /\ n # 0
  BY <1>1, <1>2, <1>3, ElementOfSeq, EntryAssumption
<1>5. \A i \in DOMAIN queue : queue[i] \in N!Made
  BY <1>2, ElementOfSeq, LenProperties
<1> QED
  BY <1>1, <1>2, <1>3, <1>4, <1>5, Zenon DEF N!TypeOK, N!None

\* What a step that makes no entry must show.
LEMMA DoorKept ==
  ASSUME DoorInv, UNCHANGED key,
         helper' \in [Key -> N!Made \cup {0}], requests' \in [Key -> N!Made \cup {0}],
         asked' \subseteq N!Made, stale' \subseteq N!Made, anchoring' \subseteq N!Made,
         queue' \in Seq(N!Made), active' \in N!Made \cup {0},
         list' \in [N!Entry -> {"loading", "groups", "error"}],
         result' \in [N!Entry -> {"none", "selected", "cancelled", "error"}],
         pumping' \in BOOLEAN, destroyed' \in BOOLEAN,
         \A k \in Key : requests'[k] # 0 => requests'[k] = requests[k] /\ helper'[k] = helper[k],
         \A m \in N!Entry : m \notin N!Made => result'[m] = result[m],
         \A m \in N!Made : result'[m] = "none" <=> requests'[key[m]] = m,
         \A i \in DOMAIN queue' : requests'[key[queue'[i]]] = queue'[i],
         active' # 0 => requests'[key[active']] = active',
         destroyed' => queue' = <<>>,
         shown' \subseteq {active'} \ {0}, anchoring' \cap shown' = {},
         queue' # <<>> => active' # 0 \/ pumping'
  PROVE  DoorInv'
<1>1. N!Made' = N!Made /\ key' = key
  BY DEF N!Made
<1>2. N!TypeOK'
  <2>1. shown' \subseteq N!Made
    OBVIOUS
  <2>2. key' \in Seq(Key)
    BY <1>1, DoorTypes
  <2> QED
    BY <1>1, <2>1, <2>2, Zenon DEF N!TypeOK, N!None
<1>3. Len(key') <= MaxEntry /\ \A n \in N!Entry : n \notin N!Made' => result'[n] = "none"
  BY <1>1 DEF DoorInv
<1>4. \A k \in Key : requests'[k] # 0 => helper'[k] = requests'[k] /\ key'[requests'[k]] = k
  <2>1. \A k \in Key : requests[k] # 0 => helper[k] = requests[k] /\ key[requests[k]] = k
    BY DEF DoorInv, N!None
  <2> QED
    BY <1>1, <2>1, Zenon
<1>5. N!OpenRequestIsKnown'
  BY <1>1, Zenon DEF N!OpenRequestIsKnown
<1>6. (\A i \in DOMAIN queue : Open(queue[i]))' /\ (active' # 0 => Open(active)')
  BY <1>1 DEF Open
<1>7. N!OneDoorhanger' /\ N!QueueIsServed'
  BY Zenon DEF N!OneDoorhanger, N!QueueIsServed, N!None
<1> QED
  BY <1>1, <1>2, <1>3, <1>4, <1>5, <1>6, <1>7, Zenon DEF DoorInv, N!None, N!Entry

\* The invariant, by name.
LEMMA DoorFacts ==
  ASSUME DoorInv
  PROVE  /\ \A n \in N!Entry : n \notin N!Made => result[n] = "none"
         /\ \A k \in Key : requests[k] # 0 => helper[k] = requests[k] /\ key[requests[k]] = k
         /\ \A n \in N!Made : result[n] = "none" <=> requests[key[n]] = n
         /\ \A i \in DOMAIN queue : Open(queue[i])
         /\ active # 0 => Open(active)
         /\ destroyed => queue = <<>>
         /\ shown \subseteq {active} \ {0} /\ anchoring \cap shown = {}
         /\ queue # <<>> => active # 0 \/ pumping
BY Zenon DEF DoorInv, N!None, N!OpenRequestIsKnown, N!OneDoorhanger, N!QueueIsServed

\* A request is settled, with whatever else the step does to the anchors, the
\* notifications and the helper's generations.
LEMMA SettleKeeps ==
  ASSUME DoorInv, NEW n \in N!Made, Open(n), NEW how \in {"selected", "cancelled", "error"},
         N!Settle(n, how), UNCHANGED <<key, helper, asked, list, destroyed>>,
         stale' \subseteq N!Made, anchoring' \subseteq anchoring, shown' \subseteq shown \ {n}
  PROVE  DoorInv'
<1>1. /\ requests' \in [Key -> N!Made \cup {0}]
      /\ \A k \in Key : requests'[k] # 0 => requests'[k] = requests[k]
      /\ \A m \in N!Made : requests'[key[m]] = m <=> (m # n /\ Open(m))
      /\ queue' \in Seq(N!Made)
      /\ \A i \in DOMAIN queue' : queue'[i] # n /\ \E j \in DOMAIN queue : queue'[i] = queue[j]
      /\ queue = <<>> => queue' = <<>>
      /\ active' = IF active = n THEN 0 ELSE active
      /\ result' \in [N!Entry -> {"none", "selected", "cancelled", "error"}]
      /\ \A m \in N!Entry : result'[m] = IF m = n THEN how ELSE result[m]
      /\ pumping' = TRUE
  BY SettleEnds
<1>2. active' \in N!Made \cup {0} /\ active' # n /\ (active' # 0 => active' = active)
  <2>1. n # 0
    BY DoorTypes
  <2> QED
    BY <1>1, <2>1, DoorTypes
<1>3. \A m \in N!Entry : m \notin N!Made => result'[m] = result[m]
  BY <1>1
<1>4. \A m \in N!Made : result'[m] = "none" <=> requests'[key[m]] = m
  BY <1>1, DoorTypes, DoorFacts DEF Open
<1>5. \A i \in DOMAIN queue' : requests'[key[queue'[i]]] = queue'[i]
  BY <1>1, DoorTypes, DoorFacts
<1>6. active' # 0 => requests'[key[active']] = active'
  BY <1>1, <1>2, DoorTypes, DoorFacts
<1>7. shown' \subseteq {active'} \ {0} /\ anchoring' \cap shown' = {} /\ anchoring' \subseteq N!Made
  BY <1>1, DoorFacts, DoorTypes
<1>8. destroyed' => queue' = <<>>
  BY <1>1, DoorFacts
<1> QED
  BY <1>1, <1>2, <1>3, <1>4, <1>5, <1>6, <1>7, <1>8, DoorTypes, DoorKept

\* A list over fewer elements is one over more.
LEMMA WiderSeq ==
  ASSUME NEW A, NEW B, A \subseteq B, NEW s \in Seq(A)
  PROVE  s \in Seq(B)
BY SeqDef

LEMMA ShowKeeps ==
  ASSUME DoorInv, NEW k \in Key, N!Show(k)
  PROVE  DoorInv'
<1>1. PICK n : n = Len(key) + 1
  OBVIOUS
<1>2. /\ n \in N!Entry /\ ~destroyed /\ helper[k] = 0
      /\ key' = Append(key, k) /\ helper' = [helper EXCEPT ![k] = n]
      /\ asked' = asked \cup {n} /\ requests' = [requests EXCEPT ![k] = n]
      /\ N!PumpFrom(Append(queue, n), active)
      /\ UNCHANGED <<stale, shown, list, result, pumping, destroyed>>
  BY <1>1 DEF N!Show, N!None
<1>3. PICK M, W : M = N!Made /\ W = 1..n
  OBVIOUS
<1>4. /\ key' \in Seq(Key) /\ Len(key') = n /\ n \in Nat /\ n <= MaxEntry
      /\ n \notin M /\ W = M \cup {n} /\ N!Made' = W
      /\ key'[n] = k /\ \A m \in M : key'[m] = key[m]
  <2>1. key \in Seq(Key) /\ Len(key) \in Nat /\ M = 1..Len(key) /\ N!Entry = 1..MaxEntry
    BY <1>3, DoorTypes
  <2>2. key' \in Seq(Key) /\ Len(key') = n /\ key'[n] = k /\ \A m \in 1..Len(key) : key'[m] = key[m]
    BY <1>1, <1>2, <2>1, AppendProperties
  <2>3. N!Made' = 1..n
    BY <2>2, LenProperties DEF N!Made
  <2> QED
    BY <1>1, <1>2, <1>3, <2>1, <2>2, <2>3, EntryAssumption
<1>5. /\ queue \in Seq(M) /\ requests \in [Key -> M \cup {0}] /\ helper \in [Key -> M \cup {0}]
      /\ active \in M \cup {0} /\ anchoring \subseteq M /\ 0 \notin W
  <2>1. 0 \notin W
    BY <1>3
  <2> QED
    BY <1>3, <2>1, DoorTypes, Zenon
<1>6. requests[k] = 0
  BY <1>2, DoorFacts
<1>7. PICK q : q = Append(queue, n)
  OBVIOUS
<1>8. q \in Seq(W) /\ \A i \in DOMAIN q : q[i] = n \/ \E j \in DOMAIN queue : q[i] = queue[j]
  <2>1. queue \in Seq(W)
    BY <1>4, <1>5, WiderSeq
  <2>2. Len(queue) \in Nat /\ DOMAIN queue = 1..Len(queue)
    BY <2>1, LenProperties
  <2> QED
    BY <1>4, <1>7, <2>1, <2>2, AppendProperties
<1>9. /\ queue' \in Seq(W)
      /\ \A i \in DOMAIN queue' : \E j \in DOMAIN q : queue'[i] = q[j]
      /\ active' = active \/ (active = 0 /\ \E j \in DOMAIN q : active' = q[j])
      /\ active # 0 => active' = active /\ anchoring' = anchoring
      /\ queue' # <<>> => active' # 0
      /\ anchoring' \subseteq anchoring \cup ({active'} \ {0})
  <2>1. N!PumpFrom(q, active)
    BY <1>2, <1>7
  <2> HIDE <1>2
  <2> QED
    BY <1>5, <1>8, <2>1, PumpTakes
<1>10. /\ requests'[k] = n /\ \A m \in Key : m # k => requests'[m] = requests[m] /\ helper'[m] = helper[m]
       /\ helper'[k] = n
  BY <1>2, <1>5
\* open stays open, and n is open
<1>11. /\ requests'[key'[n]] = n
       /\ \A m \in M : requests'[key'[m]] = m <=> requests[key[m]] = m
  <2>1. \A m \in M : key[m] \in Key /\ m # 0
    BY <1>3, DoorTypes
  <2>2. \A m \in M : m # n
    BY <1>4
  <2> QED
    BY <1>4, <1>6, <1>10, <2>1, <2>2
<1>12. \A j \in DOMAIN q : requests'[key'[q[j]]] = q[j]
  <2>1. \A i \in DOMAIN queue : queue[i] \in M /\ requests[key[queue[i]]] = queue[i]
    BY <1>3, DoorTypes, DoorFacts DEF Open
  <2> QED
    BY <1>8, <1>11, <2>1
<1>13. active' \in W \cup {0} /\ (active' # 0 => requests'[key'[active']] = active')
  <2>1. active # 0 => requests[key[active]] = active
    BY DoorFacts DEF Open
  <2>2. CASE active' = active
    BY <1>4, <1>5, <1>11, <2>1, <2>2
  <2>3. CASE active' # active
    <3>1. PICK j \in DOMAIN q : active' = q[j]
      BY <1>9, <2>3
    <3>2. q[j] \in W
      BY <1>8, ElementOfSeq, LenProperties
    <3> QED
      BY <1>12, <3>1, <3>2
  <2> QED
    BY <2>2, <2>3
<1>14. N!TypeOK'
  <2>1. /\ helper' \in [Key -> W \cup {0}] /\ requests' \in [Key -> W \cup {0}]
        /\ asked' \subseteq W /\ stale' \subseteq W /\ anchoring' \subseteq W /\ shown' \subseteq W
    <3>1. asked \subseteq M /\ stale \subseteq M /\ shown \subseteq M
      BY <1>3, DoorTypes
    <3>2. helper' \in [Key -> W \cup {0}] /\ requests' \in [Key -> W \cup {0}]
      BY <1>2, <1>4, <1>5
    <3> QED
      BY <1>2, <1>4, <1>5, <1>9, <1>13, <3>1, <3>2
  <2>2. /\ list' \in [N!Entry -> {"loading", "groups", "error"}]
        /\ result' \in [N!Entry -> {"none", "selected", "cancelled", "error"}]
        /\ pumping' \in BOOLEAN /\ destroyed' \in BOOLEAN
    BY <1>2, DoorTypes
  <2> QED
    BY <1>4, <1>9, <1>13, <2>1, <2>2, Zenon DEF N!TypeOK, N!None
<1>15. Len(key') <= MaxEntry /\ \A m \in N!Entry : m \notin N!Made' => result'[m] = "none"
  <2>1. result' = result
    BY <1>2
  <2> QED
    BY <1>3, <1>4, <2>1, DoorFacts
<1>16. \A m \in Key : requests'[m] # 0 => helper'[m] = requests'[m] /\ key'[requests'[m]] = m
  <2>1. \A m \in Key : requests[m] # 0 => requests[m] \in M /\ helper[m] = requests[m] /\ key[requests[m]] = m
    BY <1>5, DoorFacts
  <2> QED
    BY <1>4, <1>10, <2>1
<1>17. N!OpenRequestIsKnown'
  <2>1. result'[n] = "none" /\ result' = result
    BY <1>2, <1>3, <1>4, DoorFacts
  <2>2. \A m \in M : result[m] = "none" <=> requests[key[m]] = m
    BY <1>3, DoorFacts
  <2>3. \A m \in W : result'[m] = "none" <=> requests'[key'[m]] = m
    BY <1>4, <1>11, <2>1, <2>2
  <2> QED
    BY <1>4, <2>3, Zenon DEF N!OpenRequestIsKnown
<1>18. (\A i \in DOMAIN queue : Open(queue[i]))' /\ (active' # 0 => Open(active)')
  BY <1>9, <1>12, <1>13 DEF Open
<1>19. N!OneDoorhanger' /\ N!QueueIsServed'
  <2>1. shown' \subseteq {active'} \ {0}
    BY <1>2, <1>9, DoorFacts
  <2> QED
    BY <1>9, <2>1, Zenon DEF N!OneDoorhanger, N!QueueIsServed, N!None
<1>20. anchoring' \cap shown' = {}
  <2>1. shown' = shown /\ anchoring \cap shown = {} /\ (active = 0 => shown = {})
    BY <1>2, DoorFacts
  <2> QED
    BY <1>9, <2>1
<1> QED
  BY <1>20, <1>2, <1>14, <1>15, <1>16, <1>17, <1>18, <1>19, Zenon DEF DoorInv, N!None, N!Entry

LEMMA AnchorKeeps ==
  ASSUME DoorInv, NEW n \in N!Made, N!AnchorFound(n)
  PROVE  DoorInv'
<1>1. n \in anchoring /\ anchoring' = anchoring \ {n} /\ UNCHANGED <<key, helper, asked, stale, list, destroyed>>
  BY DEF N!AnchorFound, N!helperVars
<1>2. \/ UNCHANGED <<requests, queue, active, shown, result, pumping>>
      \/ active = n /\ shown' = shown \cup {n} /\ UNCHANGED <<requests, queue, active, result, pumping>>
      \/ active = n /\ N!Settle(n, "error") /\ UNCHANGED shown /\ requests[key[n]] # 0
  BY DEF N!AnchorFound, N!None
<1>3. CASE UNCHANGED <<requests, queue, active, shown, result, pumping>>
  BY <1>1, <1>3, DoorTypes, DoorFacts, DoorKept DEF Open
<1>4. CASE active = n /\ shown' = shown \cup {n} /\ UNCHANGED <<requests, queue, active, result, pumping>>
  <2>1. shown' \subseteq {active'} \ {0} /\ anchoring' \cap shown' = {}
    BY <1>1, <1>4, DoorTypes, DoorFacts
  <2> QED
    BY <1>1, <1>4, <2>1, DoorTypes, DoorFacts, DoorKept DEF Open
<1>5. CASE active = n /\ N!Settle(n, "error") /\ UNCHANGED shown /\ requests[key[n]] # 0
  <2>1. Open(n)
    BY <1>5, DoorTypes, DoorFacts
  <2>2. n \notin shown
    BY <1>1, DoorFacts
  <2> QED
    BY <1>1, <1>5, <2>1, <2>2, DoorTypes, SettleKeeps
<1> QED
  BY <1>2, <1>3, <1>4, <1>5

LEMMA AnsweredKeeps ==
  ASSUME DoorInv, NEW n \in N!Made, N!UserAnswers(n)
  PROVE  DoorInv'
<1>1. PICK how \in {"selected", "cancelled"} : N!Answered(n, how)
  BY DEF N!UserAnswers
<1>2. /\ n \in shown /\ shown' = shown \ {n}
      /\ UNCHANGED <<key, helper, asked, stale, anchoring, list, destroyed>>
  BY <1>1 DEF N!Answered, N!helperVars
<1>3. active = n /\ Open(n) /\ requests[key[n]] # 0
  BY <1>2, DoorTypes, DoorFacts DEF Open
<1>4. N!Settle(n, how) /\ how \in {"selected", "cancelled", "error"}
  BY <1>1, <1>3 DEF N!Answered, N!None
<1>5. stale' \subseteq N!Made /\ anchoring' \subseteq anchoring /\ shown' \subseteq shown \ {n}
  BY <1>2, DoorTypes
<1> QED
  BY <1>2, <1>3, <1>4, <1>5, SettleKeeps

LEMMA CancelKeeps ==
  ASSUME DoorInv, NEW k \in Key, N!CancelRequest(k)
  PROVE  DoorInv'
<1>1. PICK n, m : n = helper[k] /\ m = requests[k]
  OBVIOUS
<1>2. /\ n # 0 /\ stale' = stale \cup {n} /\ UNCHANGED <<key, helper, asked, anchoring, list, destroyed>>
      /\ \/ m # 0 /\ N!Settle(m, "cancelled") /\ shown' = shown \ {m}
         \/ m = 0 /\ UNCHANGED <<requests, queue, active, result, pumping, shown>>
  BY <1>1 DEF N!CancelRequest, N!None
<1>3. stale' \subseteq N!Made
  BY <1>1, <1>2, DoorTypes
<1>4. CASE m = 0 /\ UNCHANGED <<requests, queue, active, result, pumping, shown>>
  BY <1>2, <1>3, <1>4, DoorTypes, DoorFacts, DoorKept DEF Open
<1>5. CASE m # 0 /\ N!Settle(m, "cancelled") /\ shown' = shown \ {m}
  <2>1. m \in N!Made /\ Open(m)
    BY <1>1, <1>5, DoorTypes, DoorFacts DEF Open
  <2> QED
    BY <1>2, <1>3, <1>5, <2>1, DoorTypes, SettleKeeps
<1> QED
  BY <1>2, <1>4, <1>5

LEMMA DestroyKeeps ==
  ASSUME DoorInv, N!Destroy
  PROVE  DoorInv'
<1>1. PICK left : left = {n \in N!Made : requests[key[n]] = n}
  OBVIOUS
<1>2. /\ result' = [n \in N!Entry |-> IF n \in left THEN "cancelled" ELSE result[n]]
      /\ active' = (IF active \in left THEN 0 ELSE active)
      /\ shown' = shown \ left /\ requests' = [k \in Key |-> 0] /\ queue' = <<>>
      /\ pumping' = TRUE /\ destroyed' = TRUE
      /\ UNCHANGED <<key, helper, asked, stale, anchoring, list>>
  BY <1>1 DEF N!Destroy, N!None, N!helperVars
<1>3. active' = 0
  BY <1>1, <1>2, DoorTypes, DoorFacts DEF Open
<1>4. shown' \subseteq {active'} \ {0}
  BY <1>1, <1>2, <1>3, DoorTypes, DoorFacts DEF Open
<1>5. \A m \in N!Made : result'[m] = "none" <=> requests'[key[m]] = m
  <2> TAKE m \in N!Made
  <2>1. m \in N!Entry /\ key[m] \in Key /\ m # 0 /\ (result[m] = "none" <=> m \in left)
    BY <1>1, DoorTypes, DoorFacts
  <2>2. result'[m] # "none"
    BY <1>2, <2>1
  <2>3. requests'[key[m]] = 0
    BY <1>2, <2>1
  <2> QED
    BY <2>1, <2>2, <2>3
<1>6. \A m \in N!Entry : m \notin N!Made => result'[m] = result[m]
  BY <1>1, <1>2
<1>7. /\ result' \in [N!Entry -> {"none", "selected", "cancelled", "error"}]
      /\ requests' \in [Key -> N!Made \cup {0}]
  BY <1>2, DoorTypes
<1>8. queue' \in Seq(N!Made) /\ DOMAIN queue' = {} /\ anchoring' \cap shown' = {}
  BY <1>2, EmptySeq, DoorFacts
<1> QED
  BY <1>2, <1>3, <1>4, <1>5, <1>6, <1>7, <1>8, DoorTypes, DoorKept

LEMMA PumpKeeps ==
  ASSUME DoorInv, N!PumpRuns
  PROVE  DoorInv'
<1>1. /\ pumping' = FALSE /\ UNCHANGED <<key, helper, asked, stale, requests, shown, list, result, destroyed>>
      /\ \/ destroyed /\ UNCHANGED <<queue, active, anchoring>>
         \/ ~destroyed /\ N!PumpFrom(queue, active)
  BY DEF N!PumpRuns, N!helperVars
<1>2. CASE destroyed /\ UNCHANGED <<queue, active, anchoring>>
  BY <1>1, <1>2, DoorTypes, DoorFacts, DoorKept DEF Open
<1>3. CASE ~destroyed /\ N!PumpFrom(queue, active)
  <2>1. PICK M : M = N!Made /\ queue \in Seq(M) /\ 0 \notin M
    BY DoorTypes
  <2>2. /\ queue' \in Seq(M)
        /\ \A i \in DOMAIN queue' : \E j \in DOMAIN queue : queue'[i] = queue[j]
        /\ active' = active \/ (active = 0 /\ \E j \in DOMAIN queue : active' = queue[j])
        /\ active # 0 => active' = active /\ anchoring' = anchoring
        /\ queue' # <<>> => active' # 0
        /\ anchoring' \subseteq anchoring \cup ({active'} \ {0})
    BY <1>3, <2>1, PumpTakes
  <2>3. active' \in N!Made \cup {0} /\ (active' # 0 => requests[key[active']] = active')
    BY <2>2, DoorTypes, DoorFacts DEF Open
  <2>4. \A i \in DOMAIN queue' : requests[key[queue'[i]]] = queue'[i]
    BY <2>2, DoorFacts DEF Open
  <2>5. shown' \subseteq {active'} \ {0} /\ anchoring' \cap shown' = {}
    BY <1>1, <2>2, DoorFacts
  <2>6. anchoring' \subseteq N!Made /\ queue' \in Seq(N!Made)
    BY <2>1, <2>2, <2>3, DoorTypes
  <2> QED
    BY <1>1, <1>3, <2>2, <2>3, <2>4, <2>5, <2>6, DoorTypes, DoorFacts, DoorKept
<1> QED
  BY <1>1, <1>2, <1>3

LEMMA DoorStep == DoorInv /\ [N!Next]_doorVars => DoorInv'
<1> SUFFICES ASSUME DoorInv, [N!Next]_doorVars PROVE DoorInv'
  OBVIOUS
<1>1. ASSUME NEW k \in Key, N!Show(k)
      PROVE  DoorInv'
  BY <1>1, ShowKeeps
<1>2. ASSUME NEW k \in Key, N!CancelRequest(k)
      PROVE  DoorInv'
  BY <1>2, CancelKeeps
<1>3. ASSUME NEW k \in Key, N!HelperReturns(k)
      PROVE  DoorInv'
  <2>1. /\ helper[k] # 0 /\ result[helper[k]] # "none"
        /\ helper' = [helper EXCEPT ![k] = 0] /\ stale' = stale \cup {helper[k]}
        /\ UNCHANGED <<key, asked, requests, queue, active, anchoring, shown, list, result, pumping, destroyed>>
    BY <1>3 DEF N!HelperReturns, N!None
  <2>2. helper' \in [Key -> N!Made \cup {0}] /\ stale' \subseteq N!Made
    BY <2>1, DoorTypes
  <2>3. requests[k] = 0
    BY <2>1, DoorTypes, DoorFacts
  <2>4. \A m \in Key : requests'[m] # 0 => requests'[m] = requests[m] /\ helper'[m] = helper[m]
    BY <2>1, <2>3, DoorTypes
  <2> QED
    BY <2>1, <2>2, <2>4, DoorTypes, DoorFacts, DoorKept DEF Open
<1>4. ASSUME NEW n \in N!Made, NEW how \in {"groups", "error"}, N!Enumerated(n, how)
      PROVE  DoorInv'
  <2>1. /\ asked' = asked \ {n}
        /\ \/ list' = list \/ \E m : list' = [list EXCEPT ![m] = how]
        /\ UNCHANGED <<key, helper, stale, requests, queue, active, anchoring, shown, result, pumping, destroyed>>
    BY <1>4 DEF N!Enumerated
  <2>2. list' \in [N!Entry -> {"loading", "groups", "error"}] /\ asked' \subseteq N!Made
    <3>1. list \in [N!Entry -> {"loading", "groups", "error"}] /\ asked \subseteq N!Made
      BY DoorTypes
    <3>2. CASE list' = list
      BY <2>1, <3>1, <3>2
    <3>3. ASSUME NEW m, list' = [list EXCEPT ![m] = how]
          PROVE  list' \in [N!Entry -> {"loading", "groups", "error"}]
      BY <3>1, <3>3
    <3> QED
      BY <2>1, <3>1, <3>2, <3>3
  <2> QED
    BY <2>1, <2>2, DoorTypes, DoorFacts, DoorKept DEF Open
<1>5. ASSUME NEW n \in N!Made, N!AnchorFound(n)
      PROVE  DoorInv'
  BY <1>5, AnchorKeeps
<1>6. ASSUME NEW n \in N!Made, N!UserAnswers(n)
      PROVE  DoorInv'
  BY <1>6, AnsweredKeeps
<1>7. CASE N!Destroy
  BY <1>7, DestroyKeeps
<1>8. CASE N!PumpRuns
  BY <1>8, PumpKeeps
<1>9. CASE UNCHANGED doorVars
  BY <1>9, DoorTypes, DoorFacts, DoorKept DEF Open, doorVars
<1> QED
  BY <1>1, <1>2, <1>3, <1>4, <1>5, <1>6, <1>7, <1>8, <1>9 DEF N!Next

\* The controller serves what it was given: every entry whose promise is open
\* is known under its own key, one notification at most is on screen and it is
\* the active request's, and no queue is left without a pump (api.js:61-282).
THEOREM DoorhangerIsServed == PickersSpec => []DoorhangerServes
<1>1. PickersInit => DoorInv
  BY DoorInit DEF PickersInit
<1>2. DoorInv /\ [PickersNext]_PickersVars => DoorInv'
  <2> SUFFICES ASSUME DoorInv, [PickersNext]_PickersVars PROVE DoorInv'
    OBVIOUS
  <2>1. [N!Next]_doorVars
    BY DEF PickersNext, PickersVars
  <2> QED
    BY <2>1, DoorStep
<1>3. DoorInv => DoorhangerServes
  BY Zenon DEF DoorInv, DoorhangerServes, N!Served
<1> QED
  BY <1>1, <1>2, <1>3, PTL DEF PickersSpec

(***************************************************************************)
(* The requests of the pages                                               *)
(***************************************************************************)
Request == [at : Place, doc : Nat, mode : Modes]
Report == [port : Made, req : Made, selected : BOOLEAN, list : Made \cup {None}]
Dialog == [shows : Seq(Made), open : Made \cup {None}, list : Made \cup {None}, loads : SUBSET Made]
Page == [st : {"none", "loading", "list", "sent", "closed"}, req : Made \cup {None}]
Asks(r) == reqs[r].mode \in {"pageAction", "privileged"}

\* The invariant, by the part of the state it is about.  A page that works on a
\* request has one; what runs for a tab's icon is the head of its chain.
BridgeOK == doc \in [Place -> Nat] /\ waiting \subseteq Made /\ outcome \in [Req -> {"none", "granted", "cancelled"}]
PendOK ==
  /\ pending \in Seq(Made)
  /\ \A i \in DOMAIN pending :
       /\ DocLives(pending[i], doc)
       /\ \A j \in DOMAIN pending : TabOf(pending[i]) = TabOf(pending[j]) => i = j
AnswersOK == results \subseteq Report /\ AnsweredByOwnPicker
UisOK ==
  /\ inline \in [Tab -> Dialog] /\ ui \in [Ui -> Page] /\ windows \in Nat
  /\ \A u \in Ui : ui[u].st \in {"loading", "list", "sent"} => ui[u].req # None
NativeOK == native \subseteq [req : Made, st : {"waiting", "clearing", "shown"}]
IconsOK ==
  /\ popup \in [Tab -> {"popup", "picker", "off"}] /\ visible \in [Tab -> BOOLEAN]
  /\ used \subseteq Tab /\ chain \in [Tab -> Seq(Made \cup {None})]
  /\ running \in [Tab -> {"none", "show", "hide"}]
  /\ \A t \in Tab : running[t] # "none" => chain[t] # <<>>

ReqInv ==
  /\ reqs \in Seq(Request)
  /\ BridgeOK /\ PendOK /\ AnswersOK /\ UisOK /\ NativeOK /\ IconsOK
  /\ IconShownForPicker

LEMMA ReqInit == Init => ReqInv
<1> SUFFICES ASSUME Init PROVE ReqInv
  OBVIOUS
<1>1. DOMAIN reqs = {} /\ DOMAIN pending = {} /\ Made = {}
  BY DEF Init, Made
<1>2. BridgeOK /\ NativeOK /\ AnswersOK
  BY <1>1 DEF Init, BridgeOK, NativeOK, AnswersOK, AnsweredByOwnPicker
<1>3. PendOK
  BY <1>1, EmptySeq DEF Init, PendOK
<1>4. UisOK
  <2>1. NoDialog \in Dialog
    BY EmptySeq DEF NoDialog, Dialog
  <2>2. [st |-> "none", req |-> None] \in Page
    BY DEF Page
  <2> QED
    BY <2>1, <2>2 DEF Init, UisOK
<1>5. IconsOK
  BY EmptySeq DEF Init, IconsOK
<1>6. IconShownForPicker
  BY <1>1 DEF IconShownForPicker
<1> QED
  BY <1>2, <1>3, <1>4, <1>5, <1>6, EmptySeq DEF Init, ReqInv

\* What a request made says, and that its tab is a tab.
LEMMA MadeFacts ==
  ASSUME ReqInv
  PROVE  /\ Made = 1..Len(reqs) /\ Len(reqs) \in Nat /\ 0 \notin Made
         /\ \A r \in Made : reqs[r] \in Request /\ reqs[r].at \in Place /\ TabOf(r) \in Tab
         /\ \A i \in DOMAIN pending : pending[i] \in Made
<1>1. reqs \in Seq(Request) /\ pending \in Seq(Made)
  BY DEF ReqInv, PendOK
<1>2. Made = 1..Len(reqs) /\ Len(reqs) \in Nat
  BY <1>1, LenProperties DEF Made
<1>3. \A r \in Made : reqs[r] \in Request
  BY <1>1, <1>2, ElementOfSeq
<1>4. \A i \in DOMAIN pending : pending[i] \in Made
  BY <1>1, ElementOfSeq, LenProperties
<1> QED
  BY <1>2, <1>3, <1>4 DEF Request, Tab, TabOf

\* A part of the state nothing happens to.
LEMMA Untouched ==
  ASSUME ReqInv, UNCHANGED reqs
  PROVE  /\ UNCHANGED <<doc, waiting, outcome>> => BridgeOK'
         /\ UNCHANGED <<doc, pending>> => PendOK'
         /\ UNCHANGED results => AnswersOK'
         /\ UNCHANGED uiVars => UisOK'
         /\ UNCHANGED native => NativeOK'
         /\ UNCHANGED iconVars => IconsOK'
         /\ UNCHANGED <<pending, chain, visible>> => IconShownForPicker'
         /\ Made' = Made /\ (\A r : TabOf(r)' = TabOf(r)) /\ Report' = Report /\ Dialog' = Dialog /\ Page' = Page
<1>1. Made' = Made /\ (\A r : TabOf(r)' = TabOf(r)) /\ Report' = Report /\ Dialog' = Dialog /\ Page' = Page
  BY DEF Made, TabOf, Report, Dialog, Page
<1>2. UNCHANGED <<doc, waiting, outcome>> => BridgeOK'
  BY <1>1 DEF ReqInv, BridgeOK
<1>3. UNCHANGED <<doc, pending>> => PendOK'
  BY <1>1 DEF ReqInv, PendOK, DocLives
<1>4. UNCHANGED results => AnswersOK'
  BY <1>1 DEF ReqInv, AnswersOK, AnsweredByOwnPicker
<1>5. UNCHANGED uiVars => UisOK'
  BY <1>1 DEF ReqInv, UisOK, uiVars
<1>6. UNCHANGED native => NativeOK'
  BY <1>1 DEF ReqInv, NativeOK
<1>7. UNCHANGED iconVars => IconsOK'
  BY <1>1 DEF ReqInv, IconsOK, iconVars
<1>8. UNCHANGED <<pending, chain, visible>> => IconShownForPicker'
  BY <1>1 DEF ReqInv, IconShownForPicker
<1> QED
  BY <1>1, <1>2, <1>3, <1>4, <1>5, <1>6, <1>7, <1>8

\* Requests leave the map; those that stay are as live as they were.
LEMMA PendingLeaves ==
  ASSUME ReqInv, UNCHANGED reqs, NEW gone, pending' = Without(pending, gone),
         \A i \in DOMAIN pending : pending[i] \notin gone => DocLives(pending[i], doc')
  PROVE  /\ PendOK'
         /\ \A i \in DOMAIN pending' : pending'[i] \notin gone /\ \E j \in DOMAIN pending : pending'[i] = pending[j]
<1>1. pending \in Seq(Made)
  BY DEF ReqInv, PendOK
<1>2. Cut(pending', pending, gone, Made)
  BY <1>1, WithoutFacts
<1> DEFINE F == [r \in Made |-> TabOf(r)]
<1>3. \A i, j \in DOMAIN pending : F[pending[i]] = F[pending[j]] => i = j
  BY MadeFacts DEF ReqInv, PendOK
<1>4. \A i, j \in DOMAIN pending' : F[pending'[i]] = F[pending'[j]] => i = j
  <2> HIDE DEF F
  <2> QED
    BY <1>1, <1>3, WithoutOnce
<1>5. \A i \in DOMAIN pending' : pending'[i] \in Made /\ F[pending'[i]] = TabOf(pending'[i])
  BY <1>2 DEF Cut
<1>6. \A i \in DOMAIN pending' : pending'[i] \notin gone /\ \E j \in DOMAIN pending : pending'[i] = pending[j]
  BY <1>2 DEF Cut
<1>7. \A i \in DOMAIN pending' : DocLives(pending'[i], doc')
  BY <1>6
<1>8. pending' \in Seq(Made)
  BY <1>2 DEF Cut
<1>9. \A i, j \in DOMAIN pending' : TabOf(pending'[i]) = TabOf(pending'[j]) => i = j
  <2> HIDE DEF F
  <2> QED
    BY <1>4, <1>5
<1> QED
  BY <1>6, <1>7, <1>8, <1>9, Untouched DEF PendOK, DocLives

\* A tab whose chain is empty and whose icon stays has what its pending
\* requests need, when no request comes.
LEMMA IconsStay ==
  ASSUME ReqInv, UNCHANGED reqs,
         \A i \in DOMAIN pending' : \E j \in DOMAIN pending : pending'[i] = pending[j],
         \A t \in Tab : chain'[t] = <<>> => chain[t] = <<>> /\ visible'[t] = visible[t]
  PROVE  IconShownForPicker'
<1> SUFFICES ASSUME NEW t \in Tab, chain'[t] = <<>>,
                    NEW i \in DOMAIN pending', TabOf(pending'[i]) = t, Asks(pending'[i])
             PROVE  visible'[t]
  BY DEF IconShownForPicker, TabOf, Asks
<1>1. PICK j \in DOMAIN pending : pending'[i] = pending[j]
  OBVIOUS
<1> QED
  BY <1>1 DEF ReqInv, IconShownForPicker, Asks

\* restorePageAction, or nothing.
LEMMA IconRestored ==
  ASSUME ReqInv, UNCHANGED reqs, NEW t \in Tab, RestorePageAction(t) \/ UNCHANGED iconVars
  PROVE  /\ IconsOK'
         /\ \A u \in Tab : chain'[u] = <<>> => chain[u] = <<>> /\ visible'[u] = visible[u]
<1>1. CASE UNCHANGED iconVars
  BY <1>1, Untouched DEF iconVars
<1>2. CASE RestorePageAction(t)
  <2>1. /\ chain' = [chain EXCEPT ![t] = Append(@, None)] /\ popup' = [popup EXCEPT ![t] = "popup"]
        /\ UNCHANGED <<visible, used, running>>
    BY <1>2 DEF RestorePageAction, Reconcile
  <2>2. Append(chain[t], None) \in Seq(Made \cup {None}) /\ Append(chain[t], None) # <<>>
    <3>1. chain[t] \in Seq(Made \cup {None})
      BY DEF ReqInv, IconsOK
    <3> QED
      BY <3>1, AppendProperties, EmptySeq
  <2>3. /\ chain' \in [Tab -> Seq(Made \cup {None})]
        /\ \A u \in Tab : chain'[u] = IF u = t THEN Append(chain[t], None) ELSE chain[u]
    BY <2>1, <2>2 DEF ReqInv, IconsOK
  <2>4. \A u \in Tab : chain'[u] = <<>> => chain[u] = <<>>
    BY <2>2, <2>3
  <2>5. popup' \in [Tab -> {"popup", "picker", "off"}]
    BY <2>1 DEF ReqInv, IconsOK
  <2> QED
    BY <2>1, <2>3, <2>4, <2>5, Untouched DEF ReqInv, IconsOK
<1> QED
  BY <1>1, <1>2

\* The answer of a picker page goes to the tab's request and names its own.
LEMMA PageAnswers ==
  ASSUME ReqInv, UNCHANGED <<reqs, doc>>, NEW id \in Made, NEW selected \in BOOLEAN,
         PickerResult(id, selected, id)
  PROVE  PendOK' /\ AnswersOK' /\ IconsOK' /\ IconShownForPicker'
<1> DEFINE t == TabOf(id)
           hit == {r \in ToSet(pending) : TabOf(r) = t}
<1>1. /\ pending' = Without(pending, hit)
      /\ results' = results \cup {Answer(r, id, selected, id) : r \in hit}
      /\ RestorePageAction(t) \/ UNCHANGED iconVars
  BY DEF PickerResult
<1>2. t \in Tab /\ hit \subseteq Made
  BY MadeFacts DEF ToSet
<1>3. \A i \in DOMAIN pending : DocLives(pending[i], doc')
  BY DEF ReqInv, PendOK
<1> HIDE DEF hit, t
<1>4. PendOK' /\ \A i \in DOMAIN pending' : \E j \in DOMAIN pending : pending'[i] = pending[j]
  BY <1>1, <1>3, PendingLeaves
<1>5. IconsOK' /\ \A u \in Tab : chain'[u] = <<>> => chain[u] = <<>> /\ visible'[u] = visible[u]
  BY <1>1, <1>2, IconRestored
<1>6. AnswersOK'
  <2>1. \A m \in results' : m \in results \/ \E r \in hit : m = Answer(r, id, selected, id)
    BY <1>1
  <2>2. \A r \in hit : Answer(r, id, selected, id) \in Report
    BY <1>2 DEF Answer, Report
  <2>3. \A r \in hit : Answer(r, id, selected, id).list = id /\ Answer(r, id, selected, id).req = id
    BY DEF Answer
  <2>4. results' \subseteq Report
    BY <2>1, <2>2 DEF ReqInv, AnswersOK
  <2>5. AnsweredByOwnPicker'
    BY <2>1, <2>3 DEF ReqInv, AnswersOK, AnsweredByOwnPicker
  <2> QED
    BY <2>4, <2>5, Untouched DEF AnswersOK
<1> QED
  BY <1>4, <1>5, <1>6, IconsStay

LEMMA TimeoutKeeps ==
  ASSUME ReqInv, NEW r \in Req, PickerTimeout(r)
  PROVE  ReqInv'
<1> DEFINE hit == CancelHits(r)
<1>1. /\ r \in waiting /\ waiting' = waiting \ {r}
      /\ outcome' = [outcome EXCEPT ![r] = "cancelled"]
      /\ pending' = Without(pending, hit)
      /\ native' \subseteq native
      /\ RestorePageAction(TabOf(r)) \/ UNCHANGED iconVars
      /\ UNCHANGED <<doc, reqs, results, uiVars>>
  BY DEF PickerTimeout
<1>2. TabOf(r) \in Tab
  BY <1>1, MadeFacts DEF ReqInv, BridgeOK
<1>3. BridgeOK'
  BY <1>1, Untouched DEF ReqInv, BridgeOK
<1> HIDE DEF hit
<1>4. \A i \in DOMAIN pending : DocLives(pending[i], doc')
  BY <1>1 DEF ReqInv, PendOK
<1>5. PendOK' /\ \A i \in DOMAIN pending' : \E j \in DOMAIN pending : pending'[i] = pending[j]
  BY <1>1, <1>4, PendingLeaves
<1>6. IconsOK' /\ \A u \in Tab : chain'[u] = <<>> => chain[u] = <<>> /\ visible'[u] = visible[u]
  BY <1>1, <1>2, IconRestored
<1>7. NativeOK'
  BY <1>1, Untouched DEF ReqInv, NativeOK
<1>8. IconShownForPicker'
  BY <1>1, <1>5, <1>6, IconsStay
<1> QED
  BY <1>1, <1>3, <1>5, <1>6, <1>7, <1>8, Untouched DEF ReqInv

LEMMA ResultKeeps ==
  ASSUME ReqInv, NEW m \in results, ResultArrives(m)
  PROVE  ReqInv'
<1>1. /\ results' = results \ {m} /\ UNCHANGED <<doc, reqs, pending, uiVars, native, iconVars>>
      /\ \/ UNCHANGED <<waiting, outcome>>
         \/ /\ waiting' = waiting \ {m.req}
            /\ \E v \in {"granted", "cancelled"} : outcome' = [outcome EXCEPT ![m.req] = v]
  BY DEF ResultArrives
<1>2. BridgeOK'
  <2>1. CASE UNCHANGED <<waiting, outcome>>
    BY <1>1, <2>1, Untouched
  <2>2. ASSUME NEW v \in {"granted", "cancelled"}, waiting' = waiting \ {m.req},
               outcome' = [outcome EXCEPT ![m.req] = v]
        PROVE  BridgeOK'
    BY <1>1, <2>2, Untouched DEF ReqInv, BridgeOK
  <2> QED
    BY <1>1, <2>1, <2>2
<1>3. AnswersOK'
  BY <1>1, Untouched DEF ReqInv, AnswersOK, AnsweredByOwnPicker
<1>4. UNCHANGED <<chain, visible>>
  BY <1>1 DEF iconVars
<1> QED
  BY <1>1, <1>2, <1>3, <1>4, Untouched DEF ReqInv

\* The browser resets the page action of a tab that navigates: none of its
\* requests is left, for all of its frames go with the top frame.
LEMMA ReloadKeeps ==
  ASSUME ReqInv, NEW p \in Place, Reload(p)
  PROVE  ReqInv'
<1>1. PICK goes, d, tops : /\ goes = {q \in Place : q = p \/ (p.frame = 0 /\ q.tab = p.tab)}
                           /\ d = [q \in Place |-> IF q \in goes THEN doc[q] + 1 ELSE doc[q]]
                           /\ tops = IF p.frame = 0 THEN {p.tab} ELSE {}
  OBVIOUS
<1> DEFINE gone == {r \in ToSet(pending) : ~DocLives(r, d) \/ (reqs[r].mode = "modal" /\ TabOf(r) \in tops)}
           left == Surviving(pending, d, tops)
<1>2. /\ doc' = d /\ waiting' \subseteq waiting /\ pending' = Without(pending, gone)
      /\ native' \subseteq native
      /\ inline' = [t \in Tab |-> IF t \in tops THEN NoDialog ELSE inline[t]]
      /\ UNCHANGED <<reqs, outcome, results, ui, windows>>
  <2>1. /\ doc' = d /\ waiting' = {r \in waiting : DocLives(r, d)} /\ pending' = left
        /\ inline' = [t \in Tab |-> IF t \in tops THEN NoDialog ELSE inline[t]]
        /\ UNCHANGED <<reqs, outcome, results, ui, windows>>
    BY <1>1, Zenon DEF Reload
  <2>2. native' \subseteq native
    BY DEF Reload
  <2> QED
    BY <2>1, <2>2 DEF Surviving
<1>3. \/ /\ p.frame = 0
         /\ popup' = [popup EXCEPT ![p.tab] = "popup"]
         /\ visible' = [visible EXCEPT ![p.tab] = FALSE]
         /\ chain' = [chain EXCEPT ![p.tab] = Append(@, None)] \/ chain' = chain
         /\ UNCHANGED <<used, running>>
      \/ p.frame # 0 /\ (RestorePageAction(p.tab) \/ UNCHANGED iconVars)
  BY DEF Reload
<1>4. p.tab \in Tab
  BY DEF Tab
<1>5. \A q \in Place : doc[q] \in Nat
  BY DEF ReqInv, BridgeOK
<1>6. BridgeOK'
  <2>1. d \in [Place -> Nat]
    BY <1>1, <1>5
  <2> QED
    BY <1>2, <2>1, Untouched DEF ReqInv, BridgeOK
<1>7. \A i \in DOMAIN pending : pending[i] \notin gone => DocLives(pending[i], doc')
  BY <1>2 DEF ToSet
<1> HIDE DEF gone, left
<1>8. /\ PendOK'
      /\ \A i \in DOMAIN pending' : pending'[i] \notin gone /\ \E j \in DOMAIN pending : pending'[i] = pending[j]
  BY <1>2, <1>7, PendingLeaves
<1>9. NativeOK'
  BY <1>2, Untouched DEF ReqInv, NativeOK
<1>10. UisOK'
  <2>1. NoDialog \in Dialog
    BY EmptySeq DEF NoDialog, Dialog
  <2> QED
    BY <1>2, <2>1, Untouched DEF ReqInv, UisOK
<1>11. CASE p.frame # 0 /\ (RestorePageAction(p.tab) \/ UNCHANGED iconVars)
  <2>1. IconsOK' /\ \A u \in Tab : chain'[u] = <<>> => chain[u] = <<>> /\ visible'[u] = visible[u]
    BY <1>2, <1>4, <1>11, IconRestored
  <2>2. IconShownForPicker'
    BY <1>2, <1>8, <2>1, IconsStay
  <2> QED
    BY <1>2, <1>6, <1>8, <1>9, <1>10, <2>1, <2>2, Untouched DEF ReqInv
<1>12. CASE /\ p.frame = 0
            /\ popup' = [popup EXCEPT ![p.tab] = "popup"]
            /\ visible' = [visible EXCEPT ![p.tab] = FALSE]
            /\ chain' = [chain EXCEPT ![p.tab] = Append(@, None)] \/ chain' = chain
            /\ UNCHANGED <<used, running>>
  <2>1. Append(chain[p.tab], None) \in Seq(Made \cup {None}) /\ Append(chain[p.tab], None) # <<>>
    <3>1. chain[p.tab] \in Seq(Made \cup {None})
      BY <1>4 DEF ReqInv, IconsOK
    <3> QED
      BY <3>1, AppendProperties, EmptySeq
  <2>2. chain' \in [Tab -> Seq(Made \cup {None})] /\ \A u \in Tab : chain'[u] = <<>> => chain[u] = <<>>
    BY <1>4, <1>12, <2>1 DEF ReqInv, IconsOK
  <2>3. /\ popup' \in [Tab -> {"popup", "picker", "off"}] /\ visible' \in [Tab -> BOOLEAN]
        /\ \A u \in Tab : u # p.tab => visible'[u] = visible[u]
    BY <1>12 DEF ReqInv, IconsOK
  <2>4. IconsOK'
    BY <1>2, <1>12, <2>2, <2>3, Untouched DEF ReqInv, IconsOK
  <2>5. \A i \in DOMAIN pending' : TabOf(pending'[i]) # p.tab
    <3> SUFFICES ASSUME NEW i \in DOMAIN pending', TabOf(pending'[i]) = p.tab PROVE FALSE
      OBVIOUS
    <3>1. PICK r \in Made : r = pending'[i] /\ DocLives(r, doc) /\ DocLives(r, d)
      <4>1. PICK j \in DOMAIN pending : pending'[i] = pending[j]
        BY <1>8
      <4>2. DocLives(pending[j], doc) /\ pending[j] \in Made
        BY MadeFacts DEF ReqInv, PendOK
      <4>3. DocLives(pending[j], d)
        BY <1>2, <1>7, <1>8, <4>1
      <4> QED
        BY <4>1, <4>2, <4>3
    <3>2. reqs[r].at \in Place /\ reqs[r].at.tab = p.tab
      BY <3>1, MadeFacts DEF TabOf
    <3>3. reqs[r].at \in goes
      BY <1>1, <1>12, <3>2
    <3>4. d[reqs[r].at] = doc[reqs[r].at] + 1
      BY <1>1, <3>2, <3>3
    <3> QED
      BY <1>5, <3>1, <3>2, <3>4 DEF DocLives
  <2>6. IconShownForPicker'
    <3> SUFFICES ASSUME NEW t \in Tab, chain'[t] = <<>>,
                        NEW i \in DOMAIN pending', TabOf(pending'[i]) = t, Asks(pending'[i])
                 PROVE  visible'[t]
      BY <1>2 DEF IconShownForPicker, TabOf, Asks
    <3>1. t # p.tab
      BY <2>5
    <3>2. PICK j \in DOMAIN pending : pending'[i] = pending[j]
      BY <1>8
    <3> QED
      BY <2>2, <2>3, <3>1, <3>2 DEF ReqInv, IconShownForPicker, Asks
  <2> QED
    BY <1>2, <1>6, <1>8, <1>9, <1>10, <2>4, <2>6, Untouched DEF ReqInv
<1> QED
  BY <1>3, <1>11, <1>12

\* A dialog changes one field after the other.
LEMMA DialogChanges ==
  ASSUME ReqInv, UNCHANGED <<reqs, ui, windows>>, NEW t \in Tab, NEW x \in Dialog, inline' = [inline EXCEPT ![t] = x]
  PROVE  UisOK'
BY Untouched DEF ReqInv, UisOK

LEMMA DialogKeeps ==
  ASSUME ReqInv, NEW t \in Tab,
         \/ DialogShows(t) \/ DialogRefreshes(t) \/ \E r \in Req : DialogLoaded(t, r)
         \/ \E s \in BOOLEAN : DialogCloses(t, s)
  PROVE  ReqInv'
<1>1. PICK x \in Dialog : x = inline[t]
  BY DEF ReqInv, UisOK
<1>2. inline \in [Tab -> Dialog] /\ \A r \in x.loads : r \in Made
  BY <1>1 DEF ReqInv, UisOK, Dialog
<1>3. CASE DialogShows(t)
  <2>1. PICK r : r = Head(x.shows)
    OBVIOUS
  <2>2. /\ x.shows # <<>>
        /\ inline' = [inline EXCEPT ![t] = [x EXCEPT !.open = r, !.shows = Tail(x.shows), !.loads = x.loads \cup {r}]]
        /\ UNCHANGED <<bridgeVars, pending, results, ui, windows, native, iconVars>>
    BY <1>1, <1>2, <1>3, <2>1 DEF DialogShows
  <2>3. x.shows \in Seq(Made) /\ r \in Made /\ Tail(x.shows) \in Seq(Made)
    <3>1. x.shows \in Seq(Made)
      BY DEF Dialog
    <3> QED
      BY <2>1, <2>2, <3>1, HeadTailProperties, EmptySeq
  <2>4. [x EXCEPT !.open = r, !.shows = Tail(x.shows), !.loads = x.loads \cup {r}] \in Dialog
    BY <2>3 DEF Dialog
  <2>5. UisOK'
    BY <2>2, <2>4, DialogChanges DEF bridgeVars
  <2> QED
    BY <2>2, <2>5, Untouched DEF ReqInv, bridgeVars, iconVars
<1>4. CASE DialogRefreshes(t)
  <2>1. /\ x.open # None
        /\ inline' = [inline EXCEPT ![t] = [x EXCEPT !.loads = x.loads \cup {x.open}]]
        /\ UNCHANGED <<bridgeVars, pending, results, ui, windows, native, iconVars>>
    BY <1>1, <1>2, <1>4 DEF DialogRefreshes
  <2>2. [x EXCEPT !.loads = x.loads \cup {x.open}] \in Dialog
    BY <2>1 DEF Dialog
  <2>3. UisOK'
    BY <2>1, <2>2, DialogChanges DEF bridgeVars
  <2> QED
    BY <2>1, <2>3, Untouched DEF ReqInv, bridgeVars, iconVars
<1>5. ASSUME NEW r \in Req, DialogLoaded(t, r)
      PROVE  ReqInv'
  <2>1. /\ r \in x.loads
        /\ inline' = [inline EXCEPT ![t] = [x EXCEPT !.loads = x.loads \ {r}, !.list = r]]
        /\ UNCHANGED <<bridgeVars, pending, results, ui, windows, native, iconVars>>
    BY <1>1, <1>2, <1>5 DEF DialogLoaded
  <2>2. [x EXCEPT !.loads = x.loads \ {r}, !.list = r] \in Dialog
    BY <1>2, <2>1 DEF Dialog
  <2>3. UisOK'
    BY <2>1, <2>2, DialogChanges DEF bridgeVars
  <2> QED
    BY <2>1, <2>3, Untouched DEF ReqInv, bridgeVars, iconVars
<1>6. ASSUME NEW s \in BOOLEAN, DialogCloses(t, s)
      PROVE  ReqInv'
  <2> DEFINE hit == InlinePending(x.open, t)
  <2>1. /\ x.open # None
        /\ inline' = [inline EXCEPT ![t] = [x EXCEPT !.open = None]]
        /\ pending' = Without(pending, hit)
        /\ results' = results \cup {Answer(q, q, s, x.list) : q \in hit}
        /\ UNCHANGED <<bridgeVars, ui, windows, native, iconVars>>
    BY <1>1, <1>2, <1>6 DEF DialogCloses
  <2>2. [x EXCEPT !.open = None] \in Dialog
    BY DEF Dialog
  <2>3. UisOK'
    BY <2>1, <2>2, DialogChanges DEF bridgeVars
  <2>4. \A q \in hit : q \in Made /\ reqs[q].mode = "modal"
    BY MadeFacts DEF InlinePending, ToSet
  <2> HIDE DEF hit
  <2>5. \A i \in DOMAIN pending : DocLives(pending[i], doc')
    BY <2>1 DEF ReqInv, PendOK, bridgeVars
  <2>6. PendOK' /\ \A i \in DOMAIN pending' : \E j \in DOMAIN pending : pending'[i] = pending[j]
    BY <2>1, <2>5, PendingLeaves DEF bridgeVars
  <2>7. AnswersOK'
    <3>1. \A m \in results' : m \in results \/ \E q \in hit : m = Answer(q, q, s, x.list)
      BY <2>1
    <3>2. \A q \in hit : Answer(q, q, s, x.list) \in Report /\ Answer(q, q, s, x.list).req = q
      BY <2>4 DEF Answer, Report, Dialog
    <3>3. results' \subseteq Report
      BY <3>1, <3>2 DEF ReqInv, AnswersOK
    <3>4. AnsweredByOwnPicker'
      BY <2>1, <2>4, <3>1, <3>2 DEF ReqInv, AnswersOK, AnsweredByOwnPicker, bridgeVars
    <3> QED
      BY <2>1, <3>3, <3>4, Untouched DEF AnswersOK, bridgeVars
  <2>8. IconShownForPicker'
    BY <2>1, <2>6, IconsStay DEF iconVars, bridgeVars
  <2> QED
    BY <2>1, <2>3, <2>6, <2>7, <2>8, Untouched DEF ReqInv, bridgeVars
<1> QED
  BY <1>3, <1>4, <1>5, <1>6

\* A picker page changes its state.
LEMMA PageChanges ==
  ASSUME ReqInv, UNCHANGED <<reqs, inline>>, windows' \in Nat, NEW u \in Ui, NEW x \in Page, ui' = [ui EXCEPT ![u] = x],
         x.st \in {"loading", "list", "sent"} => x.req # None
  PROVE  UisOK'
BY Untouched DEF ReqInv, UisOK

LEMMA PageKeeps ==
  ASSUME ReqInv, NEW u \in Ui,
         \/ \E b \in BOOLEAN : UiLoads(u, b) \/ UiAnswers(u, b)
         \/ UiListed(u) \/ UiConfirmed(u) \/ UiUnloads(u)
  PROVE  ReqInv'
<1>1. PICK x \in Page : x = ui[u]
  BY DEF ReqInv, UisOK
<1>2. ui \in [Ui -> Page] /\ windows \in Nat /\ (x.st \in {"loading", "list", "sent"} => x.req \in Made)
  BY <1>1 DEF ReqInv, UisOK, Page
<1>3. ASSUME NEW b \in BOOLEAN, UiLoads(u, b)
      PROVE  ReqInv'
  <2>1. PICK y : y = IF pending = <<>> THEN [st |-> "closed", req |-> None]
                                       ELSE [st |-> "loading", req |-> Head(pending)]
    OBVIOUS
  <2>2. /\ ui' = [ui EXCEPT ![u] = y]
        /\ (windows > 0 /\ windows' = windows - 1) \/ windows' = windows
        /\ UNCHANGED <<bridgeVars, pending, results, inline, native, iconVars>>
    BY <1>3, <2>1 DEF UiLoads
  <2>3. y \in Page /\ (y.st = "loading" => y.req # None)
    <3>1. CASE pending = <<>>
      BY <2>1, <3>1 DEF Page
    <3>2. CASE pending # <<>>
      <4>1. Head(pending) \in Made
        <5>1. pending \in Seq(Made)
          BY DEF ReqInv, PendOK
        <5> QED
          BY <3>2, <5>1, HeadTailProperties, EmptySeq
      <4> QED
        BY <2>1, <3>2, <4>1, MadeFacts DEF Page, None
    <3> QED
      BY <3>1, <3>2
  <2>4. y.st \in {"loading", "list", "sent"} => y.req # None
    BY <2>1, <2>3
  <2>5. windows' \in Nat
    BY <1>2, <2>2
  <2>6. UisOK'
    BY <2>2, <2>3, <2>4, <2>5, PageChanges DEF bridgeVars
  <2> QED
    BY <2>2, <2>6, Untouched DEF ReqInv, bridgeVars, iconVars
<1>4. ASSUME NEW to \in {"list", "closed", "sent"}, x.st \in {"loading", "list", "sent"},
             ui' = [ui EXCEPT ![u].st = to], UNCHANGED <<reqs, inline, windows>>
      PROVE  UisOK'
  <2>1. [x EXCEPT !.st = to] \in Page /\ [x EXCEPT !.st = to].req = x.req
    BY DEF Page
  <2>2. ui' = [ui EXCEPT ![u] = [x EXCEPT !.st = to]]
    BY <1>1, <1>2, <1>4
  <2>3. x.req # None
    BY <1>2, <1>4, MadeFacts DEF None
  <2> QED
    BY <1>2, <1>4, <2>1, <2>2, <2>3, PageChanges
<1>5. CASE UiListed(u) \/ UiConfirmed(u)
  <2>1. /\ \E to \in {"list", "closed"} : ui' = [ui EXCEPT ![u].st = to]
        /\ x.st \in {"loading", "sent"}
        /\ UNCHANGED <<bridgeVars, pending, results, inline, windows, native, iconVars>>
    BY <1>1, <1>5 DEF UiListed, UiConfirmed
  <2>2. UisOK'
    BY <1>4, <2>1 DEF bridgeVars
  <2> QED
    BY <2>1, <2>2, Untouched DEF ReqInv, bridgeVars, iconVars
<1>6. ASSUME NEW selected \in BOOLEAN, NEW to \in {"list", "closed", "sent"}, x.st \in {"loading", "list", "sent"},
             ui' = [ui EXCEPT ![u].st = to], PickerResult(x.req, selected, x.req),
             UNCHANGED <<bridgeVars, inline, windows, native>>
      PROVE  ReqInv'
  <2>1. UisOK'
    BY <1>4, <1>6 DEF bridgeVars
  <2>2. PendOK' /\ AnswersOK' /\ IconsOK' /\ IconShownForPicker'
    BY <1>2, <1>6, PageAnswers DEF bridgeVars
  <2> QED
    BY <1>6, <2>1, <2>2, Untouched DEF ReqInv, bridgeVars
<1>7. ASSUME NEW b \in BOOLEAN, UiAnswers(u, b)
      PROVE  ReqInv'
  BY <1>1, <1>6, <1>7 DEF UiAnswers
<1>8. CASE UiUnloads(u)
  BY <1>1, <1>6, <1>8 DEF UiUnloads
<1> QED
  BY <1>3, <1>5, <1>7, <1>8

LEMMA NativeKeeps ==
  ASSUME ReqInv, NEW n \in native, NativeCleared(n) \/ \E s \in BOOLEAN : NativeAnswers(n, s)
  PROVE  ReqInv'
<1>1. n \in [req : Made, st : {"waiting", "clearing", "shown"}] /\ n.req \in Made /\ TabOf(n.req) \in Tab
  BY MadeFacts DEF ReqInv, NativeOK
<1>2. CASE NativeCleared(n)
  <2>1. /\ native' \subseteq native \cup {[n EXCEPT !.st = "shown"]}
        /\ RestorePageAction(TabOf(n.req)) \/ UNCHANGED iconVars
        /\ UNCHANGED <<bridgeVars, pending, results, uiVars>>
    BY <1>2 DEF NativeCleared
  <2>2. NativeOK'
    BY <1>1, <2>1, Untouched DEF ReqInv, NativeOK, bridgeVars
  <2>3. IconsOK' /\ \A u \in Tab : chain'[u] = <<>> => chain[u] = <<>> /\ visible'[u] = visible[u]
    BY <1>1, <2>1, IconRestored DEF bridgeVars
  <2>4. IconShownForPicker'
    BY <2>1, <2>3, IconsStay DEF bridgeVars
  <2> QED
    BY <2>1, <2>2, <2>3, <2>4, Untouched DEF ReqInv, bridgeVars
<1>3. ASSUME NEW s \in BOOLEAN, NativeAnswers(n, s)
      PROVE  ReqInv'
  <2>1. /\ native' = native \ {n} /\ UNCHANGED <<bridgeVars, uiVars>>
        /\ \/ UNCHANGED <<pending, results, iconVars>>
           \/ /\ pending' = Without(pending, {n.req})
              /\ RestorePageAction(TabOf(n.req))
              /\ results' = results \/ results' = results \cup {Answer(n.req, n.req, s, n.req)}
    BY <1>3 DEF NativeAnswers
  <2>2. NativeOK'
    BY <2>1, Untouched DEF ReqInv, NativeOK, bridgeVars
  <2>3. CASE UNCHANGED <<pending, results, iconVars>>
    BY <2>1, <2>2, <2>3, Untouched DEF ReqInv, bridgeVars, iconVars
  <2>4. CASE /\ pending' = Without(pending, {n.req})
             /\ RestorePageAction(TabOf(n.req))
             /\ results' = results \/ results' = results \cup {Answer(n.req, n.req, s, n.req)}
    <3>1. \A i \in DOMAIN pending : DocLives(pending[i], doc')
      BY <2>1 DEF ReqInv, PendOK, bridgeVars
    <3>2. PendOK' /\ \A i \in DOMAIN pending' : \E j \in DOMAIN pending : pending'[i] = pending[j]
      BY <2>1, <2>4, <3>1, PendingLeaves DEF bridgeVars
    <3>3. IconsOK' /\ \A u \in Tab : chain'[u] = <<>> => chain[u] = <<>> /\ visible'[u] = visible[u]
      BY <1>1, <2>1, <2>4, IconRestored DEF bridgeVars
    <3>4. IconShownForPicker'
      BY <2>1, <3>2, <3>3, IconsStay DEF bridgeVars
    <3>5. AnswersOK'
      <4>1. PICK a : a = Answer(n.req, n.req, s, n.req)
        OBVIOUS
      <4>2. a \in Report /\ a.list = a.req
        BY <1>1, <4>1 DEF Answer, Report
      <4>3. \A m \in results' : m \in results \/ m = a
        BY <2>4, <4>1
      <4> QED
        BY <2>1, <4>2, <4>3, Untouched DEF ReqInv, AnswersOK, AnsweredByOwnPicker, bridgeVars
    <3> QED
      BY <2>1, <2>2, <3>2, <3>3, <3>4, <3>5, Untouched DEF ReqInv, bridgeVars
  <2> QED
    BY <2>1, <2>3, <2>4
<1> QED
  BY <1>2, <1>3

LEMMA ChainKeeps ==
  ASSUME ReqInv, NEW t \in Tab, ChainCalls(t) \/ ChainCalled(t) \/ MarkUsed(t)
  PROVE  ReqInv'
<1>1. PICK c \in Seq(Made \cup {None}) : c = chain[t]
  BY DEF ReqInv, IconsOK
<1>2. CASE ChainCalls(t)
  <2>1. /\ c # <<>> /\ \E v \in {"show", "hide"} : running' = [running EXCEPT ![t] = v]
        /\ UNCHANGED <<bridgeVars, pending, results, uiVars, native, popup, visible, used, chain>>
    BY <1>1, <1>2 DEF ChainCalls
  <2>2. IconsOK'
    BY <1>1, <2>1, Untouched DEF ReqInv, IconsOK, bridgeVars
  <2> QED
    BY <2>1, <2>2, Untouched DEF ReqInv, bridgeVars
<1>3. CASE MarkUsed(t)
  <2>1. /\ used' = used \cup {t} /\ chain' = [chain EXCEPT ![t] = Append(c, None)]
        /\ UNCHANGED <<bridgeVars, pending, results, uiVars, native, popup, visible, running>>
    BY <1>1, <1>3 DEF MarkUsed, Reconcile
  <2>2. Append(c, None) \in Seq(Made \cup {None}) /\ Append(c, None) # <<>>
    BY AppendProperties, EmptySeq
  <2>3. /\ chain' \in [Tab -> Seq(Made \cup {None})]
        /\ \A u \in Tab : chain'[u] = IF u = t THEN Append(c, None) ELSE chain[u]
    BY <2>1, <2>2 DEF ReqInv, IconsOK
  <2>4. IconsOK'
    BY <2>1, <2>2, <2>3, Untouched DEF ReqInv, IconsOK, bridgeVars
  <2>5. IconShownForPicker'
    BY <2>1, <2>2, <2>3, IconsStay DEF bridgeVars
  <2> QED
    BY <2>1, <2>4, <2>5, Untouched DEF ReqInv, bridgeVars
<1>4. CASE ChainCalled(t)
  <2>1. running[t] # "none" /\ c # <<>> /\ Tail(c) \in Seq(Made \cup {None})
    BY <1>1, <1>4, HeadTailProperties DEF ChainCalled, ReqInv, IconsOK
  <2>2. /\ running' = [running EXCEPT ![t] = "none"]
        /\ visible' = [visible EXCEPT ![t] = running[t] = "show"]
        /\ UNCHANGED <<bridgeVars, pending, results, uiVars, used>>
        /\ \/ ~StillDesired(t) /\ UNCHANGED <<chain, native, popup>>
           \/ /\ StillDesired(t) /\ chain' = [chain EXCEPT ![t] = Tail(c)]
              /\ \A m \in native' : m \in native \/ \E n \in native : m = [n EXCEPT !.st = "clearing"]
              /\ \E v \in {"picker", "off", popup[t]} : popup' = [popup EXCEPT ![t] = v]
    BY <1>1, <1>4 DEF ChainCalled
  <2>3. NativeOK'
    BY <2>2, Untouched, SMTT(30) DEF ReqInv, NativeOK, bridgeVars
  <2>4. /\ chain' \in [Tab -> Seq(Made \cup {None})]
        /\ \A u \in Tab : u # t => chain'[u] = chain[u] /\ visible'[u] = visible[u] /\ running'[u] = running[u]
        /\ visible'[t] = (running[t] = "show") /\ visible' \in [Tab -> BOOLEAN]
        /\ running'[t] = "none" /\ running' \in [Tab -> {"none", "show", "hide"}]
        /\ chain'[t] = <<>> => StillDesired(t)
    BY <1>1, <2>1, <2>2, ZenonT(40) DEF ReqInv, IconsOK
  <2>5. popup' \in [Tab -> {"popup", "picker", "off"}]
    <3>1. popup \in [Tab -> {"popup", "picker", "off"}]
      BY DEF ReqInv, IconsOK
    <3> QED
      BY <2>2, <3>1
  <2>6. IconsOK'
    BY <2>2, <2>4, <2>5, Untouched DEF ReqInv, IconsOK, bridgeVars
  <2>7. IconShownForPicker'
    <3> SUFFICES ASSUME NEW u \in Tab, chain'[u] = <<>>,
                        NEW i \in DOMAIN pending', TabOf(pending'[i]) = u, Asks(pending'[i])
                 PROVE  visible'[u]
      BY <2>2 DEF IconShownForPicker, TabOf, Asks, bridgeVars
    <3>1. i \in DOMAIN pending /\ pending'[i] = pending[i]
      BY <2>2
    <3>2. CASE u # t
      BY <2>4, <3>1, <3>2 DEF ReqInv, IconShownForPicker, Asks
    <3>3. CASE u = t
      <4>1. Desired(t, pending)
        BY <3>1, <3>3 DEF Desired, Asks
      <4> QED
        BY <2>4, <3>3, <4>1 DEF StillDesired
    <3> QED
      BY <3>2, <3>3
  <2> QED
    BY <2>2, <2>3, <2>6, <2>7, Untouched DEF ReqInv, bridgeVars
<1> QED
  BY <1>2, <1>3, <1>4

\* A request is made: the ones before it stay as they were, and its entry takes
\* the place of its tab's.
LEMMA ShowPickerKeeps ==
  ASSUME ReqInv, NEW p \in Place, NEW m \in Modes, ShowPicker(p, m)
  PROVE  ReqInv'
<1>1. PICK r, x, all : r = Len(reqs) + 1 /\ x = [at |-> p, doc |-> doc[p], mode |-> m] /\ all = Append(reqs, x)
  OBVIOUS
<1>2. /\ r \in Req /\ reqs' = all /\ waiting' = waiting \cup {r} /\ pending' = Put(pending, r, p.tab, all)
      /\ StartPicker(r, p.tab, m)
      /\ UNCHANGED <<doc, outcome, results, ui, popup, visible, used, running>>
  BY <1>1 DEF ShowPicker
<1>3. PICK M, W : M = Made /\ W = Made'
  OBVIOUS
<1>4. /\ reqs' \in Seq(Request) /\ W = M \cup {r} /\ r \notin M /\ r # 0 /\ M \subseteq W /\ r \in W
      /\ reqs'[r] = x /\ \A q \in M : reqs'[q] = reqs[q]
  <2>1. reqs \in Seq(Request) /\ Len(reqs) \in Nat /\ M = 1..Len(reqs)
    BY <1>3, MadeFacts DEF ReqInv
  <2>2. x \in Request
    BY <1>1 DEF ReqInv, BridgeOK, Request
  <2>3. /\ reqs' \in Seq(Request) /\ Len(reqs') = Len(reqs) + 1
        /\ reqs'[r] = x /\ \A q \in 1..Len(reqs) : reqs'[q] = reqs[q]
    BY <1>1, <1>2, <2>1, <2>2, AppendProperties
  <2>4. W = 1..Len(reqs')
    BY <1>3, <2>3, LenProperties DEF Made
  <2> QED
    BY <1>1, <2>1, <2>3, <2>4
<1>5. /\ \A q \in M : TabOf(q)' = TabOf(q) /\ (DocLives(q, doc))' = DocLives(q, doc) /\ Asks(q)' = Asks(q)
      /\ TabOf(r)' = p.tab /\ (DocLives(r, doc))' /\ (Asks(r)' => m \in {"pageAction", "privileged"})
      /\ p.tab \in Tab
  <2>1. doc' = doc /\ x.at = p /\ x.doc = doc[p] /\ x.mode = m
    BY <1>1, <1>2
  <2>2. \A q \in M : TabOf(q)' = TabOf(q) /\ Asks(q)' = Asks(q)
    BY <1>4 DEF TabOf, Asks
  <2>3. \A q \in M : (DocLives(q, doc))' = DocLives(q, doc)
    BY <1>4, <2>1 DEF DocLives
  <2>4. TabOf(r)' = p.tab /\ (Asks(r)' => m \in {"pageAction", "privileged"})
    BY <1>4, <2>1 DEF TabOf, Asks
  <2>5. (DocLives(r, doc))'
    BY <1>4, <2>1 DEF DocLives
  <2> QED
    BY <2>2, <2>3, <2>4, <2>5 DEF Tab
<1>6. BridgeOK'
  BY <1>2, <1>3, <1>4 DEF ReqInv, BridgeOK
<1>7. \A q \in DOMAIN pending : pending[q] \in M
  BY <1>3, MadeFacts
<1>8. /\ pending' \in Seq(W)
      /\ \A i \in DOMAIN pending' :
           \/ pending'[i] = r
           \/ i \in DOMAIN pending /\ pending'[i] = pending[i] /\ TabOf(pending[i]) # p.tab
      /\ \A i, j \in DOMAIN pending' : pending'[i] = r /\ pending'[j] = r => i = j
  <2> DEFINE at == {i \in DOMAIN pending : all[pending[i]].at.tab = p.tab}
  <2>1. \A i \in DOMAIN pending : i \in at <=> TabOf(pending[i]) = p.tab
    BY <1>2, <1>4, <1>7 DEF TabOf
  <2>2. pending \in Seq(M) /\ Len(pending) \in Nat /\ DOMAIN pending = 1..Len(pending)
    BY <1>3, LenProperties DEF ReqInv, PendOK
  <2>3. CASE at = {}
    <3>1. pending' = Append(pending, r)
      BY <1>2, <2>3 DEF Put
    <3>2. pending \in Seq(W)
      BY <1>4, <2>2, WiderSeq
    <3>3. /\ pending' \in Seq(W) /\ Len(pending') = Len(pending) + 1 /\ pending'[Len(pending) + 1] = r
          /\ \A i \in 1..Len(pending) : pending'[i] = pending[i]
      BY <1>4, <3>1, <3>2, AppendProperties
    <3>4. DOMAIN pending' = 1..(Len(pending) + 1)
      BY <3>3, LenProperties
    <3>5. \A i \in DOMAIN pending' : i = Len(pending) + 1 \/ i \in DOMAIN pending
      BY <2>2, <3>4
    <3> QED
      BY <1>4, <1>7, <2>1, <2>2, <2>3, <3>3, <3>5, SMTT(30)
  <2>4. CASE at # {}
    <3>1. pending' = [i \in DOMAIN pending |-> IF i \in at THEN r ELSE pending[i]]
      BY <1>2, <2>4 DEF Put
    <3>2. \A i \in 1..Len(pending) : pending'[i] \in W
      BY <1>4, <1>7, <2>2, <3>1
    <3>3. pending' \in Seq(W)
      <4>1. pending' \in [1..Len(pending) -> W]
        BY <2>2, <3>1, <3>2
      <4> QED
        BY <2>2, <4>1, SeqDef
    <3>4. \A i \in DOMAIN pending' : i \in DOMAIN pending /\ pending'[i] = IF i \in at THEN r ELSE pending[i]
      BY <3>1
    <3>5. \A i, j \in DOMAIN pending : i \in at /\ j \in at => i = j
      BY <2>1 DEF ReqInv, PendOK
    <3>6. \A i \in DOMAIN pending : pending[i] # r
      BY <1>4, <1>7
    <3> HIDE DEF at
    <3>7. \A i \in DOMAIN pending' : pending'[i] = r => i \in at
      BY <3>4, <3>6
    <3>8. \A i, j \in DOMAIN pending' : pending'[i] = r /\ pending'[j] = r => i = j
      BY <3>4, <3>5, <3>7
    <3> QED
      BY <2>1, <3>3, <3>4, <3>8
  <2> QED
    BY <2>3, <2>4
<1>9. PendOK'
  <2>1. \A i \in DOMAIN pending' : (DocLives(pending[i], doc))'
    BY <1>5, <1>7, <1>8 DEF ReqInv, PendOK
  <2>2. \A i, j \in DOMAIN pending' : TabOf(pending[i])' = TabOf(pending[j])' => i = j
    BY <1>5, <1>7, <1>8 DEF ReqInv, PendOK
  <2>3. (pending \in Seq(Made))'
    BY <1>3, <1>8
  <2> QED
    BY <2>1, <2>2, <2>3 DEF PendOK
<1>10. AnswersOK'
  <2>1. \A y \in results : y \in Report /\ y \in Report' /\ y.req \in M
    BY <1>3, <1>4 DEF ReqInv, AnswersOK, Report
  <2>2. results' \subseteq Report'
    BY <1>2, <2>1
  <2>3. AnsweredByOwnPicker'
    BY <1>2, <1>4, <2>1 DEF ReqInv, AnswersOK, AnsweredByOwnPicker
  <2> QED
    BY <2>2, <2>3 DEF AnswersOK
<1>11. UisOK'
  <2>1. ASSUME NEW y \in Dialog
        PROVE  y \in Dialog' /\ [y EXCEPT !.shows = Append(y.shows, r)] \in Dialog'
    <3>1. y.shows \in Seq(M) /\ y.open \in M \cup {None} /\ y.list \in M \cup {None} /\ y.loads \in SUBSET M
          /\ y = [shows |-> y.shows, open |-> y.open, list |-> y.list, loads |-> y.loads]
      BY <1>3 DEF Dialog
    <3>2. y.shows \in Seq(W) /\ Append(y.shows, r) \in Seq(W)
      <4>1. y.shows \in Seq(W)
        BY <1>4, <3>1, WiderSeq
      <4> QED
        BY <1>4, <4>1, AppendProperties
    <3>3. Dialog' = [shows : Seq(W), open : W \cup {None}, list : W \cup {None}, loads : SUBSET W]
      BY <1>3 DEF Dialog
    <3>4. y.open \in W \cup {None} /\ y.list \in W \cup {None} /\ y.loads \in SUBSET W
      BY <1>4, <3>1
    <3> QED
      BY <3>1, <3>2, <3>3, <3>4
  <2>2. inline' \in [Tab -> Dialog']
    <3>1. inline \in [Tab -> Dialog]
      BY DEF ReqInv, UisOK
    <3>2. CASE m = "modal"
      <4>1. PICK y \in Dialog : y = inline[p.tab]
        BY <1>5, <3>1
      <4>2. inline' = [inline EXCEPT ![p.tab] = [y EXCEPT !.shows = Append(y.shows, r)]]
        BY <1>2, <1>5, <3>1, <3>2, <4>1 DEF StartPicker
      <4>3. PICK z \in Dialog' : z = [y EXCEPT !.shows = Append(y.shows, r)]
        BY <2>1
      <4>4. \A t \in Tab : inline[t] \in Dialog'
        BY <2>1, <3>1
      <4> QED
        BY <3>1, <4>2, <4>3, <4>4
    <3>3. CASE m # "modal"
      BY <1>2, <2>1, <3>1, <3>3 DEF StartPicker
    <3> QED
      BY <3>2, <3>3
  <2>3. ui' \in [Ui -> Page'] /\ \A u \in Ui : ui'[u].st \in {"loading", "list", "sent"} => ui'[u].req # None
    <3>1. \A y \in Page : y \in Page'
      BY <1>3, <1>4 DEF Page
    <3> QED
      BY <1>2, <3>1 DEF ReqInv, UisOK
  <2>4. windows' \in Nat
    BY <1>2 DEF StartPicker, ReqInv, UisOK
  <2> QED
    BY <2>2, <2>3, <2>4 DEF UisOK
<1>12. NativeOK'
  <2>1. \A n \in native' : n \in native \/ n = [req |-> r, st |-> "waiting"]
    BY <1>2 DEF StartPicker
  <2>2. \A n \in native : n \in [req : W, st : {"waiting", "clearing", "shown"}]
    BY <1>3, <1>4 DEF ReqInv, NativeOK
  <2> QED
    BY <1>3, <1>4, <2>1, <2>2 DEF NativeOK
<1>13. PICK t, c : t = p.tab /\ c = chain[t] /\ t \in Tab /\ c \in Seq(M \cup {None})
  BY <1>3, <1>5 DEF ReqInv, IconsOK
<1>14. \A u \in Tab : chain[u] \in Seq(W \cup {None})
  <2>1. \A u \in Tab : chain[u] \in Seq(M \cup {None})
    BY <1>3 DEF ReqInv, IconsOK
  <2>2. M \cup {None} \subseteq W \cup {None}
    BY <1>4
  <2> QED
    BY <2>1, <2>2, WiderSeq
<1>15. Append(c, r) \in Seq(W \cup {None}) /\ Append(c, r) # <<>>
  <2>1. c \in Seq(W \cup {None}) /\ r \in W \cup {None}
    BY <1>4, <1>13, <1>14
  <2> QED
    BY <2>1, AppendProperties, EmptySeq
<1>16. /\ chain' \in [Tab -> Seq(W \cup {None})]
       /\ \A u \in Tab : chain'[u] = <<>> => chain[u] = <<>>
       /\ m \in {"pageAction", "privileged"} => chain'[t] # <<>>
  <2>1. chain' = IF m \in {"pageAction", "privileged"} THEN [chain EXCEPT ![t] = Append(c, r)] ELSE chain
    BY <1>2, <1>13 DEF StartPicker
  <2>2. DOMAIN chain = Tab /\ chain = [u \in Tab |-> chain[u]]
    BY DEF ReqInv, IconsOK
  <2> QED
    BY <1>13, <1>14, <1>15, <2>1, <2>2
<1>17. IconsOK'
  BY <1>2, <1>3, <1>16 DEF ReqInv, IconsOK
<1>18. IconShownForPicker'
  <2> SUFFICES ASSUME NEW u \in Tab, chain'[u] = <<>>,
                      NEW i \in DOMAIN pending', TabOf(pending[i])' = u, Asks(pending[i])'
               PROVE  visible'[u]
    BY DEF IconShownForPicker, TabOf, Asks
  <2>1. CASE pending'[i] = r
    BY <1>5, <1>13, <1>16, <2>1
  <2>2. CASE i \in DOMAIN pending /\ pending'[i] = pending[i]
    <3>1. TabOf(pending[i]) = u /\ Asks(pending[i])
      BY <1>5, <1>7, <2>2
    <3> QED
      BY <1>2, <1>16, <2>2, <3>1 DEF ReqInv, IconShownForPicker, TabOf, Asks
  <2> QED
    BY <1>8, <2>1, <2>2
<1> QED
  BY <1>4, <1>6, <1>9, <1>10, <1>11, <1>12, <1>17, <1>18 DEF ReqInv

LEMMA ReqStep == ReqInv /\ [Next]_vars => ReqInv'
<1> SUFFICES ASSUME ReqInv, [Next]_vars PROVE ReqInv'
  OBVIOUS
<1>1. ASSUME NEW p \in Place, Reload(p)
      PROVE  ReqInv'
  BY <1>1, ReloadKeeps
<1>2. ASSUME NEW p \in Place, NEW m \in Modes, ShowPicker(p, m)
      PROVE  ReqInv'
  BY <1>2, ShowPickerKeeps
<1>3. ASSUME NEW r \in Req, PickerTimeout(r)
      PROVE  ReqInv'
  BY <1>3, TimeoutKeeps
<1>4. ASSUME NEW m \in results, ResultArrives(m)
      PROVE  ReqInv'
  BY <1>4, ResultKeeps
<1>5. ASSUME NEW t \in Tab,
             \/ DialogShows(t) \/ DialogRefreshes(t) \/ \E r \in Req : DialogLoaded(t, r)
             \/ \E s \in BOOLEAN : DialogCloses(t, s)
      PROVE  ReqInv'
  BY <1>5, DialogKeeps
<1>6. ASSUME NEW t \in Tab, ChainCalls(t) \/ ChainCalled(t) \/ MarkUsed(t)
      PROVE  ReqInv'
  BY <1>6, ChainKeeps
<1>7. ASSUME NEW u \in Ui,
             \/ \E b \in BOOLEAN : UiLoads(u, b) \/ UiAnswers(u, b)
             \/ UiListed(u) \/ UiConfirmed(u) \/ UiUnloads(u)
      PROVE  ReqInv'
  BY <1>7, PageKeeps
<1>8. ASSUME NEW n \in native, NativeCleared(n) \/ \E s \in BOOLEAN : NativeAnswers(n, s)
      PROVE  ReqInv'
  BY <1>8, NativeKeeps
<1>9. CASE UNCHANGED vars
  BY <1>9, Untouched DEF ReqInv, vars, bridgeVars, uiVars, iconVars
<1> QED
  BY <1>1, <1>2, <1>3, <1>4, <1>5, <1>6, <1>7, <1>8, <1>9 DEF Next

LEMMA ReqInvIsInvariant == PickersSpec => []ReqInv
<1>1. PickersInit => ReqInv
  BY ReqInit DEF PickersInit
<1>2. ReqInv /\ [PickersNext]_PickersVars => ReqInv'
  <2> SUFFICES ASSUME ReqInv, [PickersNext]_PickersVars PROVE ReqInv'
    OBVIOUS
  <2>1. [Next]_vars
    BY DEF PickersNext, PickersVars
  <2> QED
    BY <2>1, ReqStep
<1> QED
  BY <1>1, <1>2, PTL DEF PickersSpec

\* pendingPicker holds one request of a tab, and none whose document is gone or
\* whose dialog is, whatever reloads, timeouts and answers come between
\* (messages.js:172-177, 1613-1636, 1733-1766, 1973-1975).
THEOREM PendingStaysLive == PickersSpec => []PendingIsLive
<1>1. ReqInv => PendingIsLive
  <2> SUFFICES ASSUME ReqInv PROVE PendingIsLive
    OBVIOUS
  <2>1. TypeOK
    <3>1. /\ reqs \in Seq(Request) /\ BridgeOK /\ PendOK /\ AnswersOK /\ UisOK /\ NativeOK /\ IconsOK
      BY DEF ReqInv
    <3> QED
      BY <3>1 DEF TypeOK, Request, BridgeOK, PendOK, AnswersOK, UisOK, NativeOK, IconsOK, Report, Dialog, Page
  <2> QED
    BY <2>1 DEF ReqInv, PendOK, PendingIsLive
<1> QED
  BY <1>1, ReqInvIsInvariant, PTL

\* A page hears of a choice only from the picker page or doorhanger its own
\* request opened, and once its reconciles have run a tab shows the icon a
\* pending picker needs (messages.js:1607-1640, 1960-1990).
THEOREM PickersAlwaysMatch == PickersSpec => []PickersMatch
<1>1. ReqInv => PickersMatch
  BY DEF ReqInv, AnswersOK, PickersMatch
<1> QED
  BY <1>1, ReqInvIsInvariant, PTL
=============================================================================
