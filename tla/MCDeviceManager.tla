--------------------------- MODULE MCDeviceManager ---------------------------
(* Small instances of DeviceManager for TLC. *)
EXTENDS DeviceManager, TLC

\* Tokens are random, lifetimes anonymous and clients alike.
Symmetry == Permutations(Token) \cup Permutations(Life) \cup Permutations(Client)

\* Liveness cannot be checked under SYMMETRY.  Drawing tokens and lifetimes in
\* a fixed order, the first token by a fixed client, leaves out only renamings
\* of the behaviours kept.
DrawnInOrder ==
  /\ \A t \in usedTokens' \ usedTokens : t = CHOOSE x \in Token : x \notin usedTokens
  /\ usedTokens = {} /\ usedTokens' # {} => task'[CHOOSE c \in Client : TRUE].token # None
  /\ \A l \in Life : phase[l] = "free" /\ phase'[l] # "free" =>
       l = CHOOSE x \in Life : phase[x] = "free"

OrderedFairSpec == Init /\ [][Next /\ DrawnInOrder]_vars /\ Fairness
=============================================================================
