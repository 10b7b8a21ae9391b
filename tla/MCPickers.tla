------------------------------ MODULE MCPickers ------------------------------
(***************************************************************************)
(* The pickers: requestDevice() in frames of one tab, in two tabs, and the *)
(* doorhanger controller the privileged mode hands its requests to.  A     *)
(* behaviour is about one of them; the controller knows nothing of a  *)
(* request but its key.                                                    *)
(***************************************************************************)
EXTENDS PickerRequests

CONSTANTS Key, MaxEntry, k1, k2

ASSUME EntryAssumption == MaxEntry \in Nat

VARIABLES key, helper, asked, stale, requests, queue, active, anchoring, shown, list, result,
          pumping, destroyed, part

N == INSTANCE NativePicker

doorVars == <<key, helper, asked, stale, requests, queue, active, anchoring, shown, list, result,
              pumping, destroyed>>

Top == [tab |-> 1, frame |-> 0]
Child == [tab |-> 1, frame |-> 1]
OtherTop == [tab |-> 2, frame |-> 0]
Places == {Top, Child, OtherTop}

\* What a part explores: the frames that ask, in which modes, the documents
\* each of them loads, the picker pages opened.
Scope ==
  [frames |-> [places |-> {Top, Child}, modes |-> {"modal", "pageAction"}, docs |-> 1, pages |-> 1],
   reloads |-> [places |-> {Top, Child}, modes |-> {"pageAction", "privileged"}, docs |-> 2, pages |-> 0],
   tabs |-> [places |-> {Top, OtherTop}, modes |-> {"pageAction"}, docs |-> 1, pages |-> 1],
   windows |-> [places |-> {Top, OtherTop}, modes |-> {"window"}, docs |-> 1, pages |-> 2]]

InScope ==
  LET s == Scope[part]
  IN  /\ \A i \in DOMAIN reqs' : reqs'[i].at \in s.places /\ reqs'[i].mode \in s.modes
      /\ \A p \in Place : doc'[p] <= s.docs
      /\ \A u \in Ui : ui'[u].st # "none" => u <= s.pages
      /\ used' \subseteq {p.tab : p \in s.places}

PickersInit == Init /\ N!Init /\ part \in DOMAIN Scope \cup {"doorhanger"}

PickersNext ==
  /\ UNCHANGED part
  /\ \/ part # "doorhanger" /\ Next /\ InScope /\ UNCHANGED doorVars
     \/ part = "doorhanger" /\ N!Next /\ UNCHANGED vars

PickersVars == <<vars, doorVars, part>>

\* The browser answers its calls; promises resolve, the anchor is looked for 12
\* times at most, and the user answers a doorhanger in the end.
PickersSpec ==
  /\ PickersInit /\ [][PickersNext]_PickersVars
  /\ WF_PickersVars(part # "doorhanger" /\ UNCHANGED doorVars /\ UNCHANGED part
                    /\ \E t \in Tab : ChainCalls(t) \/ ChainCalled(t))
  /\ WF_PickersVars(part = "doorhanger" /\ UNCHANGED vars /\ UNCHANGED part
                    /\ N!Progress)

\* One doorhanger at a time, no request lost: NativePicker's invariants.
DoorhangerServes == N!Served

\* The page action's chains come to an end, and so does every doorhanger if
\* users answer those they see.
PickersEnd == ChainEnds /\ N!PickerEnds
===============================================================================
