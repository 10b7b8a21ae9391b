------------------------- MODULE PickerRequests -------------------------
(***************************************************************************)
(* requestDevice() from the page to the chooser and back, for the four     *)
(* picker modes: the bridge's handler and its 30 s timer, pendingPicker of *)
(* the background (one request per tab, in order of insertion), the inline *)
(* dialog of the top frame, the picker pages of page action and windows,   *)
(* the start and end of the privileged picker (its inside is NativePicker) *)
(* and the chains that reconcile the page action.  A list of devices is    *)
(* named by the request whose filters it was asked with.                   *)
(***************************************************************************)
EXTENDS Naturals, SequencesExt, Lists

CONSTANTS
  Place,     \* [tab, frame] of each frame; frame 0 is a tab's top frame
  Modes,     \* the settings devicePickerMode may take
  MaxReq,    \* requests made
  MaxUi,     \* picker pages opened
  MaxDoc     \* documents each frame loads

ASSUME PlaceAssumption == \A p \in Place : {"tab", "frame"} = DOMAIN p
ASSUME ModeAssumption == Modes \subseteq {"modal", "pageAction", "window", "privileged"}
ASSUME BoundAssumption == MaxReq \in Nat /\ MaxUi \in Nat /\ MaxDoc \in Nat

None == 0
Req == 1..MaxReq
Ui == 1..MaxUi
Tab == {p.tab : p \in Place}

VARIABLES
  doc,      \* frame -> its document
  reqs,     \* request -> [at, doc, mode], in order
  waiting,  \* requests with a handler and a timer in their bridge
  outcome,  \* request -> what the page was told
  pending,  \* pendingPicker: requests, in order of insertion
  results,  \* pickerResult messages on their way to a bridge
  inline,   \* tab -> the dialog: [shows, open, list, loads]
  ui,       \* picker page -> [st, req]
  windows,  \* picker windows being created
  native,   \* privileged requests that wait, clear the popup, are shown
  popup,    \* tab -> the page action's popup
  visible,  \* tab -> is the page action shown
  used,     \* usedTabs
  chain,    \* tab -> reconciles queued: the opener's request or None
  running   \* tab -> the call of the chain's head

bridgeVars == <<doc, reqs, waiting, outcome>>
uiVars == <<inline, ui, windows>>
iconVars == <<popup, visible, used, chain, running>>
vars == <<bridgeVars, pending, results, uiVars, native, iconVars>>

Made == DOMAIN reqs
TabOf(r) == reqs[r].at.tab
Holds(r, pend) == \E i \in DOMAIN pend : pend[i] = r
DocLives(r, d) == d[reqs[r].at] = reqs[r].doc
NoDialog == [shows |-> <<>>, open |-> None, list |-> None, loads |-> {}]

\* pageActionDesired (hidePageAction off).
Desired(t, pend) ==
  \/ t \in used
  \/ \E i \in DOMAIN pend :
       TabOf(pend[i]) = t /\ reqs[pend[i]].mode \in {"pageAction", "privileged"}

\* pageActionVisibility.reconcile, and what its caller does when it is done.
Reconcile(t, opener) == chain' = [chain EXCEPT ![t] = Append(@, opener)]

\* restorePageAction and restorePrivilegedPageAction.
RestorePageAction(t) ==
  /\ Reconcile(t, None)
  /\ popup' = [popup EXCEPT ![t] = "popup"]
  /\ UNCHANGED <<visible, used, running>>

\* postToContentPort(req.port, pickerResult).
Answer(r, id, selected, list) == [port |-> r, req |-> id, selected |-> selected, list |-> list]

\* (wrong variant) whoever is pending gets the answer.
PickerResultToPending(id, selected, list) ==
  LET t == TabOf(id)
      hit == {r \in ToSet(pending) : TabOf(r) = t}
  IN  /\ pending' = Without(pending, hit)
      /\ results' = results \cup {Answer(r, r, selected, list) : r \in hit}
      /\ IF \E r \in hit : reqs[r].mode = "pageAction" THEN RestorePageAction(t) ELSE UNCHANGED iconVars

\* handlePickerResult: the tab's request goes, and its port is told of the one
\* the picker page was opened for.
PickerResult(id, selected, list) ==
  LET t == TabOf(id)
      hit == {r \in ToSet(pending) : TabOf(r) = t}
  IN  /\ pending' = Without(pending, hit)
      /\ results' = results \cup {Answer(r, id, selected, list) : r \in hit}
      /\ IF \E r \in hit : reqs[r].mode = "pageAction" THEN RestorePageAction(t) ELSE UNCHANGED iconVars

-----------------------------------------------------------------------------
(* The page and its bridge *)

\* openPickerPageAction, openPickerWindow, startPrivilegedPicker.
StartPicker(r, t, mode) ==
  /\ windows' = IF mode = "window" THEN windows + 1 ELSE windows
  /\ native' = IF mode = "privileged" THEN native \cup {[req |-> r, st |-> "waiting"]} ELSE native
  /\ chain' = IF mode \in {"pageAction", "privileged"}
              THEN [chain EXCEPT ![t] = Append(@, r)] ELSE chain
  /\ inline' = IF mode = "modal" THEN [inline EXCEPT ![t].shows = Append(@, r)] ELSE inline

\* Map.set: a tab that is there keeps its place.
Put(pend, r, t, all) ==
  LET at == {i \in DOMAIN pend : all[pend[i]].at.tab = t}
  IN  IF at = {} THEN Append(pend, r)
      ELSE [i \in DOMAIN pend |-> IF i \in at THEN r ELSE pend[i]]

\* handleRequestDeviceRequest and handleShowPicker: a request that is pending
\* for the tab is replaced.
ShowPicker(p, mode) ==
  LET r == Len(reqs) + 1
      all == Append(reqs, [at |-> p, doc |-> doc[p], mode |-> mode])
  IN  /\ r \in Req
      /\ reqs' = all
      /\ waiting' = waiting \cup {r}
      /\ pending' = Put(pending, r, p.tab, all)
      /\ StartPicker(r, p.tab, mode)
      /\ UNCHANGED <<doc, outcome, results, ui, popup, visible, used, running>>

\* handleCancelPicker compares the request with the pending one.
CancelHits(r) == {q \in ToSet(pending) : q = r}

\* The bridge's timer: the page is told, the background withdraws the request.
PickerTimeout(r) ==
  /\ r \in waiting
  /\ waiting' = waiting \ {r}
  /\ outcome' = [outcome EXCEPT ![r] = "cancelled"]
  /\ LET hit == CancelHits(r)
     IN  /\ pending' = Without(pending, hit)
         /\ native' = {n \in native : n.req \notin hit \/ n.st # "shown"}
         /\ IF \E q \in hit : reqs[q].mode \in {"pageAction", "privileged"}
            THEN RestorePageAction(TabOf(r)) ELSE UNCHANGED iconVars
  /\ UNCHANGED <<doc, reqs, results, uiVars>>

\* onPickerResult: a message without a handler is ignored.
ResultArrives(m) ==
  /\ m \in results
  /\ results' = results \ {m}
  /\ LET meant == m.req \in waiting /\ DocLives(m.port, doc)
                  /\ reqs[m.req].at = reqs[m.port].at /\ reqs[m.req].doc = reqs[m.port].doc
     IN  IF meant
         THEN /\ waiting' = waiting \ {m.req}
              /\ outcome' = [outcome EXCEPT ![m.req] = IF m.selected THEN "granted" ELSE "cancelled"]
         ELSE UNCHANGED <<waiting, outcome>>
  /\ UNCHANGED <<doc, reqs, pending, uiVars, native, iconVars>>

\* (wrong variant) only what the frame shows is cleared, not what it asked for.
ShownOnly(pend, d, tops) ==
  Without(pend, {r \in ToSet(pend) : reqs[r].mode = "modal" /\ TabOf(r) \in tops})

\* clearPendingPickerForEndpoint: requests of the frame, and those shown in it.
Surviving(pend, d, tops) ==
  Without(pend, {r \in ToSet(pend) :
                   ~DocLives(r, d) \/ (reqs[r].mode = "modal" /\ TabOf(r) \in tops)})

\* A frame loads another document, and with a top frame its subframes; the
\* browser resets the page action of a tab that navigates.
Reload(p) ==
  LET goes == {q \in Place : q = p \/ (p.frame = 0 /\ q.tab = p.tab)}
      d == [q \in Place |-> IF q \in goes THEN doc[q] + 1 ELSE doc[q]]
      tops == IF p.frame = 0 THEN {p.tab} ELSE {}
      left == Surviving(pending, d, tops)
      gone == ToSet(pending) \ ToSet(left)
      priv == \E r \in gone : reqs[r].mode = "privileged"
  IN  /\ doc[p] < MaxDoc
      /\ doc' = d
      /\ waiting' = {r \in waiting : DocLives(r, d)}
      /\ pending' = left
      /\ native' = {n \in native : n.req \notin gone \/ n.st # "shown"}
      /\ inline' = [t \in Tab |-> IF t \in tops THEN NoDialog ELSE inline[t]]
      /\ IF p.frame = 0
         THEN /\ popup' = [popup EXCEPT ![p.tab] = "popup"]
              /\ visible' = [visible EXCEPT ![p.tab] = FALSE]
              /\ chain' = IF priv THEN [chain EXCEPT ![p.tab] = Append(@, None)] ELSE chain
              /\ UNCHANGED <<used, running>>
         ELSE IF priv THEN RestorePageAction(p.tab) ELSE UNCHANGED iconVars
      /\ UNCHANGED <<reqs, outcome, results, ui, windows>>

-----------------------------------------------------------------------------
(* The inline dialog: WebHidDevicePicker of the top frame *)

\* show, once the one before it was answered; the list is not cleared.
DialogShows(t) ==
  /\ inline[t].open = None /\ inline[t].shows # <<>>
  /\ LET r == Head(inline[t].shows)
     IN inline' = [inline EXCEPT ![t].open = r, ![t].shows = Tail(@), ![t].loads = @ \cup {r}]
  /\ UNCHANGED <<bridgeVars, pending, results, ui, windows, native, iconVars>>

\* loadDevices has its answer and renders it, whoever is shown now.
DialogLoaded(t, r) ==
  /\ r \in inline[t].loads
  /\ inline' = [inline EXCEPT ![t].loads = @ \ {r}, ![t].list = r]
  /\ UNCHANGED <<bridgeVars, pending, results, ui, windows, native, iconVars>>

\* refreshDevices: a device came or went.
DialogRefreshes(t) ==
  /\ inline[t].open # None
  /\ inline' = [inline EXCEPT ![t].loads = @ \cup {inline[t].open}]
  /\ UNCHANGED <<bridgeVars, pending, results, ui, windows, native, iconVars>>

\* handleInlinePickerResult finds the request by its id and checks the port.
InlinePending(r, t) == {q \in ToSet(pending) : q = r /\ reqs[q].mode = "modal"}

\* The dialog's close event, show's answer and handleInlinePickerResult.
DialogCloses(t, selected) ==
  LET r == inline[t].open
      hit == InlinePending(r, t)
  IN  /\ r # None
      /\ selected => inline[t].list # None
      /\ inline' = [inline EXCEPT ![t].open = None]
      /\ pending' = Without(pending, hit)
      /\ results' = results \cup {Answer(q, q, selected, inline[t].list) : q \in hit}
      /\ UNCHANGED <<bridgeVars, ui, windows, native, iconVars>>

-----------------------------------------------------------------------------
(* The picker page, in the page action's popup or a window *)

\* loadPending: the page takes the first request of any tab.
UiLoads(u, inWindow) ==
  /\ ui[u].st = "none"
  /\ IF inWindow THEN windows > 0 /\ windows' = windows - 1
     ELSE (\E t \in Tab : popup[t] = "picker") /\ UNCHANGED windows
  /\ ui' = [ui EXCEPT ![u] = IF pending = <<>> THEN [st |-> "closed", req |-> None]
                             ELSE [st |-> "loading", req |-> Head(pending)]]
  /\ UNCHANGED <<bridgeVars, pending, results, inline, native, iconVars>>

UiListed(u) ==
  /\ ui[u].st = "loading"
  /\ ui' = [ui EXCEPT ![u].st = "list"]
  /\ UNCHANGED <<bridgeVars, pending, results, inline, windows, native, iconVars>>

\* Connect and Cancel; the page stays until it has its answer.
UiAnswers(u, selected) ==
  /\ ui[u].st = "list" \/ (~selected /\ ui[u].st = "loading")
  /\ ui' = [ui EXCEPT ![u].st = "sent"]
  /\ PickerResult(ui[u].req, selected, ui[u].req)
  /\ UNCHANGED <<bridgeVars, inline, windows, native>>

UiConfirmed(u) ==
  /\ ui[u].st = "sent"
  /\ ui' = [ui EXCEPT ![u].st = "closed"]
  /\ UNCHANGED <<bridgeVars, pending, results, inline, windows, native, iconVars>>

\* unload: a page whose request is set answers for it, once more perhaps.
UiUnloads(u) ==
  /\ ui[u].st \in {"loading", "list", "sent"}
  /\ ui' = [ui EXCEPT ![u].st = "closed"]
  /\ PickerResult(ui[u].req, FALSE, ui[u].req)
  /\ UNCHANGED <<bridgeVars, inline, windows, native>>

-----------------------------------------------------------------------------
(* The privileged picker and the page action *)

\* setPopup('') was answered: show, if the request is still the pending one.
NativeCleared(n) ==
  /\ n \in native /\ n.st = "clearing"
  /\ IF Holds(n.req, pending)
     THEN native' = (native \ {n}) \cup {[n EXCEPT !.st = "shown"]} /\ UNCHANGED iconVars
     ELSE native' = native \ {n} /\ RestorePageAction(TabOf(n.req))
  /\ UNCHANGED <<bridgeVars, pending, results, uiVars>>

\* finishPrivilegedPicker: nobody is told when the document has gone.
NativeAnswers(n, selected) ==
  /\ n \in native /\ n.st = "shown"
  /\ native' = native \ {n}
  /\ IF Holds(n.req, pending)
     THEN /\ pending' = Without(pending, {n.req})
          /\ RestorePageAction(TabOf(n.req))
          /\ results' = IF DocLives(n.req, doc)
                        THEN results \cup {Answer(n.req, n.req, selected, n.req)} ELSE results
     ELSE UNCHANGED <<pending, results, iconVars>>
  /\ UNCHANGED <<bridgeVars, uiVars>>

\* The chain's head shows or hides the icon.
ChainCalls(t) ==
  /\ chain[t] # <<>> /\ running[t] = "none"
  /\ running' = [running EXCEPT ![t] = IF Desired(t, pending) THEN "show" ELSE "hide"]
  /\ UNCHANGED <<bridgeVars, pending, results, uiVars, native, popup, visible, used, chain>>

\* It is done when what it did is still desired.
StillDesired(t) == Desired(t, pending) = (running[t] = "show")

\* What waited for the chain goes on: the popup becomes the picker page, or is
\* cleared for the privileged picker if its request is pending still.
ChainCalled(t) ==
  LET r == Head(chain[t])
      waits == {n \in native : n.req = r /\ n.st = "waiting"}
  IN  /\ running[t] # "none"
      /\ running' = [running EXCEPT ![t] = "none"]
      /\ visible' = [visible EXCEPT ![t] = running[t] = "show"]
      /\ IF StillDesired(t)
         THEN /\ chain' = [chain EXCEPT ![t] = Tail(@)]
              /\ native' = (native \ waits) \cup
                   {[n EXCEPT !.st = "clearing"] : n \in {n \in waits : Holds(r, pending)}}
              /\ popup' = [popup EXCEPT ![t] =
                   IF r = None THEN @
                   ELSE IF reqs[r].mode = "pageAction" THEN "picker"
                   ELSE IF Holds(r, pending) THEN "off" ELSE @]
         ELSE UNCHANGED <<chain, native, popup>>
      /\ UNCHANGED <<bridgeVars, pending, results, uiVars, used>>

\* markUsed: a device of the tab was paired.
MarkUsed(t) ==
  /\ t \notin used
  /\ used' = used \cup {t}
  /\ Reconcile(t, None)
  /\ UNCHANGED <<bridgeVars, pending, results, uiVars, native, popup, visible, running>>

-----------------------------------------------------------------------------
Init ==
  /\ doc = [p \in Place |-> 1] /\ reqs = <<>> /\ waiting = {}
  /\ outcome = [r \in Req |-> "none"]
  /\ pending = <<>> /\ results = {}
  /\ inline = [t \in Tab |-> NoDialog]
  /\ ui = [u \in Ui |-> [st |-> "none", req |-> None]] /\ windows = 0
  /\ native = {}
  /\ popup = [t \in Tab |-> "popup"] /\ visible = [t \in Tab |-> FALSE] /\ used = {}
  /\ chain = [t \in Tab |-> <<>>] /\ running = [t \in Tab |-> "none"]

Next ==
  \/ \E p \in Place : Reload(p) \/ \E m \in Modes : ShowPicker(p, m)
  \/ \E r \in Req : PickerTimeout(r)
  \/ \E m \in results : ResultArrives(m)
  \/ \E t \in Tab : \/ DialogShows(t) \/ DialogRefreshes(t)
                    \/ \E r \in Req : DialogLoaded(t, r)
                    \/ \E s \in BOOLEAN : DialogCloses(t, s)
                    \/ ChainCalls(t) \/ ChainCalled(t) \/ MarkUsed(t)
  \/ \E u \in Ui : \/ \E b \in BOOLEAN : UiLoads(u, b) \/ UiAnswers(u, b)
                   \/ UiListed(u) \/ UiConfirmed(u) \/ UiUnloads(u)
  \/ \E n \in native : NativeCleared(n) \/ \E s \in BOOLEAN : NativeAnswers(n, s)

Spec == Init /\ [][Next]_vars

\* The browser answers its calls, timers fire; no user does anything.
FairSpec ==
  /\ Spec
  /\ \A r \in Req : WF_vars(PickerTimeout(r))
  /\ \A t \in Tab : WF_vars(ChainCalls(t)) /\ WF_vars(ChainCalled(t))

-----------------------------------------------------------------------------
(* Properties *)

\* Types of the maps of bridge, background and pickers (state.js:45-49).
TypeOK ==
  /\ doc \in [Place -> Nat]
  /\ reqs \in Seq([at : Place, doc : Nat, mode : Modes])
  /\ waiting \subseteq Made /\ outcome \in [Req -> {"none", "granted", "cancelled"}]
  /\ pending \in Seq(Made)
  /\ results \subseteq [port : Made, req : Made, selected : BOOLEAN, list : Made \cup {None}]
  /\ inline \in [Tab -> [shows : Seq(Made), open : Made \cup {None},
                         list : Made \cup {None}, loads : SUBSET Made]]
  /\ ui \in [Ui -> [st : {"none", "loading", "list", "sent", "closed"}, req : Made \cup {None}]]
  /\ windows \in Nat
  /\ native \subseteq [req : Made, st : {"waiting", "clearing", "shown"}]
  /\ popup \in [Tab -> {"popup", "picker", "off"}] /\ visible \in [Tab -> BOOLEAN]
  /\ used \subseteq Tab /\ chain \in [Tab -> Seq(Made \cup {None})]
  /\ running \in [Tab -> {"none", "show", "hide"}]

\* pendingPicker holds one request of a tab, and no request of a document that
\* is gone or whose dialog is: a result can always be delivered where it is due.
PendingIsLive ==
  /\ TypeOK
  /\ \A i \in DOMAIN pending :
    /\ DocLives(pending[i], doc)
    /\ \A j \in DOMAIN pending : TabOf(pending[i]) = TabOf(pending[j]) => i = j

\* A page hears of a choice only from the picker page or doorhanger its own
\* request opened, although pending requests are replaced, cancelled and time
\* out under open pickers.
AnsweredByOwnPicker ==
  \A m \in results : m.selected /\ reqs[m.req].mode # "modal" => m.list = m.req

\* Once its reconciles have run, a tab shows the icon a pending picker needs.
IconShownForPicker ==
  \A t \in Tab :
    /\ chain[t] = <<>>
    /\ \E i \in DOMAIN pending :
         TabOf(pending[i]) = t /\ reqs[pending[i]].mode \in {"pageAction", "privileged"}
    => visible[t]

\* The picker that is open is the one the request asked for.
PickersMatch == AnsweredByOwnPicker /\ IconShownForPicker

\* The page action's reconcile chains come to an end (the loop compares with
\* what is desired after each call).
ChainEnds == \A t \in Tab : []<>(chain[t] = <<>>)

\* What ARCHITECTURE.md:123 says of every chooser: it lists what its request
\* asked for, so the devices a page is granted passed its own filters.
GrantPassesFilters == \A m \in results : m.selected => m.list = m.req

\* What the comment of restorePageAction says (messages.js:1536): when no
\* picker is left, the page action has its popup back.
PopupRestored ==
  \A t \in Tab :
    chain[t] = <<>> /\ ~(\E i \in DOMAIN pending : TabOf(pending[i]) = t) /\ native = {}
      => popup[t] = "popup"
===============================================================================
