------------------------------ MODULE CspSession ------------------------------
(***************************************************************************)
(* What the background knows of the Content-Security-Policy of each frame  *)
(* of one tab (addon/js/background/webrequest.js, messages.js, index.js):  *)
(* it is gathered while the response passes, kept in the session storage   *)
(* of the browser, and asked for by the bridge of the document before it   *)
(* spawns a worker.                                                        *)
(*                                                                         *)
(* Every operation on the storage waits its turn in the queue of the tab   *)
(* and awaits the storage; navigations begin, fail and commit meanwhile.   *)
(***************************************************************************)
EXTENDS Integers, Sequences

CONSTANTS
  Frame, Origin,
  Policy,          \* what a response declares: {"header", "meta"} or less
  MaxNavigations,  \* bound: navigations of the tab
  MaxReads,        \* bound: times a document asks
  MaxFailures      \* bound: operations the storage fails

VARIABLES
  navs,      \* every request for a document, in the order they began
  current,   \* cspFrameNavigations: the tracked navigation of a frame, or 0
  queue,     \* cspStorageQueues: operations of the tab, the first one running
  session,   \* browser.storage.session: an entry of a frame and origin, or {}
  tab,       \* the documents of the frames, and whether the tab was closed
  reads,     \* how often documents asked, and the last answer
  browser    \* whether it names documents, and how often its storage failed

cspVars == <<navs, current, queue, session, tab, reads, browser>>

Navigation == 1..Len(navs)

\* currentCspNavigation: request n is the one tracked for its frame.
Found(n) == current[navs[n].frame] = n

\* isCurrentCspNavigation
IsCurrent(n) == n # 0 /\ Found(n)

\* enqueueCspStorage
Enqueued(kind, n, f) == Append(queue, [kind |-> kind, n |-> n, frame |-> f, by |-> tab.doc[f], got |-> FALSE])
Enqueue(kind, n, f) == queue' = Enqueued(kind, n, f)

-----------------------------------------------------------------------------
(* Requests.  One that fails, or that the browser drops, goes no further.  *)

Request(f, o, p, seen, st) ==
  [frame |-> f, origin |-> o, policy |-> p, seen |-> seen, st |-> st, gen |-> 0, doc |-> 0]

\* beginCspNavigation, for request n: the generation follows the frame's.
Generation(f) == IF current[f] = 0 THEN 1 ELSE navs[current[f]].gen + 1

\* onBeforeRequest: the navigation is tracked, older entries of the frame are
\* to be removed, and a filter looks for <meta> tags.  A redirect comes here
\* again, as a request of its own.
BeginNavigation(f, o, p) ==
  LET n == Len(navs) + 1 IN
  /\ ~tab.closed /\ n <= MaxNavigations
  /\ navs' = Append(navs, [Request(f, o, p, TRUE, "sent") EXCEPT !.gen = Generation(f)])
  /\ current' = [current EXCEPT ![f] = n]
  /\ Enqueue("clear", n, f)
  /\ UNCHANGED <<session, tab, reads, browser>>

\* navigationForResponse: a request the background saw nothing of yet is
\* tracked from here on, unless another one of its frame is.
Begins(n) == current[navs[n].frame] = 0

\* onHeadersReceived, storeFrameCspInfo up to its first await
HeadersReceived(n) ==
  LET f == navs[n].frame
      tracked == Found(n) \/ Begins(n)
  IN
  /\ ~tab.closed /\ navs[n].st = "sent"
  /\ navs' = [navs EXCEPT ![n] =
       [navs[n] EXCEPT !.st = IF tracked THEN "headers" ELSE "untracked",
                       !.gen = IF Begins(n) THEN Generation(f) ELSE navs[n].gen,
                       !.doc = IF tracked /\ browser.ids THEN n ELSE 0]]
  /\ current' = IF Begins(n) THEN [current EXCEPT ![f] = n] ELSE current
  /\ IF Begins(n) THEN Enqueue("clear", n, f) ELSE UNCHANGED queue
  /\ UNCHANGED <<session, tab, reads, browser>>

\* resolveSiteSpawnMode has answered: the policy is stored, and the response
\* waits for that; one of a navigation that was not tracked is let through.
ModeResolved(n) ==
  /\ \/ navs[n].st = "headers" /\ navs' = [navs EXCEPT ![n].st = "storing"] /\ Enqueue("store", n, navs[n].frame)
     \/ navs[n].st = "untracked" /\ navs' = [navs EXCEPT ![n].st = "open"] /\ UNCHANGED queue
  /\ UNCHANGED <<current, session, tab, reads, browser>>

\* handleMetaCsp: the head of the document was read; the merge is queued
\* before the page gets a byte of it.
ProcessHead(n) ==
  /\ navs[n].st = "open"
  /\ navs' = [navs EXCEPT ![n].st = "delivered"]
  /\ IF navs[n].seen /\ "meta" \in navs[n].policy THEN Enqueue("meta", n, navs[n].frame)
     ELSE UNCHANGED queue
  /\ UNCHANGED <<current, session, tab, reads, browser>>

\* The document replaces the one before it in its frame.
Commit(n) ==
  LET f == navs[n].frame IN
  /\ ~tab.closed /\ navs[n].st = "delivered" /\ tab.doc[f] < n
  /\ tab' = [tab EXCEPT !.doc[f] = n]
  /\ UNCHANGED <<navs, current, queue, session, reads, browser>>

\* tabs.onRemoved
TabRemoved ==
  /\ ~tab.closed
  /\ tab' = [doc |-> [f \in Frame |-> 0], closed |-> TRUE]
  /\ current' = [f \in Frame |-> 0]
  /\ \E f \in Frame : Enqueue("purge", 0, f)
  /\ UNCHANGED <<navs, session, reads, browser>>

-----------------------------------------------------------------------------
(* Questions *)

Nothing == [header |-> 0, meta |-> 0]

\* What document n of frame f is told, with the navigation tracked just then.
Told(n, f, info) ==
  reads' = [reads EXCEPT !.last = [by |-> n, of |-> current[f], header |-> info.header, meta |-> info.meta]]

\* handleGetCspInfo
HandleGetCspInfo(f) ==
  LET n == tab.doc[f]
      c == current[f]
  IN
  /\ n # 0 /\ reads.count < MaxReads
  /\ LET asked == [reads EXCEPT !.count = @ + 1] IN
     IF browser.ids /\ c # 0 /\ navs[c].doc \notin {0, n}
     THEN /\ reads' = [asked EXCEPT !.last = [by |-> n, of |-> c, header |-> 0, meta |-> 0]]
          /\ UNCHANGED queue
     ELSE reads' = asked /\ Enqueue("read", c, f)
  /\ UNCHANGED <<navs, current, session, tab, browser>>

-----------------------------------------------------------------------------
(* Operations on the storage *)

op == Head(queue)
key == <<navs[op.n].frame, navs[op.n].origin>>
entries == session[key]
Entry(n, header, meta) == {[gen |-> navs[n].gen, doc |-> navs[n].doc, header |-> header, meta |-> meta]}

Done == queue' = Tail(queue)

\* An operation that stored or failed lets its response through.
Released == navs' = IF op.kind = "store" THEN [navs EXCEPT ![op.n].st = "open"] ELSE navs

\* (wrong variant) an operation that gives up keeps its response waiting.
DropHolds == Done /\ UNCHANGED <<navs, session, reads>>

\* Nothing is stored or said.
Drop == Done /\ Released /\ UNCHANGED <<session, reads>>

Clear ==
  /\ op.kind = "clear"
  /\ IF IsCurrent(op.n)
     THEN session' = [k \in DOMAIN session |-> IF k[1] = op.frame THEN {} ELSE session[k]]
     ELSE UNCHANGED session
  /\ Done /\ UNCHANGED <<navs, reads>>

\* storeFrameCspInfo
StoreFrameCspInfo ==
  /\ op.kind = "store"
  /\ session' = [session EXCEPT ![key] =
       IF "header" \in navs[op.n].policy THEN Entry(op.n, op.n, 0) ELSE {}]
  /\ Done /\ Released /\ UNCHANGED reads

\* handleMetaCsp: what the headers said of this document is kept.
MergeMeta ==
  /\ op.kind = "meta"
  /\ LET same == {e \in entries : e.gen = navs[op.n].gen /\ (navs[op.n].doc = 0 \/ e.doc = navs[op.n].doc)}
         header == IF \E e \in same : e.header # 0 THEN (CHOOSE e \in same : TRUE).header ELSE 0
     IN  session' = IF IsCurrent(op.n) THEN [session EXCEPT ![key] = Entry(op.n, header, op.n)] ELSE session
  /\ Done /\ UNCHANGED <<navs, reads>>

\* (wrong variant) the frame's entry will do, whatever navigation it is of.
VisibleAnyGeneration(n, by) ==
  {e \in session[<<op.frame, navs[by].origin>>] : browser.ids /\ e.doc # 0 => e.doc = by}

\* handleGetCspInfo: the answer
Visible(n, by) ==
  {e \in session[<<op.frame, navs[by].origin>>] :
     /\ n # 0 => e.gen = navs[n].gen
     /\ browser.ids /\ e.doc # 0 => e.doc = by}

Answer ==
  /\ op.kind = "read"
  /\ LET seen == Visible(op.n, op.by) IN
     Told(op.by, op.frame, IF current[op.frame] = op.n /\ seen # {} THEN CHOOSE e \in seen : TRUE ELSE Nothing)
  /\ Done /\ UNCHANGED <<navs, session>>

\* hasCurrentFrames
HasCurrentFrames == \E f \in Frame : current[f] # 0

Purge ==
  /\ op.kind = "purge"
  /\ session' = IF HasCurrentFrames THEN session ELSE [k \in DOMAIN session |-> {}]
  /\ Done /\ UNCHANGED <<navs, reads>>

\* What every operation asks before it starts
Proceeds ==
  CASE op.kind \in {"clear", "store", "meta"} -> IsCurrent(op.n)
    [] op.kind = "read" -> current[op.frame] = op.n
    [] OTHER -> ~HasCurrentFrames

\* An operation starts: it gives up if its navigation was replaced, and
\* awaits the storage if not.
Start ==
  /\ queue # <<>> /\ ~op.got
  /\ IF Proceeds THEN queue' = [queue EXCEPT ![1].got = TRUE] /\ UNCHANGED <<navs, session, reads>>
     ELSE IF op.kind = "read" THEN Done /\ Told(op.by, op.frame, Nothing) /\ UNCHANGED <<navs, session>>
     ELSE Drop
  /\ UNCHANGED <<current, tab, browser>>

\* The storage answered: all but the store look again, and act.
Act ==
  /\ queue # <<>> /\ op.got
  /\ Clear \/ StoreFrameCspInfo \/ MergeMeta \/ Answer \/ Purge
  /\ UNCHANGED <<current, tab, browser>>

\* The storage refuses: the operation ends, a reader is told nothing.
StorageFails ==
  /\ queue # <<>> /\ op.got /\ browser.failed < MaxFailures
  /\ browser' = [browser EXCEPT !.failed = @ + 1]
  /\ IF op.kind = "read" THEN Done /\ Told(op.by, op.frame, Nothing) /\ UNCHANGED <<navs, session>>
     ELSE Drop
  /\ UNCHANGED <<current, tab>>

-----------------------------------------------------------------------------
\* A request may be on its way when the background starts.
Init ==
  /\ \/ navs = <<>>
     \/ \E f \in Frame, o \in Origin, p \in Policy : navs = <<Request(f, o, p, FALSE, "sent")>>
  /\ current = [f \in Frame |-> 0]
  /\ queue = <<>>
  /\ session = [k \in Frame \X Origin |-> {}]
  /\ tab = [doc |-> [f \in Frame |-> 0], closed |-> FALSE]
  /\ reads = [count |-> 0, last |-> [by |-> 0, of |-> 0, header |-> 0, meta |-> 0]]
  /\ browser \in [ids : BOOLEAN, failed : {0}]

Next ==
  \/ \E f \in Frame, o \in Origin, p \in Policy : BeginNavigation(f, o, p)
  \/ \E n \in Navigation : HeadersReceived(n) \/ ModeResolved(n) \/ ProcessHead(n) \/ Commit(n)
  \/ \E f \in Frame : HandleGetCspInfo(f)
  \/ TabRemoved \/ Start \/ Act \/ StorageFails

-----------------------------------------------------------------------------
\* handleGetCspInfo: a document is told of the policies of one navigation,
\* the newest one of its frame, and of its own if documents have names.
OwnInfo ==
  LET a == reads.last IN
  /\ {a.header, a.meta} \subseteq {0, a.of}
  /\ browser.ids => {a.header, a.meta} \subseteq {0, a.by}

\* ... and of all of them, if the storage works and it is the newest: what
\* the headers said, and the <meta> tags the filter saw go by.
WholeInfo ==
  LET a == reads.last IN
  a.by # 0 /\ a.of = a.by /\ browser.failed = 0 =>
    /\ a.header = IF "header" \in navs[a.by].policy THEN a.by ELSE 0
    /\ a.meta = IF "meta" \in navs[a.by].policy /\ navs[a.by].seen THEN a.by ELSE 0

\* index.js, tabs.onRemoved: once the purge of a closed tab has run, the
\* storage holds nothing of it, and what still runs puts nothing there.
ClosedTabLeavesNothing ==
  (tab.closed /\ browser.failed = 0 /\ \A i \in 1..Len(queue) : queue[i].kind # "purge") =>
    \A k \in DOMAIN session : session[k] = {}

\* onHeadersReceived blocks a response until its policy is stored; it is let
\* through whatever the storage does.
Blocked == \E n \in Navigation : navs[n].st \in {"headers", "untracked", "storing"}
ResponsesReleased == []<>~Blocked
===============================================================================
