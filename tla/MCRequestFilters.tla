--------------------------- MODULE MCRequestFilters ---------------------------
(***************************************************************************)
(* The background's listeners on the requests of a tab: those of documents *)
(* gather the policies of the frames, those of scripts serve and prepare   *)
(* workers.  They share no state; a behaviour is about one of them, chosen *)
(* at the start.                                                           *)
(***************************************************************************)
EXTENDS ScriptFilter

CONSTANTS Frame, Origin, Policy, MaxNavigations, MaxReads, MaxFailures

VARIABLES part, navs, current, queue, session, tab, reads, browser

C == INSTANCE CspSession

cspVars == <<navs, current, queue, session, tab, reads, browser>>
FiltersVars == <<part, scriptVars, cspVars>>

FiltersInit ==
  /\ Init /\ C!Init
  /\ part \in {"script", "csp"}
  /\ part = "script" => navs = <<>> /\ browser.ids
  /\ part = "csp" => setting.prologue = 1 /\ ~setting.enabled /\ setting.bundle

FiltersNext ==
  \/ part = "script" /\ Next /\ UNCHANGED <<part, cspVars>>
  \/ part = "csp" /\ C!Next /\ UNCHANGED <<part, scriptVars>>

\* The fairness of each component, in its part.
Script(A) == part = "script" /\ A /\ UNCHANGED <<part, cspVars>>
Csp(A) == part = "csp" /\ A /\ UNCHANGED <<part, scriptVars>>

FiltersSpec ==
  /\ FiltersInit /\ [][FiltersNext]_FiltersVars
  /\ WF_FiltersVars(Script(Filters))
  /\ WF_FiltersVars(Csp(C!Start))
  /\ WF_FiltersVars(Csp(C!Act))
  /\ WF_FiltersVars(Csp(\E n \in C!Navigation : C!ModeResolved(n)))

\* CspSession: a document is told of the policies of the newest navigation of
\* its frame, all of them, and of its own if documents have names; nothing is
\* left of a closed tab.
CspInfoRight == C!OwnInfo /\ C!WholeInfo /\ C!ClosedTabLeavesNothing

\* ScriptFilter: scripts pass unharmed, workers get what they are to get, no
\* record outlives its response but where a redirect to the same URL leaves it,
\* and the spawns and their arms agree while only spawns take them.
ScriptsRight == ScriptWhole /\ NoRecordLeft /\ ArmedSpawnServed

\* A response that waits for the storage of the tab is let through, and one
\* that a filter holds is passed on.
ResponsesEnd == C!ResponsesReleased /\ FiltersClose
===============================================================================
