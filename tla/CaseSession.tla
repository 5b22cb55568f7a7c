---------------------------- MODULE CaseSession ----------------------------
(***************************************************************************)
(* What a browser tab works on: the case and the run in focus and the mode *)
(* (ui/app-state/store.ts), the store of analysis runs (ui/study-cases/    *)
(* runStore.ts), and the handlers that drive them (App.tsx, ui/            *)
(* case-manager/CaseManager.tsx, ui/sld/SldEditorPage.tsx).  A handler is  *)
(* a chain of awaited requests; a chain in flight has a slot, and the      *)
(* answers come in any order.  The lists the stores cache, and the copy of *)
(* the active case in ui/study-cases/store.ts, which no page reads, are    *)
(* left out; the requests that fetch them stay.  The store of study cases  *)
(* knows its project.                                                      *)
(***************************************************************************)
CONSTANTS
    Cases,
    NoCase,
    Runs,           \* identifiers of runs, the bound on their number
    NoRun,
    Slots,          \* bound: chains of requests in flight
    Idle            \* a slot without a chain

ASSUME SessionAssumption == NoCase \notin Cases /\ NoRun \notin Runs

VARIABLES
    cases,          \* backend: the cases that were created
    runCase,        \* backend: per run its case, or NoCase
    runState,       \* backend: per run its status
    activeCaseId, activeRunId, activeMode,          \* app-state
    hash, route,    \* App: the address, and the route on screen
    currentRun, runStatus,                          \* runStore
    busy,           \* the flags of both stores, by name
    chains          \* per slot a chain of requests, or Idle

backend == <<cases, runCase, runState>>
focus == <<activeCaseId, activeRunId>>
page == <<activeMode, hash, route>>
panel == <<currentRun, runStatus>>
sessionVars == <<backend, focus, page, panel, busy, chains>>

Modes == {"MODEL_EDIT", "CASE_CONFIG", "RESULT_VIEW"}
Routes == {"sld", "case-config", "results"}
Terminal == {"DONE", "FAILED"}
RunStates == {"PENDING"} \cup Terminal
Flags == {"isCreating", "isActivating",
          "isCreatingRun", "isExecutingRun", "isLoadingRuns"}

(* A chain: the handler, the case and the run it is about, the request it  *)
(* waits for, and whether the backend has served it.                       *)
Creating == {"create", "first", "abandoned"}
Kinds == Creating \cup {"activate", "calculate"}
Steps == {"change", "list", "create", "execute", "runs"}
Chains ==
    [kind : Kinds, case : Cases \cup {NoCase}, run : Runs \cup {NoRun},
     step : Steps, served : BOOLEAN]

ASSUME IdleAssumption == Idle \notin Chains

SessionTypeOK ==
    /\ cases \subseteq Cases
    /\ runCase \in [Runs -> Cases \cup {NoCase}]
    /\ runState \in [Runs -> RunStates]
    /\ activeCaseId \in Cases \cup {NoCase}
    /\ activeRunId \in Runs \cup {NoRun}
    /\ activeMode \in Modes
    /\ hash \in Routes /\ route \in Routes
    /\ currentRun \in Runs \cup {NoRun}
    /\ runStatus \in RunStates \cup {"none"}
    /\ busy \in [Flags -> BOOLEAN]
    /\ chains \in [Slots -> Chains \cup {Idle}]

SessionInit ==
    /\ cases = {}
    /\ runCase = [r \in Runs |-> NoCase]
    /\ runState = [r \in Runs |-> "PENDING"]
    /\ activeCaseId = NoCase
    /\ activeRunId = NoRun
    /\ activeMode = "MODEL_EDIT"
    /\ hash = "sld" /\ route = "sld"
    /\ currentRun = NoRun
    /\ runStatus = "none"
    /\ busy = [f \in Flags |-> FALSE]
    /\ chains = [s \in Slots |-> Idle]

-----------------------------------------------------------------------------
(* The setters of app-state.                                               *)

(* The mutant keeps the run.                                               *)
SetActiveCase_KeepsRun(c) == activeCaseId' = c /\ UNCHANGED activeRunId
SetActiveCase(c) == activeCaseId' = c /\ activeRunId' = NoRun

(* The mutant keeps the run.                                               *)
SetActiveMode_KeepsRun(m) == activeMode' = m /\ UNCHANGED activeRunId
SetActiveMode(m) ==
    /\ activeMode' = m
    /\ activeRunId' = IF m = "RESULT_VIEW" THEN activeRunId ELSE NoRun

-----------------------------------------------------------------------------
(* The address and the mode.                                               *)

(* The mutant has another name for a mode.                                 *)
ModeOf_Results(h) == IF h = "results" THEN "RESULTS" ELSE "MODEL_EDIT"
ModeOf(h) ==
    CASE h = "results" -> "RESULT_VIEW"
      [] h = "case-config" -> "CASE_CONFIG"
      [] OTHER -> "MODEL_EDIT"

(* The event comes after the assignment; the effect of App runs when the   *)
(* route has changed.                                                      *)
HashChange ==
    /\ hash # route
    /\ route' = hash
    /\ SetActiveMode(ModeOf(hash))
    /\ UNCHANGED <<backend, activeCaseId, hash, panel, busy, chains>>

Navigate(h) ==
    /\ hash' = h
    /\ UNCHANGED <<backend, focus, activeMode, route, panel, busy, chains>>

(* Two buttons of the bar: configure the case, look at its results.        *)
Configure ==
    /\ SetActiveMode("CASE_CONFIG")
    /\ UNCHANGED <<backend, activeCaseId, hash, route, panel, busy, chains>>

ShowResults ==
    /\ SetActiveMode("RESULT_VIEW")
    /\ hash' = "results"
    /\ UNCHANGED <<backend, activeCaseId, route, panel, busy, chains>>

(* The tab is loaded again: of all this only the case in focus is kept.    *)
Reload ==
    /\ route' = hash
    /\ activeMode' = ModeOf(hash)
    /\ activeRunId' = NoRun
    /\ currentRun' = NoRun
    /\ runStatus' = "none"
    /\ busy' = [f \in Flags |-> FALSE]
    /\ chains' = [s \in Slots |-> Idle]
    /\ UNCHANGED <<backend, activeCaseId, hash>>

-----------------------------------------------------------------------------
(* A handler sends its first request.                                      *)

Start(s, kind, c, step) ==
    /\ chains[s] = Idle
    /\ chains' = [chains EXCEPT ![s] =
          [kind |-> kind, case |-> c, run |-> NoRun, step |-> step,
           served |-> FALSE]]

Set(flag, b) == busy' = [busy EXCEPT ![flag] = b]

(* The Enter key creates even while a case is being created.               *)
CreateCase(s) ==
    /\ Start(s, "create", NoCase, "change")
    /\ Set("isCreating", TRUE)
    /\ UNCHANGED <<backend, focus, page, panel>>

(* The button of the editor page; a page that was left and opened again    *)
(* does not know that a first case is being created.                       *)
CreateFirstCase(s) ==
    /\ route = "sld"
    /\ Start(s, "first", NoCase, "change")
    /\ Set("isCreating", TRUE)
    /\ UNCHANGED <<backend, focus, page, panel>>

(* A double click does not ask whether a case is being activated.          *)
ActivateCase(s, c) ==
    /\ activeMode = "MODEL_EDIT" /\ c \in cases
    /\ Start(s, "activate", c, "change")
    /\ Set("isActivating", TRUE)
    /\ UNCHANGED <<backend, focus, page, panel>>

(* From the bar or from the menu, which asks only for a case.              *)
Calculate(s) ==
    /\ activeCaseId # NoCase
    /\ Start(s, "calculate", activeCaseId, "create")
    /\ busy' = [busy EXCEPT !["isCreatingRun"] = TRUE,
                            !["isExecutingRun"] = TRUE]
    /\ UNCHANGED <<backend, focus, page, panel>>

(* The editor page waits 15 s for its first case; the store goes on.       *)
GiveUp(s) ==
    /\ chains[s] # Idle /\ chains[s].kind = "first"
    /\ chains' = [chains EXCEPT ![s].kind = "abandoned"]
    /\ UNCHANGED <<backend, focus, page, panel, busy>>

-----------------------------------------------------------------------------
(* The backend serves a request that changes something.                    *)

Waits(s, kinds, step) ==
    /\ chains[s] # Idle /\ ~chains[s].served
    /\ chains[s].kind \in kinds /\ chains[s].step = step

ServeCase(s) ==
    /\ \/ /\ Waits(s, Creating, "change")
          /\ \E c \in Cases \ cases :
                /\ cases' = cases \cup {c}
                /\ chains' = [chains EXCEPT ![s].served = TRUE,
                                            ![s].case = c]
       \/ /\ Waits(s, {"activate"}, "change")
          /\ chains' = [chains EXCEPT ![s].served = TRUE]
          /\ UNCHANGED cases
    /\ UNCHANGED <<runCase, runState, focus, page, panel, busy>>

ServeRun(s) ==
    /\ \/ /\ Waits(s, {"calculate"}, "create")
          /\ \E r \in Runs :
                /\ runCase[r] = NoCase
                /\ runCase' = [runCase EXCEPT ![r] = chains[s].case]
                /\ chains' = [chains EXCEPT ![s].served = TRUE,
                                            ![s].run = r]
          /\ UNCHANGED runState
       \/ /\ Waits(s, {"calculate"}, "execute")
          /\ \E st \in Terminal :
                runState' = [runState EXCEPT ![chains[s].run] = st]
          /\ chains' = [chains EXCEPT ![s].served = TRUE]
          /\ UNCHANGED runCase
    /\ UNCHANGED <<cases, focus, page, panel, busy>>

-----------------------------------------------------------------------------
(* An answer comes to its chain, or a failure: of the request before it    *)
(* was served, or of the answer.                                           *)

At(s, kinds, step) ==
    chains[s] # Idle /\ chains[s].kind \in kinds /\ chains[s].step = step

Ask(s, step) ==
    chains' = [chains EXCEPT ![s].step = step, ![s].served = FALSE]
Over(s) == chains' = [chains EXCEPT ![s] = Idle]

CaseAnswered(s) ==
    /\ At(s, Kinds, "change")
    /\ chains[s].served
    /\ Ask(s, "list")
    /\ UNCHANGED <<backend, focus, page, panel, busy>>

CaseFailed(s) ==
    /\ At(s, Kinds, "change")
    /\ Over(s)
    /\ Set(IF chains[s].kind = "activate" THEN "isActivating"
           ELSE "isCreating", FALSE)
    /\ UNCHANGED <<backend, focus, page, panel>>

(* loadCases catches its own failure; then the handler puts its case into  *)
(* focus and, in the case manager, shows the editor.                       *)
CaseListed(s) ==
    /\ At(s, Kinds, "list")
    /\ Over(s)
    /\ Set(IF chains[s].kind = "activate" THEN "isActivating"
           ELSE "isCreating", FALSE)
    /\ IF chains[s].kind = "abandoned" THEN UNCHANGED focus
       ELSE SetActiveCase(chains[s].case)
    /\ hash' = IF chains[s].kind \in {"create", "activate"} THEN "sld"
               ELSE hash
    /\ UNCHANGED <<backend, activeMode, route, panel>>

(* createAndExecuteRun: its catch clears both flags.  The mutant clears    *)
(* only the flag of the step that failed.                                  *)
RunFailed_OneFlag(s) ==
    /\ At(s, {"calculate"}, "create") \/ At(s, {"calculate"}, "execute")
    /\ Set(IF chains[s].step = "create" THEN "isCreatingRun"
           ELSE "isExecutingRun", FALSE)
    /\ Over(s)
    /\ UNCHANGED <<backend, focus, page, panel>>
RunFailed(s) ==
    /\ At(s, {"calculate"}, "create") \/ At(s, {"calculate"}, "execute")
    /\ busy' = [busy EXCEPT !["isCreatingRun"] = FALSE,
                            !["isExecutingRun"] = FALSE]
    /\ Over(s)
    /\ UNCHANGED <<backend, focus, page, panel>>

(* One mutant shows the run at once, one keeps the status of the run       *)
(* before it.                                                              *)
RunCreated_Shown(s) ==
    /\ At(s, {"calculate"}, "create")
    /\ chains[s].served
    /\ currentRun' = chains[s].run
    /\ activeRunId' = chains[s].run
    /\ runStatus' = "PENDING"
    /\ Set("isCreatingRun", FALSE)
    /\ Ask(s, "execute")
    /\ UNCHANGED <<backend, activeCaseId, page>>
RunCreated_KeepsStatus(s) ==
    /\ At(s, {"calculate"}, "create")
    /\ chains[s].served
    /\ currentRun' = chains[s].run
    /\ Set("isCreatingRun", FALSE)
    /\ Ask(s, "execute")
    /\ UNCHANGED <<backend, focus, page, runStatus>>
RunCreated(s) ==
    /\ At(s, {"calculate"}, "create")
    /\ chains[s].served
    /\ currentRun' = chains[s].run
    /\ runStatus' = "PENDING"
    /\ Set("isCreatingRun", FALSE)
    /\ Ask(s, "execute")
    /\ UNCHANGED <<backend, focus, page>>

RunExecuted(s) ==
    /\ At(s, {"calculate"}, "execute")
    /\ chains[s].served
    /\ runStatus' = runState[chains[s].run]
    /\ busy' = [busy EXCEPT !["isExecutingRun"] = FALSE,
                            !["isLoadingRuns"] = TRUE]
    /\ Ask(s, "runs")
    /\ UNCHANGED <<backend, focus, page, currentRun>>

(* loadRuns catches its own failure; then handleCalculate shows its run,   *)
(* whatever the case in focus is by now.                                   *)
RunsLoaded(s) ==
    /\ At(s, {"calculate"}, "runs")
    /\ Set("isLoadingRuns", FALSE)
    /\ Over(s)
    /\ activeRunId' = chains[s].run
    /\ hash' = "results"
    /\ UNCHANGED <<backend, activeCaseId, activeMode, route, panel>>

Resume(s) ==
    \/ CaseAnswered(s) \/ CaseFailed(s) \/ CaseListed(s)
    \/ RunCreated(s) \/ RunExecuted(s) \/ RunFailed(s) \/ RunsLoaded(s)

SessionNext ==
    \/ HashChange \/ Configure \/ ShowResults \/ Reload
    \/ \E h \in Routes : Navigate(h)
    \/ \E s \in Slots :
          \/ CreateCase(s) \/ CreateFirstCase(s) \/ Calculate(s)
          \/ \E c \in Cases : ActivateCase(s, c)
          \/ ServeCase(s) \/ ServeRun(s) \/ GiveUp(s) \/ Resume(s)

SessionSpec == SessionInit /\ [][SessionNext]_sessionVars

-----------------------------------------------------------------------------
(* Correctness.                                                            *)

(* The run in focus has been executed: the results page asks only for      *)
(* results of a run with a final status.                                   *)
FocusedRunExecuted ==
    activeRunId # NoRun => runState[activeRunId] \in Terminal

(* app-state/store.ts:60: the run in focus is context of RESULT_VIEW.  In  *)
(* MODEL_EDIT there is none once the address is on screen, unless the user *)
(* went back to the editor before the page had followed the calculation.   *)
StrayRun ==
    hash = route /\ activeMode = "MODEL_EDIT" /\ activeRunId # NoRun
NoStrayRun ==
    [][~StrayRun /\ StrayRun' =>
          hash # route /\ UNCHANGED route]_sessionVars

(* The run in focus belongs to the case in focus, until a calculation that *)
(* was started for another case ends.                                      *)
OneFocus == activeRunId # NoRun => runCase[activeRunId] = activeCaseId
FocusLostOnlyByOtherCase ==
    [][OneFocus /\ ~OneFocus' =>
          \E s \in Slots : /\ At(s, {"calculate"}, "runs")
                           /\ chains[s].case # activeCaseId]_sessionVars

(* The final status the run panel shows is that of its current run, until  *)
(* a run that is no longer the current one ends.                           *)
StatusOfCurrentRun ==
    runStatus \in Terminal =>
        currentRun # NoRun /\ runState[currentRun] = runStatus
StatusLostOnlyByOtherRun ==
    [][StatusOfCurrentRun /\ ~StatusOfCurrentRun' =>
          \E s \in Slots :
             /\ At(s, {"calculate"}, "execute") /\ chains[s].served
             /\ chains[s].run # currentRun]_sessionVars

(* A flag that is set has a chain in flight whose next answer or failure   *)
(* clears it: no button stays blocked, and no spinner turns, after a       *)
(* request that failed.                                                    *)
Clears(s, f) ==
    CASE f = "isCreating"     -> At(s, Creating, "change")
                                     \/ At(s, Creating, "list")
      [] f = "isActivating"   -> At(s, {"activate"}, "change")
                                     \/ At(s, {"activate"}, "list")
      [] f = "isCreatingRun"  -> At(s, {"calculate"}, "create")
      [] f = "isExecutingRun" -> At(s, {"calculate"}, "create")
                                     \/ At(s, {"calculate"}, "execute")
      [] f = "isLoadingRuns"  -> At(s, {"calculate"}, "runs")
FlagsOwned == \A f \in Flags : busy[f] => \E s \in Slots : Clears(s, f)
=============================================================================
