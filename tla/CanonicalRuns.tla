--------------------------- MODULE CanonicalRuns ---------------------------
(***************************************************************************)
(* Canonical analysis runs (backend/src/enm/canonical_analysis.py) over    *)
(* the shared ENM store.  POST runs creates a run from the current model   *)
(* and POST execute solves it, both in threads of the pool; the combined   *)
(* endpoints runs/short-circuit and runs/power-flow create and execute     *)
(* inside the event loop.                                                  *)
(*                                                                         *)
(* A run is one shared mutable object: every assignment to it is a step.   *)
(* Validator and solver are deterministic functions of the content: Valid  *)
(* are the contents the analysis is available for, Solvable those on which *)
(* the solver raises nothing, Traceable and Reportable those on which      *)
(* building white_box_trace and power_flow_trace from the solution raises  *)
(* nothing.  Runs are of the power flow; a short circuit ends with None in *)
(* power_flow_trace.                                                       *)
(***************************************************************************)
EXTENDS EnmStore, FiniteSets, Sequences

CONSTANTS
    RunIds,         \* identifiers of runs, the bound on their number
    NoRun,          \* absence of a run
    Valid,
    Solvable,
    Traceable,
    Reportable

ASSUME RunsAssumption ==
    /\ NoRun \notin RunIds
    /\ Valid \subseteq Contents
    /\ Solvable \subseteq Contents
    /\ Traceable \subseteq Contents
    /\ Reportable \subseteq Contents

VARIABLES
    runs,           \* _runs: per identifier a run, or NoRun
    case_runs,      \* _case_runs: per case the identifiers in order
    step,           \* where each process is in a run handler
    job             \* the run each process works on, or NoRun

runVars == <<runs, case_runs, step, job>>
allVars == <<storeVars, runVars>>

Terminal == {"FINISHED", "FAILED"}
Statuses == {"CREATED", "RUNNING"} \cup Terminal

(* A result is represented by the content it was computed from; OpError,   *)
(* which is no content, stands for None.                                   *)
NoResult == OpError
Results == Contents \cup {NoResult}

Runs ==
    [case : Cases, status : Statuses, snapshot : Enms, snapshot_hash : Hashes,
     raw_result : Results, white_box_trace : Results,
     power_flow_trace : Results]

ASSUME NoRunAssumption == NoRun \notin Runs

Steps == {"none", "precheck", "create", "append", "start", "running",
          "solve", "trace", "report", "finish", "fail"}

RunsTypeOK ==
    /\ StoreTypeOK
    /\ runs \in [RunIds -> Runs \cup {NoRun}]
    /\ case_runs \in [Cases -> Seq(RunIds)]
    /\ step \in [Procs -> Steps]
    /\ job \in [Procs -> RunIds \cup {NoRun}]

RunsInit ==
    /\ StoreInit
    /\ runs = [r \in RunIds |-> NoRun]
    /\ case_runs = [c \in Cases |-> << >>]
    /\ step = [p \in Procs |-> "none"]
    /\ job = [p \in Procs |-> NoRun]

Proceed(p, label) == step' = [step EXCEPT ![p] = label]
Idle(p) == pc[p] = "idle" /\ step[p] = "none"

(* The handler is over.                                                    *)
Done(p) ==
    /\ Proceed(p, "none")
    /\ job' = [job EXCEPT ![p] = NoRun]

(* Assigning one attribute of the run a process works on.                  *)
SetStatus(p, s) == runs' = [runs EXCEPT ![job[p]].status = s]

-----------------------------------------------------------------------------
(* create_run.                                                             *)

(* Identifiers that no run has and no running handler may still take.      *)
IdsLeft ==
    /\ \E r \in RunIds : runs[r] = NoRun
    /\ Cardinality({p \in Procs : step[p] \in {"precheck", "create"}})
         < Cardinality({r \in RunIds : runs[r] = NoRun})

PostRun(w, c) ==
    /\ Idle(w) /\ IdsLeft
    /\ StartRead(w, c)
    /\ Proceed(w, "create")
    /\ UNCHANGED <<runs, case_runs, job>>

(* run_short_circuit, run_power_flow: one get_enm for the validation of    *)
(* the endpoint, a second one inside create_run.                           *)
PostRunNow(c) ==
    /\ Idle(Loop) /\ IdsLeft
    /\ CallGetEnm(Loop, c)
    /\ Proceed(Loop, "precheck")
    /\ UNCHANGED <<store, view, request, draft, seen, epoch>>
    /\ UNCHANGED <<runs, case_runs, job>>

Precheck ==
    /\ pc[Loop] = "got" /\ step[Loop] = "precheck"
    /\ \/ /\ view[Loop].content \in Valid
          /\ CallGetEnm(Loop, at[Loop])
          /\ Proceed(Loop, "create")
          /\ UNCHANGED <<view, job>>
       \/ /\ view[Loop].content \notin Valid
          /\ Return(Loop)
          /\ Done(Loop)
          /\ UNCHANGED at
    /\ UNCHANGED <<store, request, draft, seen, epoch, runs, case_runs>>

NewRun(e) ==
    [case |-> e.case, status |-> "CREATED", snapshot |-> e,
     snapshot_hash |-> ComputeHash(e), raw_result |-> NoResult,
     white_box_trace |-> NoResult, power_flow_trace |-> NoResult]

(* Validation of the model get_enm returned, then _runs[run.id] = run.     *)
CreateRun(p) ==
    /\ pc[p] = "got" /\ step[p] = "create"
    /\ \/ /\ view[p].content \notin Valid
          /\ Done(p)
          /\ UNCHANGED runs
       \/ /\ view[p].content \in Valid
          /\ \E r \in RunIds :
                /\ runs[r] = NoRun
                /\ runs' = [runs EXCEPT ![r] = NewRun(view[p])]
                /\ job' = [job EXCEPT ![p] = r]
          /\ Proceed(p, "append")
    /\ Return(p)
    /\ UNCHANGED <<store, at, request, draft, seen, epoch, case_runs>>

(* _case_runs gets the identifier; the combined endpoints go on to execute *)
(* the run.  The mutant lists only the runs of the two-call protocol.      *)
AppendRun_NotNow(p) ==
    /\ step[p] = "append"
    /\ case_runs' = IF p = Loop THEN case_runs ELSE
          [case_runs EXCEPT ![runs[job[p]].case] = Append(@, job[p])]
    /\ IF p = Loop THEN Proceed(p, "start") /\ UNCHANGED job ELSE Done(p)
    /\ UNCHANGED <<storeVars, runs>>
AppendRun(p) ==
    /\ step[p] = "append"
    /\ case_runs' = [case_runs EXCEPT ![runs[job[p]].case] = Append(@, job[p])]
    /\ IF p = Loop THEN Proceed(p, "start") /\ UNCHANGED job ELSE Done(p)
    /\ UNCHANGED <<storeVars, runs>>

-----------------------------------------------------------------------------
(* execute_run.                                                            *)

PostExecute(w, r) ==
    /\ Idle(w)
    /\ runs[r] # NoRun
    /\ job' = [job EXCEPT ![w] = r]
    /\ Proceed(w, "start")
    /\ UNCHANGED <<storeVars, runs, case_runs>>

(* The early return looks at the status; the assignment comes later.       *)
CheckStatus(p) ==
    /\ step[p] = "start"
    /\ \/ runs[job[p]].status \in Terminal /\ Done(p)
       \/ runs[job[p]].status \notin Terminal /\ Proceed(p, "running")
                                               /\ UNCHANGED job
    /\ UNCHANGED <<storeVars, runs, case_runs>>

(* The mutant also resets what an earlier execution left.                  *)
SetRunning_Resets(p) ==
    /\ step[p] = "running"
    /\ runs' = [runs EXCEPT ![job[p]].status = "RUNNING",
                            ![job[p]].raw_result = NoResult]
    /\ Proceed(p, "solve")
    /\ UNCHANGED <<storeVars, case_runs, job>>
SetRunning(p) ==
    /\ step[p] = "running"
    /\ SetStatus(p, "RUNNING")
    /\ Proceed(p, "solve")
    /\ UNCHANGED <<storeVars, case_runs, job>>

(* The solver works on the snapshot of the run.  It raises, or raw_result  *)
(* is assigned.  The mutant solves the current model of the case.          *)
Solve_Current(p) ==
    LET x == store[runs[job[p]].case].content
    IN  /\ step[p] = "solve"
        /\ \/ /\ x \in Solvable
              /\ runs' = [runs EXCEPT ![job[p]].raw_result = x]
              /\ Proceed(p, "trace")
           \/ /\ x \notin Solvable
              /\ Proceed(p, "fail")
              /\ UNCHANGED runs
        /\ UNCHANGED <<storeVars, case_runs, job>>
Solve(p) ==
    LET x == runs[job[p]].snapshot.content
    IN  /\ step[p] = "solve"
        /\ \/ /\ x \in Solvable
              /\ runs' = [runs EXCEPT ![job[p]].raw_result = x]
              /\ Proceed(p, "trace")
           \/ /\ x \notin Solvable
              /\ Proceed(p, "fail")
              /\ UNCHANGED runs
        /\ UNCHANGED <<storeVars, case_runs, job>>

(* white_box_trace, then power_flow_trace; what was assigned before stays  *)
(* when building one of them raises.                                       *)
WriteTrace(p) ==
    LET x == runs[job[p]].snapshot.content
    IN  /\ step[p] = "trace"
        /\ \/ /\ x \in Traceable
              /\ runs' = [runs EXCEPT ![job[p]].white_box_trace = x]
              /\ Proceed(p, "report")
           \/ /\ x \notin Traceable
              /\ Proceed(p, "fail")
              /\ UNCHANGED runs
        /\ UNCHANGED <<storeVars, case_runs, job>>

WriteReport(p) ==
    LET x == runs[job[p]].snapshot.content
    IN  /\ step[p] = "report"
        /\ \/ /\ x \in Reportable
              /\ runs' = [runs EXCEPT ![job[p]].power_flow_trace = x]
              /\ Proceed(p, "finish")
           \/ /\ x \notin Reportable
              /\ Proceed(p, "fail")
              /\ UNCHANGED runs
        /\ UNCHANGED <<storeVars, case_runs, job>>

Finish(p) ==
    /\ step[p] = "finish"
    /\ SetStatus(p, "FINISHED")
    /\ Done(p)
    /\ UNCHANGED <<storeVars, case_runs>>

(* The mutant leaves the status as it is.                                  *)
Fail_Silent(p) ==
    /\ step[p] = "fail"
    /\ Done(p)
    /\ UNCHANGED <<storeVars, runs, case_runs>>
Fail(p) ==
    /\ step[p] = "fail"
    /\ SetStatus(p, "FAILED")
    /\ Done(p)
    /\ UNCHANGED <<storeVars, case_runs>>

-----------------------------------------------------------------------------
(* Runs live in the memory of the process.                                 *)
RestartAll ==
    /\ Restart
    /\ runs' = [r \in RunIds |-> NoRun]
    /\ case_runs' = [c \in Cases |-> << >>]
    /\ step' = [p \in Procs |-> "none"]
    /\ job' = [p \in Procs |-> NoRun]

(* The steps of get_enm taken inside any handler.                          *)
CallStep(p) ==
    /\ \/ GetEnmTest(p)
       \/ GetEnmInsert(p)
       \/ step[p] # "none" /\ GetEnmReturn(p)
    /\ UNCHANGED runVars

EditStep == step[Loop] = "none" /\ DomainOpsStep /\ UNCHANGED runVars

EditRequest == step[Loop] = "none" /\ DomainOpsRequest /\ UNCHANGED runVars

ExecuteStep(p) ==
    CheckStatus(p) \/ SetRunning(p) \/ Solve(p) \/ WriteTrace(p)
        \/ WriteReport(p) \/ Finish(p) \/ Fail(p)

RunsNext ==
    \/ EditRequest
    \/ EditStep
    \/ \E w \in Workers, c \in Cases : PostRun(w, c)
    \/ \E w \in Workers, r \in RunIds : PostExecute(w, r)
    \/ \E c \in Cases : PostRunNow(c)
    \/ Precheck
    \/ \E p \in Procs : CallStep(p)
    \/ \E p \in Procs : CreateRun(p)
    \/ \E p \in Procs : AppendRun(p)
    \/ \E p \in Procs : ExecuteStep(p)
    \/ RestartAll

RunsSpec == RunsInit /\ [][RunsNext]_allVars

(* The operating system schedules every thread: a handler that started     *)
(* goes on.  No request and no restart is ever forced.                     *)
HandlerStep(p) ==
    \/ CallStep(p) \/ CreateRun(p) \/ AppendRun(p) \/ ExecuteStep(p)
    \/ p = Loop /\ (EditStep \/ Precheck)

FairRunsSpec == RunsSpec /\ \A p \in Procs : WF_allVars(HandlerStep(p))

-----------------------------------------------------------------------------
(* Correctness.                                                            *)

(* Whatever edits come between create and execute, and however many        *)
(* threads execute one run, what a run holds was computed from the model   *)
(* its snapshot_hash names.                                                *)
ResultOfOwnSnapshot ==
    \A r \in RunIds : runs[r] # NoRun =>
        LET run == runs[r]
        IN  /\ run.snapshot_hash = ComputeHash(run.snapshot)
            /\ run.raw_result \in {NoResult, run.snapshot_hash[3]}
            /\ run.white_box_trace \in {NoResult, run.snapshot_hash[3]}
            /\ run.power_flow_trace \in {NoResult, run.snapshot_hash[3]}

(* A finished run has its result and both traces, a failed run has no      *)
(* power_flow_trace, also while a second thread is executing it again.     *)
FinishedIsComplete ==
    \A r \in RunIds : runs[r] # NoRun =>
        /\ runs[r].status = "FINISHED" =>
              NoResult \notin {runs[r].raw_result, runs[r].white_box_trace,
                               runs[r].power_flow_trace}
        /\ runs[r].status = "FAILED" => runs[r].power_flow_trace = NoResult

(* The index by case and the table of runs agree: an identifier is listed  *)
(* once, under the case of its run, and only a run whose creation is still *)
(* going on is not listed.                                                 *)
Occurrences(r, c) == {i \in 1..Len(case_runs[c]) : case_runs[c][i] = r}
RunsListed ==
    \A r \in RunIds, c \in Cases :
        Cardinality(Occurrences(r, c)) =
            IF /\ runs[r] # NoRun
               /\ runs[r].case = c
               /\ \A p \in Procs : ~(step[p] = "append" /\ job[p] = r)
            THEN 1 ELSE 0

(* A run that is being executed reaches a final status, or a restart       *)
(* forgets it.                                                             *)
RunSettles ==
    \A r \in RunIds :
        (runs[r] # NoRun /\ runs[r].status = "RUNNING")
            ~> (runs[r] = NoRun \/ runs[r].status \in Terminal)

(* frontend/src/ui/study-cases/runStore.ts:11: a run is created in         *)
(* PENDING, transitioned to RUNNING, then DONE or FAILED.  A final status  *)
(* is final.                                                               *)
TerminalIsFinal ==
    [][\A r \in RunIds :
          runs[r] # NoRun /\ epoch' = epoch /\ runs[r].status \in Terminal
              => runs'[r].status = runs[r].status]_allVars
=============================================================================
