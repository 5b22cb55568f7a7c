------------------------ MODULE CanonicalRuns_proofs ------------------------
(***************************************************************************)
(* Proofs about canonical runs, for any number of runs and threads and any *)
(* interleaving with edits of the models.                                  *)
(***************************************************************************)
EXTENDS CanonicalRuns, EnmStore_proofs, SequenceTheorems,
        FiniteSetTheorems

(* Steps of a handler that has a run.                                      *)
Working == {"append", "start", "running", "solve", "trace", "report",
            "finish", "fail"}

(* Contents on which an execution goes through.                            *)
Executable == Solvable \cap Traceable \cap Reportable

(* What a run may hold: only what is computed from its own snapshot, a     *)
(* trace only after a result, and a final status only with its reason.     *)
RunOK(run) ==
    LET x == run.snapshot.content
    IN  /\ run.snapshot_hash = ComputeHash(run.snapshot)
        /\ run.raw_result \in {NoResult, x}
        /\ run.white_box_trace \in {NoResult, x}
        /\ run.power_flow_trace \in {NoResult, x}
        /\ run.raw_result # NoResult => x \in Solvable
        /\ run.white_box_trace # NoResult => x \in Solvable \cap Traceable
        /\ run.power_flow_trace # NoResult => x \in Executable
        /\ run.status = "FINISHED" => run.raw_result # NoResult
                                      /\ run.white_box_trace # NoResult
                                      /\ run.power_flow_trace # NoResult
        /\ run.status = "FAILED" => x \notin Executable

(* What a thread at a given step knows about the run it works on.          *)
Progress(label, run) ==
    LET x == run.snapshot.content
    IN  /\ label \in {"trace", "report", "finish"} =>
              x \in Solvable /\ run.raw_result # NoResult
        /\ label \in {"report", "finish"} =>
              x \in Traceable /\ run.white_box_trace # NoResult
        /\ label = "finish" => run.power_flow_trace # NoResult
        /\ label = "fail" => x \notin Executable

RunTableOK == \A r \in RunIds : runs[r] # NoRun => RunOK(runs[r])

JobsOK ==
    \A p \in Procs : step[p] \in Working =>
        /\ job[p] \in RunIds
        /\ runs[job[p]] # NoRun
        /\ Progress(step[p], runs[job[p]])

RunsInv == RunsTypeOK /\ StoreInv /\ RunTableOK /\ JobsOK

(* How one thread changes a run under the eyes of the others: the snapshot *)
(* stays, and what is there is not taken away.                             *)
Evolves(old, new) ==
    /\ new.snapshot = old.snapshot
    /\ new.raw_result = NoResult => old.raw_result = NoResult
    /\ new.white_box_trace = NoResult => old.white_box_trace = NoResult
    /\ new.power_flow_trace = NoResult => old.power_flow_trace = NoResult

LEMMA ProgressStable ==
    ASSUME NEW label, NEW old, NEW new, Evolves(old, new), Progress(label, old)
    PROVE  Progress(label, new)
  BY DEF Evolves, Progress

-----------------------------------------------------------------------------
(* As far as the store sees them, the handlers of runs are handlers that   *)
(* call get_enm and return.                                                *)
LEMMA RunsStepIsOpen ==
    RunsTypeOK /\ [RunsNext]_allVars => [OpenNext]_storeVars
<1> SUFFICES ASSUME RunsTypeOK, [RunsNext]_allVars PROVE [OpenNext]_storeVars
  OBVIOUS
<1> USE DEF OpenNext
<1>1. ASSUME EditRequest \/ EditStep PROVE StoreNext
  BY <1>1 DEF EditRequest, EditStep, StoreNext
<1>2. ASSUME NEW w \in Workers, NEW c \in Cases, PostRun(w, c) PROVE StoreNext
  BY <1>2 DEF PostRun, StoreNext
<1>3. ASSUME NEW c \in Cases, PostRunNow(c) PROVE HandlerCalls
  BY <1>3 DEF PostRunNow, HandlerCalls, Idle, Procs
<1>4. ASSUME Precheck PROVE HandlerCalls \/ HandlerEnds
  <2>1. at[Loop] \in Cases /\ Loop \in Procs
    BY DEF RunsTypeOK, StoreTypeOK, Procs
  <2> QED BY <1>4, <2>1 DEF Precheck, HandlerCalls, HandlerEnds
<1>5. ASSUME NEW p \in Procs, CallStep(p) PROVE StoreNext \/ HandlerFetches
  BY <1>5 DEF CallStep, StoreNext, GetEnmStep, HandlerFetches
<1>6. ASSUME NEW p \in Procs, CreateRun(p) PROVE HandlerEnds
  BY <1>6 DEF CreateRun, HandlerEnds
<1>7. ASSUME RestartAll PROVE StoreNext
  BY <1>7 DEF RestartAll, StoreNext
<1>8. ASSUME \/ \E p \in Procs : AppendRun(p)
             \/ \E p \in Procs : ExecuteStep(p)
             \/ \E w \in Workers, r \in RunIds : PostExecute(w, r)
             \/ UNCHANGED allVars
      PROVE  UNCHANGED storeVars
  BY <1>8 DEF AppendRun, ExecuteStep, CheckStatus, SetRunning, Solve,
              WriteTrace, WriteReport, Finish, Fail, PostExecute, allVars
<1> QED
  BY <1>1, <1>2, <1>3, <1>4, <1>5, <1>6, <1>7, <1>8 DEF RunsNext

LEMMA RunsInitInv == RunsInit => RunsInv
<1> SUFFICES ASSUME RunsInit PROVE RunsInv
  OBVIOUS
<1>1. StoreInv
  BY StoreInitInv DEF RunsInit
<1>2. << >> \in Seq(RunIds)
  OBVIOUS
<1>3. RunsTypeOK
  BY <1>1, <1>2 DEF RunsInit, RunsTypeOK, StoreInv, Steps
<1>4. RunTableOK /\ JobsOK
  BY DEF RunsInit, RunTableOK, JobsOK, Working
<1> QED BY <1>1, <1>3, <1>4 DEF RunsInv

-----------------------------------------------------------------------------
(* A thread at work on its run replaces it by one that evolved from it.    *)
LEMMA WorkInv ==
    ASSUME RunsInv, StoreInv', NEW p \in Procs, step[p] \in Working,
           NEW run \in Runs, RunOK(run), Evolves(runs[job[p]], run),
           runs' = [runs EXCEPT ![job[p]] = run],
           NEW label \in Steps, Progress(label, run),
           step' = [step EXCEPT ![p] = label],
           \/ label = "none" /\ job' = [job EXCEPT ![p] = NoRun]
           \/ UNCHANGED job,
           case_runs' \in [Cases -> Seq(RunIds)]
    PROVE  RunsInv'
<1>1. /\ job[p] \in RunIds
      /\ runs[job[p]] # NoRun
      /\ run # NoRun
  BY NoRunAssumption DEF RunsInv, JobsOK
<1>2. RunsTypeOK'
  BY <1>1 DEF RunsInv, RunsTypeOK, StoreInv
<1>3. RunTableOK'
  BY <1>1 DEF RunsInv, RunsTypeOK, RunTableOK
<1>4. ASSUME NEW q \in Procs, step'[q] \in Working
      PROVE  /\ job'[q] \in RunIds
             /\ runs'[job'[q]] # NoRun
             /\ Progress(step'[q], runs'[job'[q]])
  <2>1. CASE q = p
    BY <1>1, <1>4, <2>1 DEF RunsInv, RunsTypeOK, Working
  <2>2. CASE q # p
    <3>1. /\ step'[q] = step[q]
          /\ job'[q] = job[q]
          /\ job[q] \in RunIds
          /\ runs[job[q]] # NoRun
          /\ Progress(step[q], runs[job[q]])
      BY <1>4, <2>2 DEF RunsInv, RunsTypeOK, JobsOK
    <3>2. CASE job[q] = job[p]
      BY <1>1, <3>1, <3>2, ProgressStable DEF RunsInv, RunsTypeOK
    <3>3. CASE job[q] # job[p]
      BY <1>1, <3>1, <3>3 DEF RunsInv, RunsTypeOK
    <3> QED BY <3>2, <3>3
  <2> QED BY <2>1, <2>2
<1>5. JobsOK'
  BY <1>4 DEF JobsOK
<1> QED BY <1>2, <1>3, <1>5 DEF RunsInv

(* A handler that neither has nor gets a run.                              *)
LEMMA IdleWorkInv ==
    ASSUME RunsInv, StoreInv', UNCHANGED <<runs, case_runs>>,
           NEW p \in Procs, NEW label \in Steps \ Working,
           step' = [step EXCEPT ![p] = label],
           job' \in {job, [job EXCEPT ![p] = NoRun]}
    PROVE  RunsInv'
<1>1. RunsTypeOK'
  BY DEF RunsInv, RunsTypeOK, StoreInv
<1>2. RunTableOK'
  BY DEF RunsInv, RunTableOK
<1>3. JobsOK'
  BY DEF RunsInv, RunsTypeOK, JobsOK
<1> QED BY <1>1, <1>2, <1>3 DEF RunsInv

(* A model that get_enm returned becomes a run.                            *)
LEMMA NewRunOK ==
    ASSUME NEW e \in Enms, e.case \in Cases
    PROVE  /\ NewRun(e) \in Runs
           /\ RunOK(NewRun(e))
           /\ NewRun(e) # NoRun
           /\ Progress("append", NewRun(e))
<1>1. ComputeHash(e) \in Hashes
  BY DEF ComputeHash, HashOf, Hashes, Enms
<1>2. NewRun(e) \in Runs
  BY <1>1 DEF NewRun, Runs, Statuses, Results
<1>3. RunOK(NewRun(e))
  BY DEF NewRun, RunOK
<1>4. Progress("append", NewRun(e))
  BY DEF Progress
<1> QED BY <1>2, <1>3, <1>4, NoRunAssumption

LEMMA CreateRunInv ==
    ASSUME RunsInv, StoreInv', NEW p \in Procs, CreateRun(p)
    PROVE  RunsInv'
<1>1. CASE view[p].content \notin Valid
  BY <1>1, IdleWorkInv DEF CreateRun, Done, Proceed, Steps, Working
<1>2. CASE view[p].content \in Valid
  <2>1. PICK r \in RunIds :
            /\ runs[r] = NoRun
            /\ runs' = [runs EXCEPT ![r] = NewRun(view[p])]
            /\ job' = [job EXCEPT ![p] = r]
    BY <1>2 DEF CreateRun
  <2>2. /\ step' = [step EXCEPT ![p] = "append"]
        /\ case_runs' = case_runs
        /\ pc[p] = "got"
    BY <1>2 DEF CreateRun, Proceed
  <2>3. view[p] \in Enms /\ view[p].case \in Cases
    BY <2>2 DEF RunsInv, StoreInv, FramesOK, Enms
  <2> DEFINE new == NewRun(view[p])
  <2>4. new \in Runs /\ RunOK(new) /\ new # NoRun /\ Progress("append", new)
    BY <2>3, NewRunOK
  <2>5. runs' = [runs EXCEPT ![r] = new]
    BY <2>1
  <2> HIDE DEF new
  <2>6. RunsTypeOK'
    BY <2>1, <2>2, <2>4, <2>5 DEF RunsInv, RunsTypeOK, StoreInv, Steps
  <2>7. RunTableOK'
    BY <2>4, <2>5 DEF RunsInv, RunsTypeOK, RunTableOK
  <2>8. JobsOK'
    BY <2>1, <2>2, <2>4, <2>5 DEF RunsInv, RunsTypeOK, JobsOK
  <2> QED BY <2>6, <2>7, <2>8 DEF RunsInv
<1> QED BY <1>1, <1>2

(* The run a thread works on, with its parts.                              *)
LEMMA JobOK ==
    ASSUME RunsInv, NEW p \in Procs, step[p] \in Working
    PROVE  LET run == runs[job[p]]
           IN  /\ job[p] \in RunIds
               /\ run \in Runs
               /\ RunOK(run)
               /\ Progress(step[p], run)
               /\ run.case \in Cases
               /\ run.snapshot \in Enms
               /\ run.snapshot.content \in Contents
               /\ run.status \in Statuses
               /\ run.raw_result \in Results
               /\ run.white_box_trace \in Results
               /\ run.power_flow_trace \in Results
<1>1. job[p] \in RunIds /\ runs[job[p]] \in Runs
  BY DEF RunsInv, JobsOK, RunsTypeOK
<1>2. RunOK(runs[job[p]]) /\ Progress(step[p], runs[job[p]])
  BY DEF RunsInv, JobsOK, RunTableOK
<1> QED BY <1>1, <1>2 DEF Runs, Enms

LEMMA AppendRunInv ==
    ASSUME RunsInv, StoreInv', NEW p \in Procs, AppendRun(p)
    PROVE  RunsInv'
<1> DEFINE run == runs[job[p]]
           label == IF p = Loop THEN "start" ELSE "none"
<1>1. step[p] = "append" /\ step[p] \in Working
  BY DEF AppendRun, Working
<1>2. job[p] \in RunIds /\ run \in Runs /\ RunOK(run) /\ run.case \in Cases
  BY <1>1, JobOK
<1>3. case_runs[run.case] \in Seq(RunIds)
  BY <1>2 DEF RunsInv, RunsTypeOK
<1>4. Append(case_runs[run.case], job[p]) \in Seq(RunIds)
  BY <1>2, <1>3
<1>5. case_runs' \in [Cases -> Seq(RunIds)]
  BY <1>2, <1>4 DEF AppendRun, RunsInv, RunsTypeOK
<1>6. Evolves(run, run) /\ Progress(label, run)
  BY DEF Evolves, Progress
<1>7. /\ label \in Steps
      /\ step' = [step EXCEPT ![p] = label]
      /\ \/ label = "none" /\ job' = [job EXCEPT ![p] = NoRun]
         \/ UNCHANGED job
  BY DEF AppendRun, Proceed, Done, Steps
<1>8. runs' = [runs EXCEPT ![job[p]] = run]
  BY DEF AppendRun, RunsInv, RunsTypeOK
<1> QED BY <1>1, <1>2, <1>5, <1>6, <1>7, <1>8, WorkInv

LEMMA ExecuteStepInv ==
    ASSUME RunsInv, StoreInv', NEW p \in Procs, ExecuteStep(p)
    PROVE  RunsInv'
<1> DEFINE run == runs[job[p]]
           x == run.snapshot.content
<1>1. step[p] \in Working
  BY DEF ExecuteStep, CheckStatus, SetRunning, Solve, WriteTrace, WriteReport,
         Finish, Fail,
         Working
<1>2. /\ job[p] \in RunIds
      /\ run \in Runs
      /\ RunOK(run)
      /\ Progress(step[p], run)
      /\ x \in Contents
  BY <1>1, JobOK
<1>3. NoResult \notin Contents /\ x # NoResult
  BY <1>2, ModelAssumption DEF NoResult
<1>4. case_runs' \in [Cases -> Seq(RunIds)]
  BY DEF ExecuteStep, CheckStatus, SetRunning, Solve, WriteTrace, WriteReport,
         Finish, Fail,
         RunsInv, RunsTypeOK
<1>5. runs \in [RunIds -> Runs \cup {NoRun}]
  BY DEF RunsInv, RunsTypeOK
<1>6. CASE CheckStatus(p)
  <2>1. Evolves(run, run) /\ runs' = [runs EXCEPT ![job[p]] = run]
    BY <1>5, <1>6 DEF CheckStatus, Evolves
  <2>2. Progress("running", run) /\ Progress("none", run)
    BY DEF Progress
  <2> QED
    BY <1>1, <1>2, <1>4, <1>6, <2>1, <2>2, WorkInv
       DEF CheckStatus, Done, Proceed, Steps
<1>7. CASE SetRunning(p)
  <2> DEFINE new == [run EXCEPT !.status = "RUNNING"]
  <2>1. new \in Runs /\ RunOK(new) /\ Evolves(run, new)
    BY <1>2 DEF Runs, Statuses, RunOK, Evolves
  <2>2. runs' = [runs EXCEPT ![job[p]] = new]
    BY <1>7 DEF SetRunning, SetStatus
  <2>3. Progress("solve", new)
    BY DEF Progress
  <2> HIDE DEF new
  <2> QED
    BY <1>1, <1>2, <1>4, <1>7, <2>1, <2>2, <2>3, WorkInv
       DEF SetRunning, Proceed, Steps
<1>8. CASE Solve(p) /\ x \in Solvable
  <2> DEFINE new == [run EXCEPT !.raw_result = x]
  <2>1. new \in Runs /\ RunOK(new) /\ Evolves(run, new)
    BY <1>2, <1>3, <1>8 DEF Runs, Results, RunOK, Evolves
  <2>2. runs' = [runs EXCEPT ![job[p]] = new]
    BY <1>8 DEF Solve
  <2>3. Progress("trace", new)
    BY <1>2, <1>3, <1>8 DEF Progress, Runs
  <2> HIDE DEF new
  <2> QED
    BY <1>1, <1>2, <1>4, <1>8, <2>1, <2>2, <2>3, WorkInv
       DEF Solve, Proceed, Steps
<1>9. CASE Solve(p) /\ x \notin Solvable
  <2>1. Evolves(run, run) /\ runs' = [runs EXCEPT ![job[p]] = run]
    BY <1>5, <1>9 DEF Solve, Evolves
  <2>2. Progress("fail", run)
    BY <1>9 DEF Progress, Executable
  <2> QED
    BY <1>1, <1>2, <1>4, <1>9, <2>1, <2>2, WorkInv
       DEF Solve, Proceed, Steps
<1>10. CASE WriteTrace(p) /\ x \in Traceable
  <2> DEFINE new == [run EXCEPT !.white_box_trace = x]
  <2>1. x \in Solvable /\ run.raw_result # NoResult
    BY <1>2, <1>10 DEF WriteTrace, Progress
  <2>2. new \in Runs /\ RunOK(new) /\ Evolves(run, new)
    BY <1>2, <1>3, <1>10, <2>1 DEF Runs, Results, RunOK, Evolves
  <2>3. runs' = [runs EXCEPT ![job[p]] = new]
    BY <1>10 DEF WriteTrace
  <2>4. Progress("report", new)
    BY <1>2, <1>3, <1>10, <2>1 DEF Progress, Runs
  <2> HIDE DEF new
  <2> QED
    BY <1>1, <1>2, <1>4, <1>10, <2>2, <2>3, <2>4, WorkInv
       DEF WriteTrace, Proceed, Steps
<1>11. CASE WriteTrace(p) /\ x \notin Traceable
  <2>1. Evolves(run, run) /\ runs' = [runs EXCEPT ![job[p]] = run]
    BY <1>5, <1>11 DEF WriteTrace, Evolves
  <2>2. Progress("fail", run)
    BY <1>11 DEF Progress, Executable
  <2> QED
    BY <1>1, <1>2, <1>4, <1>11, <2>1, <2>2, WorkInv
       DEF WriteTrace, Proceed, Steps
<1>14. CASE WriteReport(p) /\ x \in Reportable
  <2> DEFINE new == [run EXCEPT !.power_flow_trace = x]
  <2>1. /\ x \in Executable /\ run.raw_result # NoResult
        /\ run.white_box_trace # NoResult
    BY <1>2, <1>14 DEF WriteReport, Progress, Executable
  <2>2. new \in Runs /\ RunOK(new) /\ Evolves(run, new)
    BY <1>2, <1>3, <1>14, <2>1 DEF Runs, Results, RunOK, Evolves
  <2>3. runs' = [runs EXCEPT ![job[p]] = new]
    BY <1>14 DEF WriteReport
  <2>4. Progress("finish", new)
    BY <1>2, <1>3, <1>14, <2>1 DEF Progress, Runs, Executable
  <2> HIDE DEF new
  <2> QED
    BY <1>1, <1>2, <1>4, <1>14, <2>2, <2>3, <2>4, WorkInv
       DEF WriteReport, Proceed, Steps
<1>15. CASE WriteReport(p) /\ x \notin Reportable
  <2>1. Evolves(run, run) /\ runs' = [runs EXCEPT ![job[p]] = run]
    BY <1>5, <1>15 DEF WriteReport, Evolves
  <2>2. Progress("fail", run)
    BY <1>15 DEF Progress, Executable
  <2> QED
    BY <1>1, <1>2, <1>4, <1>15, <2>1, <2>2, WorkInv
       DEF WriteReport, Proceed, Steps
<1>12. CASE Finish(p)
  <2> DEFINE new == [run EXCEPT !.status = "FINISHED"]
  <2>1. /\ run.raw_result # NoResult /\ run.white_box_trace # NoResult
        /\ run.power_flow_trace # NoResult
    BY <1>2, <1>12 DEF Finish, Progress
  <2>2. new \in Runs /\ RunOK(new) /\ Evolves(run, new)
    BY <1>2, <2>1 DEF Runs, Statuses, Terminal, RunOK, Evolves
  <2>3. runs' = [runs EXCEPT ![job[p]] = new]
    BY <1>12 DEF Finish, SetStatus
  <2>4. Progress("none", new)
    BY DEF Progress
  <2> HIDE DEF new
  <2> QED
    BY <1>1, <1>2, <1>4, <1>12, <2>2, <2>3, <2>4, WorkInv
       DEF Finish, Done, Proceed, Steps
<1>13. CASE Fail(p)
  <2> DEFINE new == [run EXCEPT !.status = "FAILED"]
  <2>1. x \notin Executable
    BY <1>2, <1>13 DEF Fail, Progress
  <2>2. new \in Runs /\ RunOK(new) /\ Evolves(run, new)
    BY <1>2, <2>1 DEF Runs, Statuses, Terminal, RunOK, Evolves
  <2>3. runs' = [runs EXCEPT ![job[p]] = new]
    BY <1>13 DEF Fail, SetStatus
  <2>4. Progress("none", new)
    BY DEF Progress
  <2> HIDE DEF new
  <2> QED
    BY <1>1, <1>2, <1>4, <1>13, <2>2, <2>3, <2>4, WorkInv
       DEF Fail, Done, Proceed, Steps
<1> QED
  BY <1>6, <1>7, <1>8, <1>9, <1>10, <1>11, <1>12, <1>13, <1>14, <1>15
     DEF ExecuteStep, Solve, WriteTrace, WriteReport

-----------------------------------------------------------------------------
LEMMA RunsNextInv == RunsInv /\ [RunsNext]_allVars => RunsInv'
<1> SUFFICES ASSUME RunsInv, [RunsNext]_allVars PROVE RunsInv'
  OBVIOUS
<1>1. StoreInv'
  BY RunsStepIsOpen, StoreNextInv DEF RunsInv
<1>2. ASSUME UNCHANGED runVars PROVE RunsInv'
  BY <1>1, <1>2
     DEF RunsInv, RunsTypeOK, StoreInv, RunTableOK, JobsOK, runVars
<1>3. ASSUME NEW w \in Workers, NEW c \in Cases, PostRun(w, c) PROVE RunsInv'
  BY <1>1, <1>3, IdleWorkInv DEF PostRun, Proceed, Steps, Working, Procs
<1>4. ASSUME NEW w \in Workers, NEW r \in RunIds, PostExecute(w, r)
      PROVE  RunsInv'
  <2>1. /\ runs[r] # NoRun
        /\ job' = [job EXCEPT ![w] = r]
        /\ step' = [step EXCEPT ![w] = "start"]
        /\ UNCHANGED <<runs, case_runs>>
        /\ w \in Procs
    BY <1>4 DEF PostExecute, Proceed, Procs
  <2>2. RunsTypeOK'
    BY <1>1, <2>1 DEF RunsInv, RunsTypeOK, StoreInv, Steps
  <2>3. RunTableOK'
    BY <2>1 DEF RunsInv, RunTableOK
  <2>4. JobsOK'
    BY <2>1 DEF RunsInv, RunsTypeOK, JobsOK, Progress
  <2> QED BY <1>1, <2>2, <2>3, <2>4 DEF RunsInv
<1>5. ASSUME NEW c \in Cases, PostRunNow(c) PROVE RunsInv'
  BY <1>1, <1>5, IdleWorkInv DEF PostRunNow, Proceed, Steps, Working, Procs
<1>6. CASE Precheck
  <2>1. Loop \in Procs
    BY DEF Procs
  <2>2. CASE view[Loop].content \in Valid
    BY <1>1, <1>6, <2>1, <2>2, IdleWorkInv
       DEF Precheck, Proceed, Steps, Working
  <2>3. CASE view[Loop].content \notin Valid
    BY <1>1, <1>6, <2>1, <2>3, IdleWorkInv
       DEF Precheck, Done, Proceed, Steps, Working
  <2> QED BY <2>2, <2>3
<1>7. CASE RestartAll
  <2>1. << >> \in Seq(RunIds)
    OBVIOUS
  <2>2. RunsTypeOK'
    BY <1>1, <1>7, <2>1 DEF RestartAll, RunsTypeOK, StoreInv, Steps
  <2>3. RunTableOK' /\ JobsOK'
    BY <1>7 DEF RestartAll, RunTableOK, JobsOK, Working
  <2> QED BY <1>1, <2>2, <2>3 DEF RunsInv
<1>8. ASSUME NEW p \in Procs, CallStep(p) PROVE RunsInv'
  BY <1>2, <1>8 DEF CallStep
<1>9. CASE EditRequest \/ EditStep \/ UNCHANGED allVars
  BY <1>2, <1>9 DEF EditRequest, EditStep, allVars
<1> QED
  BY <1>1, <1>3, <1>4, <1>5, <1>6, <1>7, <1>8, <1>9,
     CreateRunInv, AppendRunInv, ExecuteStepInv
     DEF RunsNext

LEMMA RunsInvariant == RunsSpec => []RunsInv
  BY RunsInitInv, RunsNextInv, PTL DEF RunsSpec

(* The variables of the runs and of the store under them keep their types  *)
(* under every interleaving: a job is a run, a listed identifier is one.   *)
THEOREM RunsTypeCorrect == RunsSpec => []RunsTypeOK
<1>1. RunsInv => RunsTypeOK
  BY DEF RunsInv
<1> QED
  BY <1>1, RunsInvariant, PTL

(* A run never holds a result or a trace of another model than the one its *)
(* snapshot_hash names, whatever edits and executions go on around it.     *)
THEOREM ResultsOfOwnSnapshot == RunsSpec => []ResultOfOwnSnapshot
<1>1. ASSUME RunsInv, NEW r \in RunIds, runs[r] # NoRun
      PROVE  LET run == runs[r]
             IN  /\ run.snapshot_hash = ComputeHash(run.snapshot)
                 /\ run.raw_result \in {NoResult, run.snapshot_hash[3]}
                 /\ run.white_box_trace \in {NoResult, run.snapshot_hash[3]}
                 /\ run.power_flow_trace \in {NoResult, run.snapshot_hash[3]}
  <2>1. RunOK(runs[r])
    BY <1>1 DEF RunsInv, RunTableOK
  <2>2. ComputeHash(runs[r].snapshot)[3] = runs[r].snapshot.content
    BY DEF ComputeHash, HashOf
  <2> QED BY <2>1, <2>2 DEF RunOK
<1>2. RunsInv => ResultOfOwnSnapshot
  BY <1>1 DEF ResultOfOwnSnapshot
<1> QED
  BY <1>2, RunsInvariant, PTL

(* A run whose status is FINISHED has its result and both traces, and one  *)
(* that is FAILED has no power_flow_trace, however many threads execute it.*)
THEOREM FinishedRunsComplete == RunsSpec => []FinishedIsComplete
<1>1. RunsInv => FinishedIsComplete
  BY DEF RunsInv, RunTableOK, RunOK, FinishedIsComplete
<1> QED
  BY <1>1, RunsInvariant, PTL

(* The handlers of runs, which read the models of the store from any       *)
(* thread and from the event loop, make it lose no update: what NoLost-    *)
(* Updates says of the store alone holds with the runs around it.          *)
THEOREM RunsLoseNoUpdates == RunsSpec => SettledNeverLosesUpdates
<1>1. RunsInv => RunsTypeOK /\ StoreInv
  BY DEF RunsInv
<1> QED
  BY <1>1, RunsInvariant, RunsStepIsOpen, EveryCaseSettledStep, PTL
     DEF RunsSpec, SettledNeverLosesUpdates
-----------------------------------------------------------------------------
(* The index by case.  An identifier that is to be listed occurs at one    *)
(* place, any other at none, and no two creations still under way are of   *)
(* the same run: otherwise the second append would list it twice.          *)
Appending(p, r) == step[p] = "append" /\ job[p] = r

ToBeListed(r, c) ==
    /\ runs[r] # NoRun
    /\ runs[r].case = c
    /\ \A p \in Procs : ~Appending(p, r)

AppendersDiffer ==
    \A p, q \in Procs, r \in RunIds :
        Appending(p, r) /\ Appending(q, r) => p = q

IndexOK ==
    \A r \in RunIds, c \in Cases :
        /\ ToBeListed(r, c) =>
              \E i \in 1..Len(case_runs[c]) : Occurrences(r, c) = {i}
        /\ ~ToBeListed(r, c) => Occurrences(r, c) = {}

ListInv == RunsInv /\ AppendersDiffer /\ IndexOK

(* Most steps leave the index, the set of runs with their cases and the    *)
(* creations under way as they are.                                        *)
IndexUnmoved ==
    /\ case_runs' = case_runs
    /\ \A r \in RunIds : runs[r] = NoRun <=> runs'[r] = NoRun
    /\ \A r \in RunIds : runs[r] # NoRun => runs'[r].case = runs[r].case
    /\ \A p \in Procs, r \in RunIds : Appending(p, r)' <=> Appending(p, r)

LEMMA UnmovedListInv ==
    ASSUME ListInv, RunsInv', IndexUnmoved
    PROVE  ListInv'
<1>1. AppendersDiffer'
  BY DEF ListInv, AppendersDiffer, IndexUnmoved
<1>2. ASSUME NEW r \in RunIds, NEW c \in Cases
      PROVE  /\ ToBeListed(r, c)' <=> ToBeListed(r, c)
             /\ Occurrences(r, c)' = Occurrences(r, c)
             /\ case_runs'[c] = case_runs[c]
  BY DEF IndexUnmoved, ToBeListed, Occurrences
<1>3. IndexOK'
  BY <1>2 DEF ListInv, IndexOK
<1> QED BY <1>1, <1>3 DEF ListInv

(* A process that neither was nor comes to be appending a run.             *)
LEMMA UnmovedBy ==
    ASSUME RunsInv, case_runs' = case_runs,
           NEW p \in Procs, step[p] # "append",
           NEW label, label # "append", step' = [step EXCEPT ![p] = label],
           NEW j, job' = [job EXCEPT ![p] = j],
           \/ UNCHANGED runs
           \/ /\ job[p] \in RunIds
              /\ runs[job[p]] # NoRun
              /\ \E run \in Runs :
                    /\ runs' = [runs EXCEPT ![job[p]] = run]
                    /\ run.case = runs[job[p]].case
    PROVE  IndexUnmoved
<1>1. ASSUME NEW q \in Procs, NEW r \in RunIds
      PROVE  Appending(q, r)' <=> Appending(q, r)
  <2>1. step \in [Procs -> Steps] /\ job \in [Procs -> RunIds \cup {NoRun}]
    BY DEF RunsInv, RunsTypeOK
  <2>2. CASE q = p
    BY <2>1, <2>2 DEF Appending
  <2>3. CASE q # p
    BY <2>1, <2>3 DEF Appending
  <2> QED BY <2>2, <2>3
<1>2. ASSUME NEW r \in RunIds
      PROVE  /\ runs[r] = NoRun <=> runs'[r] = NoRun
             /\ runs[r] # NoRun => runs'[r].case = runs[r].case
  BY NoRunAssumption DEF RunsInv, RunsTypeOK
<1> QED BY <1>1, <1>2 DEF IndexUnmoved

LEMMA CreateListInv ==
    ASSUME ListInv, RunsInv', NEW p \in Procs, CreateRun(p)
    PROVE  ListInv'
<1> USE DEF ListInv
<1>t. /\ step \in [Procs -> Steps]
      /\ job \in [Procs -> RunIds \cup {NoRun}]
      /\ runs \in [RunIds -> Runs \cup {NoRun}]
  BY DEF RunsInv, RunsTypeOK
<1>c. step[p] = "create" /\ case_runs' = case_runs
  BY DEF CreateRun
<1>1. CASE view[p].content \notin Valid
  <2>1. IndexUnmoved
    BY <1>c, <1>1, UnmovedBy DEF CreateRun, Done, Proceed
  <2> QED BY <2>1, UnmovedListInv
<1>2. CASE view[p].content \in Valid
  <2>1. PICK new \in RunIds :
            /\ runs[new] = NoRun
            /\ runs' = [runs EXCEPT ![new] = NewRun(view[p])]
            /\ job' = [job EXCEPT ![p] = new]
    BY <1>2 DEF CreateRun
  <2>2. step' = [step EXCEPT ![p] = "append"]
    BY <1>2 DEF CreateRun, Proceed
  (* No creation under way is of the new run, which was not there.         *)
  <2>3. \A q \in Procs : ~Appending(q, new)
    BY <2>1 DEF RunsInv, JobsOK, Working, Appending
  <2>4. /\ Appending(p, new)'
        /\ \A r \in RunIds : ~Appending(p, r)
        /\ \A r \in RunIds : Appending(p, r)' => r = new
        /\ \A q \in Procs, r \in RunIds :
              q # p => (Appending(q, r)' <=> Appending(q, r))
    BY <1>t, <1>c, <2>1, <2>2 DEF Appending
  <2>5. AppendersDiffer'
    <3> SUFFICES ASSUME NEW q \in Procs, NEW s \in Procs, NEW r \in RunIds,
                        Appending(q, r)', Appending(s, r)'
                 PROVE  q = s
      BY DEF AppendersDiffer
    <3>1. CASE r = new
      BY <2>3, <2>4, <3>1
    <3>2. CASE r # new
      BY <2>4, <3>2 DEF AppendersDiffer
    <3> QED BY <3>1, <3>2
  <2>6. ASSUME NEW r \in RunIds, NEW c \in Cases
        PROVE  /\ ToBeListed(r, c)' <=> ToBeListed(r, c)
               /\ Occurrences(r, c)' = Occurrences(r, c)
    <3>1. CASE r = new
      BY <1>c, <2>1, <2>4, <3>1 DEF ToBeListed, Occurrences
    <3>2. CASE r # new
      <4>1. runs'[r] = runs[r]
        BY <1>t, <2>1, <3>2
      <4>2. \A q \in Procs : Appending(q, r)' <=> Appending(q, r)
        BY <2>4, <3>2
      <4> QED BY <1>c, <4>1, <4>2 DEF ToBeListed, Occurrences
    <3> QED BY <3>1, <3>2
  <2>7. IndexOK'
    BY <1>c, <2>6 DEF IndexOK
  <2> QED BY <2>5, <2>7
<1> QED BY <1>1, <1>2

LEMMA AppendListInv ==
    ASSUME ListInv, RunsInv', NEW p \in Procs, AppendRun(p)
    PROVE  ListInv'
<1> USE DEF ListInv
<1>t. /\ step \in [Procs -> Steps]
      /\ job \in [Procs -> RunIds \cup {NoRun}]
      /\ case_runs \in [Cases -> Seq(RunIds)]
  BY DEF RunsInv, RunsTypeOK
<1>a. step[p] = "append" /\ step[p] \in Working
  BY DEF AppendRun, Working
<1>b. PICK new \in RunIds, home \in Cases :
          job[p] = new /\ runs[new] # NoRun /\ runs[new].case = home
  BY <1>a, JobOK DEF RunsInv, JobsOK
<1>c. PICK old \in Seq(RunIds) : case_runs[home] = old
  BY <1>t
<1>1. /\ step[p] = "append"
      /\ runs' = runs
      /\ case_runs' = [case_runs EXCEPT ![home] = Append(old, new)]
  BY <1>b, <1>c DEF AppendRun
<1>2. new \in RunIds /\ runs[new] # NoRun /\ home \in Cases
  BY <1>b
<1>3. old \in Seq(RunIds)
  BY <1>c
<1>4. \E label \in {"start", "none"} : step' = [step EXCEPT ![p] = label]
  BY DEF AppendRun, Done, Proceed
<1>5. /\ \A r \in RunIds : ~Appending(p, r)'
      /\ \A q \in Procs, r \in RunIds :
            q # p => (Appending(q, r)' <=> Appending(q, r))
  <2>1. \A q \in Procs : q # p => step'[q] = step[q] /\ job'[q] = job[q]
    BY <1>t DEF AppendRun, Done, Proceed
  <2> QED BY <1>t, <1>4, <2>1 DEF Appending
<1>6. AppendersDiffer'
  BY <1>5 DEF AppendersDiffer
<1>7. Appending(p, new) /\ \A q \in Procs : ~Appending(q, new)'
  <2>1. Appending(p, new)
    BY <1>a, <1>b DEF Appending
  <2>2. ASSUME NEW q \in Procs PROVE ~Appending(q, new)'
    BY <1>5, <2>1 DEF AppendersDiffer
  <2> QED BY <2>1, <2>2
<1>8. ASSUME NEW r \in RunIds, NEW c \in Cases
      PROVE  /\ ToBeListed(r, c)' =>
                   \E i \in 1..Len(case_runs'[c]) : Occurrences(r, c)' = {i}
             /\ ~ToBeListed(r, c)' => Occurrences(r, c)' = {}
  <2>1. CASE c # home
    <3>1. case_runs'[c] = case_runs[c]
      BY <1>1, <1>t, <2>1
    <3>2. ToBeListed(r, c)' <=> ToBeListed(r, c)
      <4>1. CASE r = new
        BY <1>1, <1>b, <2>1, <4>1 DEF ToBeListed
      <4>2. CASE r # new
        <5>1. \A q \in Procs : Appending(q, r)' <=> Appending(q, r)
          BY <1>b, <1>5, <4>2 DEF Appending
        <5> QED BY <1>1, <5>1 DEF ToBeListed
      <4> QED BY <4>1, <4>2
    <3>3. Occurrences(r, c)' = Occurrences(r, c)
      BY <3>1 DEF Occurrences
    <3> QED BY <3>1, <3>2, <3>3 DEF IndexOK
  <2>2. CASE c = home
    <3>1. case_runs'[c] = Append(old, new)
      BY <1>1, <1>2, <1>t, <2>2
    <3>2. /\ Len(case_runs'[c]) = Len(old) + 1
          /\ \A i \in 1..Len(old) : case_runs'[c][i] = old[i]
          /\ case_runs'[c][Len(old) + 1] = new
          /\ Len(old) \in Nat
      BY <1>2, <1>3, <3>1, AppendProperties
    <3>3. CASE r = new
      <4>1. Occurrences(r, c) = {}
        BY <1>7, <2>2, <3>3 DEF IndexOK, ToBeListed
      <4>2. Occurrences(r, c)' = {Len(old) + 1}
        BY <1>c, <2>2, <3>2, <3>3, <4>1 DEF Occurrences
      <4>3. ToBeListed(r, c)'
        BY <1>1, <1>b, <1>7, <2>2, <3>3 DEF ToBeListed
      <4> QED BY <3>2, <4>2, <4>3
    <3>4. CASE r # new
      <4>1. Occurrences(r, c)' = Occurrences(r, c)
        BY <1>c, <2>2, <3>2, <3>4 DEF Occurrences
      <4>2. ToBeListed(r, c)' <=> ToBeListed(r, c)
        <5>1. \A q \in Procs : Appending(q, r)' <=> Appending(q, r)
          BY <1>b, <1>5, <3>4 DEF Appending
        <5> QED BY <1>1, <5>1 DEF ToBeListed
      <4> QED BY <1>c, <2>2, <3>2, <4>1, <4>2 DEF IndexOK
    <3> QED BY <3>3, <3>4
  <2> QED BY <2>1, <2>2
<1>9. IndexOK'
  BY <1>8 DEF IndexOK
<1> QED BY <1>6, <1>9

LEMMA ExecuteListInv ==
    ASSUME ListInv, RunsInv', NEW p \in Procs, ExecuteStep(p)
    PROVE  ListInv'
<1> USE DEF ListInv
<1>1. /\ step[p] # "append"
      /\ step[p] \in Working
      /\ case_runs' = case_runs
  BY DEF ExecuteStep, CheckStatus, SetRunning, Solve, WriteTrace, WriteReport,
         Finish, Fail,
         Working
<1>2. /\ job[p] \in RunIds
      /\ runs[job[p]] # NoRun
      /\ runs[job[p]] \in Runs
      /\ runs[job[p]].snapshot.content \in Contents
  BY <1>1, JobOK DEF RunsInv, JobsOK
<1>3. \E label : label # "append" /\ step' = [step EXCEPT ![p] = label]
  BY DEF ExecuteStep, CheckStatus, SetRunning, Solve, WriteTrace, WriteReport,
         Finish, Fail, Done, Proceed
<1>4. \E j : job' = [job EXCEPT ![p] = j]
  <2>1. job = [job EXCEPT ![p] = job[p]]
    BY DEF RunsInv, RunsTypeOK
  <2> QED
    BY <2>1 DEF ExecuteStep, CheckStatus, SetRunning, Solve, WriteTrace,
                WriteReport, Finish, Fail, Done
<1>5. \/ UNCHANGED runs
      \/ \E run \in Runs : /\ runs' = [runs EXCEPT ![job[p]] = run]
                           /\ run.case = runs[job[p]].case
  <2> DEFINE run == runs[job[p]]
             x == run.snapshot.content
  <2>1. CASE CheckStatus(p)
    BY <2>1 DEF CheckStatus
  <2>2. CASE SetRunning(p)
    <3>1. [run EXCEPT !.status = "RUNNING"] \in Runs
      BY <1>2 DEF Runs, Statuses
    <3> QED BY <1>2, <2>2, <3>1 DEF SetRunning, SetStatus, Runs
  <2>3. CASE Solve(p)
    <3>1. [run EXCEPT !.raw_result = x] \in Runs
      BY <1>2 DEF Runs, Results
    <3> QED BY <1>2, <2>3, <3>1 DEF Solve, Runs
  <2>4. CASE WriteTrace(p)
    <3>1. [run EXCEPT !.white_box_trace = x] \in Runs
      BY <1>2 DEF Runs, Results
    <3> QED BY <1>2, <2>4, <3>1 DEF WriteTrace, Runs
  <2>7. CASE WriteReport(p)
    <3>1. [run EXCEPT !.power_flow_trace = x] \in Runs
      BY <1>2 DEF Runs, Results
    <3> QED BY <1>2, <2>7, <3>1 DEF WriteReport, Runs
  <2>5. CASE Finish(p)
    <3>1. [run EXCEPT !.status = "FINISHED"] \in Runs
      BY <1>2 DEF Runs, Statuses, Terminal
    <3> QED BY <1>2, <2>5, <3>1 DEF Finish, SetStatus, Runs
  <2>6. CASE Fail(p)
    <3>1. [run EXCEPT !.status = "FAILED"] \in Runs
      BY <1>2 DEF Runs, Statuses, Terminal
    <3> QED BY <1>2, <2>6, <3>1 DEF Fail, SetStatus, Runs
  <2> QED BY <2>1, <2>2, <2>3, <2>4, <2>5, <2>6, <2>7 DEF ExecuteStep
<1>6. IndexUnmoved
  BY <1>1, <1>2, <1>3, <1>4, <1>5, UnmovedBy
<1> QED BY <1>6, UnmovedListInv

NoRunsYet ==
    /\ runs = [r \in RunIds |-> NoRun]
    /\ case_runs = [c \in Cases |-> << >>]
    /\ step = [p \in Procs |-> "none"]

LEMMA EmptyIndex == RunsInv /\ NoRunsYet => ListInv
<1> SUFFICES ASSUME RunsInv, NoRunsYet PROVE ListInv
  OBVIOUS
<1>1. AppendersDiffer
  BY DEF NoRunsYet, AppendersDiffer, Appending
<1>2. ASSUME NEW r \in RunIds, NEW c \in Cases
      PROVE  ~ToBeListed(r, c) /\ Occurrences(r, c) = {}
  BY DEF NoRunsYet, ToBeListed, Occurrences
<1> QED BY <1>1, <1>2 DEF ListInv, IndexOK

LEMMA ListNextInv == ListInv /\ [RunsNext]_allVars => ListInv'
<1> SUFFICES ASSUME ListInv, [RunsNext]_allVars PROVE ListInv'
  OBVIOUS
<1>1. RunsInv /\ RunsInv'
  BY RunsNextInv DEF ListInv
<1>2. ASSUME UNCHANGED runVars PROVE ListInv'
  <2>1. IndexUnmoved
    BY <1>2 DEF runVars, IndexUnmoved, Appending
  <2> QED BY <1>1, <2>1, UnmovedListInv
<1>3. ASSUME NEW p \in Procs,
             \/ \E w \in Workers, c \in Cases : p = w /\ PostRun(w, c)
             \/ \E w \in Workers, r \in RunIds : p = w /\ PostExecute(w, r)
             \/ \E c \in Cases : p = Loop /\ PostRunNow(c)
             \/ p = Loop /\ Precheck
      PROVE  ListInv'
  <2>1. step[p] # "append" /\ UNCHANGED <<runs, case_runs>>
    BY <1>3 DEF PostRun, PostExecute, PostRunNow, Precheck, Idle
  <2>2. \E label : label # "append" /\ step' = [step EXCEPT ![p] = label]
    BY <1>3 DEF PostRun, PostExecute, PostRunNow, Precheck, Done, Proceed
  <2>3. job = [job EXCEPT ![p] = job[p]]
    BY <1>1 DEF RunsInv, RunsTypeOK
  <2>4. \E j : job' = [job EXCEPT ![p] = j]
    BY <1>3, <2>3 DEF PostRun, PostExecute, PostRunNow, Precheck, Done
  <2>5. IndexUnmoved
    BY <1>1, <2>1, <2>2, <2>4, UnmovedBy
  <2> QED BY <1>1, <2>5, UnmovedListInv
<1>4. CASE RestartAll
  <2>1. NoRunsYet'
    BY <1>4 DEF RestartAll, NoRunsYet
  <2> QED BY <1>1, <2>1, EmptyIndex, PTL
<1>5. ASSUME NEW p \in Procs, CallStep(p) PROVE ListInv'
  BY <1>2, <1>5 DEF CallStep
<1>6. CASE EditRequest \/ EditStep \/ UNCHANGED allVars
  BY <1>2, <1>6 DEF EditRequest, EditStep, allVars
<1>7. Loop \in Procs /\ Workers \subseteq Procs
  BY DEF Procs
<1> QED
  BY <1>1, <1>3, <1>4, <1>5, <1>6, <1>7,
     CreateListInv, AppendListInv, ExecuteListInv DEF RunsNext

(* The index by case lists every run whose creation is over exactly once,  *)
(* under its own case and under no other, and nothing else: two threads    *)
(* that create runs of one case lose and double none of them.              *)
THEOREM RunsAreListed == RunsSpec => []RunsListed
<1>1. RunsInit => ListInv
  BY RunsInitInv, EmptyIndex DEF RunsInit, NoRunsYet
<1>2. ASSUME ListInv, NEW r \in RunIds, NEW c \in Cases
      PROVE  Cardinality(Occurrences(r, c)) =
                 IF ToBeListed(r, c) THEN 1 ELSE 0
  <2>1. CASE ToBeListed(r, c)
    <3>1. PICK i \in 1..Len(case_runs[c]) : Occurrences(r, c) = {i}
      BY <1>2, <2>1 DEF ListInv, IndexOK
    <3>2. Cardinality({i}) = 1
      BY FS_Singleton
    <3> QED BY <2>1, <3>1, <3>2
  <2>2. CASE ~ToBeListed(r, c)
    BY <1>2, <2>2, FS_EmptySet DEF ListInv, IndexOK
  <2> QED BY <2>1, <2>2
<1>3. ListInv => RunsListed
  BY <1>2 DEF RunsListed, ToBeListed, Appending
<1> QED
  BY <1>1, <1>3, ListNextInv, PTL DEF RunsSpec
=============================================================================
