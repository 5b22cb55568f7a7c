----------------------------- MODULE StudyCases -----------------------------
(***************************************************************************)
(* Study cases of projects in the SQL database: which case is active and   *)
(* whether its results are up to date (backend/src/domain/study_case.py,   *)
(* application/study_case/service.py, the case repository).  Endpoints run *)
(* in threads of a pool, each with a session and a transaction of its own. *)
(*                                                                         *)
(* Every statement sees what is committed when it runs, and reads take no  *)
(* lock, on SQLite (default of api/main.py) as on PostgreSQL (docker-      *)
(* compose.yml).  They differ in what a write has to wait for: Exclusive   *)
(* is SQLite's one writing transaction at a time, its negation are locks   *)
(* on rows.  The ORM writes the columns that differ from what its own      *)
(* session read last; other columns keep what others committed meanwhile.  *)
(***************************************************************************)
CONSTANTS
    Cases,          \* identifiers of cases, the bound on their number
    Projects,
    Procs,          \* threads of the pool
    NoRow,          \* the identifier was not given to a case yet
    DeletedRow,     \* the case was deleted
    NoJob,          \* absence of a request
    Exclusive       \* one writing transaction at a time

Statuses == {"NONE", "FRESH", "OUTDATED"}
Columns == {"is_active", "result_status"}
Rows == [project : Projects, is_active : BOOLEAN, result_status : Statuses]

(* What a handler holds: the request, the row it has read and changed, and *)
(* the columns the ORM is going to write.                                  *)
Jobs ==
    [op : {"create", "activate", "update", "fresh", "outdate"},
     project : Projects, case : Cases \cup {NoRow}, row : Rows \cup {NoRow},
     write : SUBSET Columns]

ASSUME CasesAssumption ==
    /\ NoRow # DeletedRow
    /\ {NoRow, DeletedRow} \cap Rows = {}
    /\ NoJob \notin Jobs
    /\ NoRow \notin Cases
    /\ Exclusive \in BOOLEAN

VARIABLES
    rows,           \* the committed table of study cases
    step,           \* where each thread is in its handler
    job,            \* its request, or NoJob
    cleared,        \* rows it has deactivated and not committed
    crossed         \* projects whose case was activated last by a request
                    \* that named another project (history)

casesVars == <<rows, step, job, cleared, crossed>>

(* Between the first and the last statement of a writing transaction.      *)
Writing(p) == step[p] \in {"insert", "activate", "rewrite"}

CasesTypeOK ==
    /\ rows \in [Cases -> Rows \cup {NoRow, DeletedRow}]
    /\ step \in [Procs -> {"idle", "insert", "activate", "reread",
                           "deactivate", "rewrite", "flush"}]
    /\ job \in [Procs -> Jobs \cup {NoJob}]
    /\ cleared \in [Procs -> SUBSET Cases]
    /\ crossed \in SUBSET Projects
    /\ \A p \in Procs : cleared[p] # {} => Writing(p)

CasesInit ==
    /\ rows = [c \in Cases |-> NoRow]
    /\ step = [p \in Procs |-> "idle"]
    /\ job = [p \in Procs |-> NoJob]
    /\ cleared = [p \in Procs |-> {}]
    /\ crossed = {}

Exists(c) == rows[c] \notin {NoRow, DeletedRow}
RowsOf(P) == {c \in Cases : Exists(c) /\ rows[c].project = P}

-----------------------------------------------------------------------------
(* Sessions and transactions.                                              *)

(* A statement that writes the rows S need not wait for another thread.    *)
MayWrite(p, S) ==
    \A q \in Procs \ {p} :
        Writing(q) => ~Exclusive /\ cleared[q] \cap S = {}

Start(p, label, j) ==
    /\ step[p] = "idle"
    /\ step' = [step EXCEPT ![p] = label]
    /\ job' = [job EXCEPT ![p] = j]

Close(p) ==
    /\ step' = [step EXCEPT ![p] = "idle"]
    /\ job' = [job EXCEPT ![p] = NoJob]
    /\ cleared' = [cleared EXCEPT ![p] = {}]

(* UnitOfWork.__exit__ after an exception.  The mutant only closes what the*)
(* service holds.                                                          *)
Rollback_KeepsLocks(p) ==
    /\ step' = [step EXCEPT ![p] = "idle"]
    /\ job' = [job EXCEPT ![p] = NoJob]
    /\ UNCHANGED <<rows, cleared, crossed>>
Rollback(p) == Close(p) /\ UNCHANGED <<rows, crossed>>

(* The table with the uncommitted deactivations of a thread.               *)
Deactivated(p) ==
    [c \in Cases |-> IF c \in cleared[p]
                     THEN [rows[c] EXCEPT !.is_active = FALSE]
                     ELSE rows[c]]

Commit(p, c, row) ==
    /\ rows' = [Deactivated(p) EXCEPT ![c] = row]
    /\ crossed' = (crossed \ IF Writing(p) THEN {job[p].project} ELSE {})
                    \cup ({row.project} \ {job[p].project})
    /\ Close(p)

(* _deactivate_all_cases: one UPDATE of the rows of a project.             *)
DeactivateAll(p, P) ==
    /\ MayWrite(p, RowsOf(P))
    /\ cleared' = [cleared EXCEPT ![p] = RowsOf(P)]

(* A transaction that is a single statement.                               *)
Statement(p, S) ==
    /\ step[p] = "idle"
    /\ MayWrite(p, S)
    /\ UNCHANGED <<step, job, cleared, crossed>>

-----------------------------------------------------------------------------
(* create_case and clone_case.                                             *)

NewStudyCase(P, active) ==
    [project |-> P, is_active |-> active, result_status |-> "NONE"]

CreateCase(p, P) ==
    /\ Statement(p, {})
    /\ \E c \in Cases :
          /\ rows[c] = NoRow
          /\ rows' = [rows EXCEPT ![c] = NewStudyCase(P, FALSE)]

(* With set_active the other cases are deactivated first.                  *)
CreateActive(p, P) ==
    /\ Start(p, "insert", [op |-> "create", project |-> P, case |-> NoRow,
                           row |-> NewStudyCase(P, TRUE), write |-> {}])
    /\ DeactivateAll(p, P)
    /\ UNCHANGED <<rows, crossed>>

Insert(p) ==
    /\ step[p] = "insert"
    /\ \E c \in Cases :
          /\ rows[c] = NoRow
          /\ Commit(p, c, job[p].row)

CloneCase(p, c) ==
    /\ Exists(c)
    /\ Statement(p, {})
    /\ \E d \in Cases :
          /\ rows[d] = NoRow
          /\ rows' = [rows EXCEPT ![d] = NewStudyCase(rows[c].project, FALSE)]

-----------------------------------------------------------------------------
(* set_active_case: the project and the case are those of the request, and *)
(* nothing compares the project with that of the case.                     *)

SetActiveCase(p, P, c) ==
    /\ rows[c] # NoRow
    /\ Start(p, "activate", [op |-> "activate", project |-> P, case |-> c,
                             row |-> NoRow, write |-> {"is_active"}])
    /\ DeactivateAll(p, P)
    /\ UNCHANGED <<rows, crossed>>

Activate(p) ==
    LET c == job[p].case
    IN  /\ step[p] = "activate"
        /\ Exists(c)
        /\ MayWrite(p, {c})
        /\ Commit(p, c, [rows[c] EXCEPT !.is_active = TRUE])

(* The service raises, and the deactivations are undone.                   *)
ActivateMissing(p) ==
    /\ step[p] = "activate"
    /\ ~Exists(job[p].case)
    /\ Rollback(p)

-----------------------------------------------------------------------------
(* update_case, mark_case_fresh, mark_case_outdated: read, change, write.  *)

Outdate(row) ==
    [row EXCEPT !.result_status = IF @ = "FRESH" THEN "OUTDATED" ELSE @]

Changed(old, new) == {f \in Columns : old[f] # new[f]}

(* update_case: the name or the description changes, or the configuration. *)
GetForUpdate(p, c, reconfigured) ==
    /\ Exists(c)
    /\ Start(p, "reread",
             [op |-> "update", project |-> rows[c].project, case |-> c,
              row |-> IF reconfigured THEN Outdate(rows[c]) ELSE rows[c],
              write |-> {}])
    /\ UNCHANGED <<rows, cleared, crossed>>

(* update_study_case reads the row again; what the service has read before *)
(* is written where it differs.  The mutant does not deactivate the others *)
(* when the case was deactivated in between.                               *)
Reread_KeepsOthers(p) ==
    LET c == job[p].case
    IN  /\ step[p] = "reread"
        /\ \/ ~Exists(c) /\ Rollback(p)
           \/ /\ Exists(c)
              /\ step' = [step EXCEPT ![p] = "flush"]
              /\ job' = [job EXCEPT ![p].write = Changed(rows[c], job[p].row)]
              /\ UNCHANGED <<rows, cleared, crossed>>
Reread(p) ==
    LET c == job[p].case
        becomesActive == job[p].row.is_active /\ ~rows[c].is_active
    IN  /\ step[p] = "reread"
        /\ \/ ~Exists(c) /\ Rollback(p)
           \/ /\ Exists(c)
              /\ step' = [step EXCEPT ![p] = IF becomesActive
                                             THEN "deactivate" ELSE "flush"]
              /\ job' = [job EXCEPT ![p].write = Changed(rows[c], job[p].row)]
              /\ UNCHANGED <<rows, cleared, crossed>>

DeactivateOthers(p) ==
    /\ step[p] = "deactivate"
    /\ DeactivateAll(p, job[p].project)
    /\ step' = [step EXCEPT ![p] = "rewrite"]
    /\ UNCHANGED <<rows, job, crossed>>

MarkCaseFresh(p, c) ==
    /\ Exists(c)
    /\ LET row == [rows[c] EXCEPT !.result_status = "FRESH"]
       IN  Start(p, "flush", [op |-> "fresh", project |-> row.project,
                              case |-> c, row |-> row,
                              write |-> Changed(rows[c], row)])
    /\ UNCHANGED <<rows, cleared, crossed>>

MarkCaseOutdated(p, c) ==
    /\ Exists(c)
    /\ rows[c].result_status = "FRESH"
    /\ Start(p, "flush", [op |-> "outdate", project |-> rows[c].project,
                          case |-> c, row |-> Outdate(rows[c]),
                          write |-> {"result_status"}])
    /\ UNCHANGED <<rows, cleared, crossed>>

(* The UPDATE by primary key at the end of the session, and the commit.  A *)
(* row that is gone makes the session fail.  The mutant writes every column*)
(* as the handler has read it.                                             *)
Written_WholeRow(row, new, write) == new
Written(row, new, write) ==
    [row EXCEPT
        !.is_active = IF "is_active" \in write THEN new.is_active ELSE @,
        !.result_status =
            IF "result_status" \in write THEN new.result_status ELSE @]

Flush(p) ==
    LET c == job[p].case
    IN  /\ step[p] \in {"flush", "rewrite"}
        /\ MayWrite(p, {c})
        /\ \/ ~Exists(c) /\ Rollback(p)
           \/ /\ Exists(c)
              /\ Commit(p, c, Written(rows[c], job[p].row, job[p].write))

-----------------------------------------------------------------------------
(* mark_all_outdated, delete_case, and failures.                           *)

MarkAllOutdated(p, P) ==
    LET fresh == {c \in RowsOf(P) : rows[c].result_status = "FRESH"}
    IN  /\ Statement(p, fresh)
        /\ rows' = [c \in Cases |->
                       IF c \in fresh THEN Outdate(rows[c]) ELSE rows[c]]

DeleteCase(p, c) ==
    /\ Exists(c)
    /\ Statement(p, {c})
    /\ rows' = [rows EXCEPT ![c] = DeletedRow]

(* A statement fails, when it waits too long for a lock for example.       *)
Fail(p) == step[p] # "idle" /\ Rollback(p)

CasesNext ==
    \E p \in Procs :
        \/ \E P \in Projects : CreateCase(p, P)
        \/ \E P \in Projects : CreateActive(p, P)
        \/ Insert(p)
        \/ \E c \in Cases : CloneCase(p, c)
        \/ \E P \in Projects, c \in Cases : SetActiveCase(p, P, c)
        \/ Activate(p)
        \/ ActivateMissing(p)
        \/ \E c \in Cases, b \in BOOLEAN : GetForUpdate(p, c, b)
        \/ Reread(p)
        \/ DeactivateOthers(p)
        \/ \E c \in Cases : MarkCaseFresh(p, c)
        \/ \E c \in Cases : MarkCaseOutdated(p, c)
        \/ Flush(p)
        \/ \E P \in Projects : MarkAllOutdated(p, P)
        \/ \E c \in Cases : DeleteCase(p, c)
        \/ Fail(p)

CasesSpec == CasesInit /\ [][CasesNext]_casesVars

-----------------------------------------------------------------------------
(* Correctness.                                                            *)

(* At most one case of a project is active, whatever activations, updates  *)
(* and deletions overlap, and from the next activation on also after a     *)
(* request that activated a case under another project's identifier.  (The *)
(* invariant of domain/study_case.py; no index of the database backs it.)  *)
Active(c) == Exists(c) /\ rows[c].is_active
OneActive ==
    \A c, d \in Cases :
        /\ Active(c) /\ Active(d)
        /\ rows[c].project = rows[d].project
        /\ rows[c].project \notin crossed
        => c = d

(* A project does not lose its active case to an activation that fails, or *)
(* to another request half done: only when that case is deleted, when an   *)
(* update_case that read it inactive writes that back, or when a request   *)
(* names this project to activate a case of another one.                   *)
WritesBackInactive(p, c) ==
    /\ step[p] = "flush"
    /\ job[p].op = "update"
    /\ job[p].case = c
    /\ ~job[p].row.is_active
ActivatesElsewhere(p, P) ==
    /\ step[p] = "activate"
    /\ job[p].project = P
    /\ Exists(job[p].case)
    /\ rows[job[p].case].project # P
KeepsActiveCase ==
    \A P \in Projects, c \in Cases :
        Active(c) /\ rows[c].project = P =>
            \/ \E d \in Cases : Active(d)' /\ rows'[d].project = P
            \/ rows'[c] = DeletedRow
            \/ \E p \in Procs : \/ WritesBackInactive(p, c)
                                \/ ActivatesElsewhere(p, P)
ActiveCaseKept == [][KeepsActiveCase]_casesVars
=============================================================================
