------------------------- MODULE StudyCases_proofs -------------------------
(* The types of StudyCases for every value of its constants, and the one   *)
(* active case per project where writing transactions exclude each other.  *)
EXTENDS StudyCases, TLAPS

(* What the request of a busy thread looks like.                           *)
HandlerOK(p) ==
    /\ step[p] # "idle" => job[p] \in Jobs
    /\ step[p] = "insert" => job[p].row \in Rows
    /\ step[p] \in {"activate", "reread", "deactivate", "rewrite", "flush"}
          => job[p].case \in Cases
    /\ step[p] \in {"reread", "deactivate", "rewrite", "flush"}
          => job[p].row \in Rows
    /\ \A c \in cleared[p] : Exists(c)

CasesInv == CasesTypeOK /\ \A p \in Procs : HandlerOK(p)

-----------------------------------------------------------------------------
(* Rows and requests.                                                      *)

(* An existing row is a row.                                               *)
LEMMA ExistingRow ==
    ASSUME CasesTypeOK, NEW c \in Cases, Exists(c)
    PROVE  rows[c] \in Rows
BY DEF CasesTypeOK, Exists

(* A row is neither of the two markers.                                    *)
LEMMA RowExists ==
    ASSUME NEW r \in Rows
    PROVE  r \notin {NoRow, DeletedRow}
BY CasesAssumption

(* What the handlers make of a row is a row of the same project.           *)
LEMMA RowUpdates ==
    ASSUME NEW r \in Rows
    PROVE  /\ \A b \in BOOLEAN :
                 /\ [r EXCEPT !.is_active = b] \in Rows
                 /\ [r EXCEPT !.is_active = b].project = r.project
                 /\ [r EXCEPT !.is_active = b].is_active = b
           /\ [r EXCEPT !.result_status = "FRESH"] \in Rows
           /\ Outdate(r) \in Rows
           /\ Outdate(r).project = r.project
           /\ Outdate(r).is_active = r.is_active
BY DEF Rows, Statuses, Outdate

(* So is the row an UPDATE leaves.                                        *)
LEMMA WrittenRow ==
    ASSUME NEW r \in Rows, NEW s \in Rows, NEW w
    PROVE  /\ Written(r, s, w) \in Rows
           /\ Written(r, s, w).project = r.project
           /\ Written(r, s, w).is_active =
                 IF "is_active" \in w THEN s.is_active ELSE r.is_active
BY DEF Rows, Statuses, Written

(* A new case.                                                             *)
LEMMA NewRow ==
    ASSUME NEW P \in Projects, NEW b \in BOOLEAN
    PROVE  NewStudyCase(P, b) \in Rows
BY DEF NewStudyCase, Rows, Statuses

(* A deactivation keeps existing rows existing, and is a table.            *)
LEMMA DeactivatedRows ==
    ASSUME CasesInv, NEW p \in Procs
    PROVE  /\ Deactivated(p) \in [Cases -> Rows \cup {NoRow, DeletedRow}]
           /\ \A c \in Cases : Exists(c) => Deactivated(p)[c] \in Rows
<1>1. \A c \in Cases : Exists(c) => Deactivated(p)[c] \in Rows
  <2> SUFFICES ASSUME NEW c \in Cases, Exists(c)
               PROVE  Deactivated(p)[c] \in Rows
    OBVIOUS
  <2>1. rows[c] \in Rows
    BY ExistingRow DEF CasesInv
  <2> QED
    BY <2>1, RowUpdates DEF Deactivated
<1>2. \A c \in Cases : ~Exists(c) => Deactivated(p)[c] = rows[c]
  BY DEF Deactivated, CasesInv, HandlerOK
<1>3. Deactivated(p) = [c \in Cases |-> Deactivated(p)[c]]
  BY DEF Deactivated
<1> QED
  BY <1>1, <1>2, <1>3 DEF CasesInv, CasesTypeOK

(* A commit.                                                               *)
LEMMA CommitRows ==
    ASSUME CasesInv, NEW p \in Procs, NEW c \in Cases, NEW r \in Rows,
           Commit(p, c, r)
    PROVE  /\ rows' \in [Cases -> Rows \cup {NoRow, DeletedRow}]
           /\ rows'[c] = r
           /\ \A d \in Cases \ {c} : rows'[d] = Deactivated(p)[d]
           /\ \A d \in Cases : Exists(d) => Exists(d)'
<1>1. rows' = [Deactivated(p) EXCEPT ![c] = r]
  BY DEF Commit
<1>2. \A d \in Cases : Exists(d) => rows'[d] \in Rows
  BY <1>1, DeactivatedRows
<1> QED
  BY <1>1, <1>2, DeactivatedRows, RowExists DEF Exists

-----------------------------------------------------------------------------
(* A thread that ends, and a thread that goes on.                          *)

(* The thread p becomes idle.                                              *)
LEMMA CloseInv ==
    ASSUME CasesInv, NEW p \in Procs, Close(p),
           rows' \in [Cases -> Rows \cup {NoRow, DeletedRow}],
           crossed' \in SUBSET Projects,
           \A q \in Procs \ {p} : \A c \in cleared[q] : Exists(c)'
    PROVE  CasesInv'
<1>1. CasesTypeOK'
  BY DEF CasesInv, CasesTypeOK, Close, Writing
<1>2. ASSUME NEW q \in Procs PROVE HandlerOK(q)'
  <2>1. CASE q = p
    BY <2>1 DEF Close, HandlerOK, CasesInv, CasesTypeOK
  <2>2. CASE q # p
    BY <2>2 DEF Close, HandlerOK, CasesInv, CasesTypeOK
  <2> QED
    BY <2>1, <2>2
<1> QED
  BY <1>1, <1>2 DEF CasesInv

(* The thread p takes a step of its handler and commits nothing.           *)
LEMMA OwnStepInv ==
    ASSUME CasesInv, NEW p \in Procs, UNCHANGED <<rows, crossed>>,
           NEW s \in {"insert", "activate", "reread", "deactivate",
                      "rewrite", "flush"},
           NEW j \in Jobs, NEW D \in SUBSET Cases,
           step' = [step EXCEPT ![p] = s],
           job' = [job EXCEPT ![p] = j],
           cleared' = [cleared EXCEPT ![p] = D],
           D # {} => s \in {"insert", "activate", "rewrite"},
           \A c \in D : Exists(c),
           s = "insert" => j.row \in Rows,
           s # "insert" => j.case \in Cases,
           s \in {"reread", "deactivate", "rewrite", "flush"} => j.row \in Rows
    PROVE  CasesInv'
<1>1. CasesTypeOK'
  BY DEF CasesInv, CasesTypeOK, Writing
<1>2. ASSUME NEW q \in Procs PROVE HandlerOK(q)'
  <2>1. CASE q = p
    BY <2>1 DEF HandlerOK, CasesInv, CasesTypeOK, Exists
  <2>2. CASE q # p
    BY <2>2 DEF HandlerOK, CasesInv, CasesTypeOK, Exists
  <2> QED
    BY <2>1, <2>2
<1> QED
  BY <1>1, <1>2 DEF CasesInv

(* A transaction of one statement.                                         *)
LEMMA StatementInv ==
    ASSUME CasesInv, NEW p \in Procs, NEW S, Statement(p, S),
           rows' \in [Cases -> Rows \cup {NoRow, DeletedRow}],
           \A c \in Cases \ S : Exists(c) => Exists(c)'
    PROVE  CasesInv'
<1>1. \A q \in Procs : cleared[q] \cap S = {}
  BY DEF Statement, MayWrite, CasesInv, CasesTypeOK, Writing
<1>2. CasesTypeOK'
  BY DEF CasesInv, CasesTypeOK, Statement, Writing
<1>3. ASSUME NEW q \in Procs PROVE HandlerOK(q)'
  BY <1>1 DEF CasesInv, CasesTypeOK, HandlerOK, Statement
<1> QED
  BY <1>2, <1>3 DEF CasesInv

-----------------------------------------------------------------------------
(* The steps.                                                              *)

(* What the handlers hold at first.                                        *)
LEMMA NewJobs ==
    ASSUME NEW P \in Projects, NEW c \in Cases \cup {NoRow},
           NEW r \in Rows \cup {NoRow}, NEW w \in SUBSET Columns,
           NEW o \in {"create", "activate", "update", "fresh", "outdate"}
    PROVE  [op |-> o, project |-> P, case |-> c, row |-> r, write |-> w]
              \in Jobs
BY DEF Jobs

(* A handler that starts.                                                  *)
LEMMA StartsKeepInv ==
    ASSUME CasesInv, NEW p \in Procs,
           \/ \E P \in Projects : CreateActive(p, P)
           \/ \E P \in Projects, c \in Cases : SetActiveCase(p, P, c)
           \/ \E c \in Cases, b \in BOOLEAN : GetForUpdate(p, c, b)
           \/ \E c \in Cases : MarkCaseFresh(p, c)
           \/ \E c \in Cases : MarkCaseOutdated(p, c)
    PROVE  CasesInv'
<1>0. /\ \A P \in Projects : RowsOf(P) \in SUBSET Cases
      /\ \A P \in Projects : \A d \in RowsOf(P) : Exists(d)
      /\ \A q \in Procs : step[q] = "idle" => cleared[q] = {}
      /\ cleared \in [Procs -> SUBSET Cases]
      /\ {} \in SUBSET Columns /\ {} \in SUBSET Cases
      /\ {"is_active"} \in SUBSET Columns
      /\ {"result_status"} \in SUBSET Columns
  BY DEF RowsOf, CasesInv, CasesTypeOK, Writing, Columns
<1>1. ASSUME NEW P \in Projects, CreateActive(p, P) PROVE CasesInv'
  <2> DEFINE j == [op |-> "create", project |-> P, case |-> NoRow,
                   row |-> NewStudyCase(P, TRUE), write |-> {}]
  <2>1. j \in Jobs /\ j.row \in Rows
    BY <1>0, NewRow, NewJobs
  <2>2. /\ step' = [step EXCEPT ![p] = "insert"]
        /\ job' = [job EXCEPT ![p] = j]
        /\ cleared' = [cleared EXCEPT ![p] = RowsOf(P)]
        /\ UNCHANGED <<rows, crossed>>
    BY <1>1 DEF CreateActive, Start, DeactivateAll
  <2> HIDE DEF j
  <2> QED
    BY <1>0, <2>1, <2>2, OwnStepInv
<1>2. ASSUME NEW P \in Projects, NEW c \in Cases, SetActiveCase(p, P, c)
      PROVE  CasesInv'
  <2> DEFINE j == [op |-> "activate", project |-> P, case |-> c,
                   row |-> NoRow, write |-> {"is_active"}]
  <2>1. j \in Jobs /\ j.case \in Cases
    BY <1>0, NewJobs
  <2>2. /\ step' = [step EXCEPT ![p] = "activate"]
        /\ job' = [job EXCEPT ![p] = j]
        /\ cleared' = [cleared EXCEPT ![p] = RowsOf(P)]
        /\ UNCHANGED <<rows, crossed>>
    BY <1>2 DEF SetActiveCase, Start, DeactivateAll
  <2> HIDE DEF j
  <2> QED
    BY <1>0, <2>1, <2>2, OwnStepInv
<1>3. ASSUME NEW c \in Cases, NEW b \in BOOLEAN, GetForUpdate(p, c, b)
      PROVE  CasesInv'
  <2> DEFINE r == IF b THEN Outdate(rows[c]) ELSE rows[c]
             j == [op |-> "update", project |-> rows[c].project,
                   case |-> c, row |-> r, write |-> {}]
  <2>1. rows[c] \in Rows
    BY <1>3, ExistingRow DEF GetForUpdate, CasesInv
  <2>2. r \in Rows /\ rows[c].project \in Projects
    BY <2>1, RowUpdates DEF Rows
  <2>3. j \in Jobs /\ j.case \in Cases /\ j.row \in Rows
    <3> HIDE DEF r
    <3> QED
      BY <1>0, <2>2, NewJobs
  <2>4. /\ step' = [step EXCEPT ![p] = "reread"]
        /\ job' = [job EXCEPT ![p] = j]
        /\ step[p] = "idle" /\ UNCHANGED <<rows, cleared, crossed>>
    BY <1>3 DEF GetForUpdate, Start
  <2>5. cleared' = [cleared EXCEPT ![p] = {}]
    BY <1>0, <2>4
  <2> HIDE DEF j
  <2> QED
    BY <1>0, <2>3, <2>4, <2>5, OwnStepInv
<1>4. ASSUME NEW c \in Cases, MarkCaseFresh(p, c) PROVE CasesInv'
  <2> DEFINE r == [rows[c] EXCEPT !.result_status = "FRESH"]
             j == [op |-> "fresh", project |-> r.project, case |-> c,
                   row |-> r, write |-> Changed(rows[c], r)]
  <2>1. rows[c] \in Rows
    BY <1>4, ExistingRow DEF MarkCaseFresh, CasesInv
  <2>2. r \in Rows /\ r.project \in Projects
    BY <2>1, RowUpdates DEF Rows
  <2>3. j \in Jobs /\ j.case \in Cases /\ j.row \in Rows
    <3>1. Changed(rows[c], r) \in SUBSET Columns
      BY DEF Changed
    <3> HIDE DEF r
    <3> QED
      BY <2>2, <3>1, NewJobs
  <2>4. /\ step' = [step EXCEPT ![p] = "flush"]
        /\ job' = [job EXCEPT ![p] = j]
        /\ step[p] = "idle" /\ UNCHANGED <<rows, cleared, crossed>>
    BY <1>4 DEF MarkCaseFresh, Start
  <2>5. cleared' = [cleared EXCEPT ![p] = {}]
    BY <1>0, <2>4
  <2> HIDE DEF j
  <2> QED
    BY <1>0, <2>3, <2>4, <2>5, OwnStepInv
<1>5. ASSUME NEW c \in Cases, MarkCaseOutdated(p, c) PROVE CasesInv'
  <2> DEFINE r == Outdate(rows[c])
             j == [op |-> "outdate", project |-> rows[c].project,
                   case |-> c, row |-> r, write |-> {"result_status"}]
  <2>1. rows[c] \in Rows
    BY <1>5, ExistingRow DEF MarkCaseOutdated, CasesInv
  <2>2. r \in Rows /\ rows[c].project \in Projects
    BY <2>1, RowUpdates DEF Rows
  <2>3. j \in Jobs /\ j.case \in Cases /\ j.row \in Rows
    <3> HIDE DEF r
    <3> QED
      BY <1>0, <2>2, NewJobs
  <2>4. /\ step' = [step EXCEPT ![p] = "flush"]
        /\ job' = [job EXCEPT ![p] = j]
        /\ step[p] = "idle" /\ UNCHANGED <<rows, cleared, crossed>>
    BY <1>5 DEF MarkCaseOutdated, Start
  <2>5. cleared' = [cleared EXCEPT ![p] = {}]
    BY <1>0, <2>4
  <2> HIDE DEF j
  <2> QED
    BY <1>0, <2>3, <2>4, <2>5, OwnStepInv
<1> QED
  BY <1>1, <1>2, <1>3, <1>4, <1>5

(* An exception undoes what the thread has deactivated.                    *)
LEMMA RollbackKeepsInv ==
    ASSUME CasesInv, NEW p \in Procs, Rollback(p)
    PROVE  CasesInv'
<1>1. UNCHANGED <<rows, crossed>> /\ Close(p)
  BY DEF Rollback
<1>2. \A q \in Procs \ {p} : \A c \in cleared[q] : Exists(c)'
  BY <1>1 DEF CasesInv, CasesTypeOK, HandlerOK, Exists
<1> QED
  BY <1>1, <1>2, CloseInv DEF CasesInv, CasesTypeOK

(* A commit ends the handler.                                              *)
LEMMA CommitKeepsInv ==
    ASSUME CasesInv, NEW p \in Procs, NEW c \in Cases, NEW r \in Rows,
           Commit(p, c, r)
    PROVE  CasesInv'
<1>1. Close(p)
  BY DEF Commit
<1>3. crossed' \in SUBSET Projects
  <2>1. r.project \in Projects
    BY DEF Rows
  <2> QED
    BY <2>1 DEF Commit, CasesInv, CasesTypeOK
<1>2. \A q \in Procs \ {p} : \A d \in cleared[q] : Exists(d)'
  BY CommitRows DEF CasesInv, CasesTypeOK, HandlerOK
<1> QED
  BY <1>1, <1>2, <1>3, CommitRows, CloseInv

(* A handler that goes on to its next statement.                           *)
LEMMA MiddlesKeepInv ==
    ASSUME CasesInv, NEW p \in Procs, Reread(p) \/ DeactivateOthers(p)
    PROVE  CasesInv'
<1>0. /\ step[p] \in {"reread", "deactivate"} => cleared[p] = {}
      /\ cleared \in [Procs -> SUBSET Cases]
      /\ {} \in SUBSET Cases
  BY DEF CasesInv, CasesTypeOK, Writing
<1>1. step[p] \in {"reread", "deactivate"}
  BY DEF Reread, DeactivateOthers
<1>2. job[p] \in Jobs /\ job[p].case \in Cases /\ job[p].row \in Rows
  BY <1>1 DEF CasesInv, HandlerOK
<1>3. CASE Rollback(p)
  BY <1>3, RollbackKeepsInv
<1>4. CASE Reread(p) /\ ~Rollback(p)
  <2> DEFINE W == Changed(rows[job[p].case], job[p].row)
             j == [job[p] EXCEPT !.write = W]
  <2>1. PICK s \in {"deactivate", "flush"} : step' = [step EXCEPT ![p] = s]
    BY <1>4 DEF Reread
  <2>2. /\ job' = [job EXCEPT ![p].write = W]
        /\ UNCHANGED <<rows, cleared, crossed>>
    BY <1>4 DEF Reread
  <2>3. job' = [job EXCEPT ![p] = j]
    BY <2>2
  <2>4. j \in Jobs /\ j.case = job[p].case /\ j.row = job[p].row
    <3>1. W \in SUBSET Columns
      BY DEF Changed
    <3> HIDE DEF W
    <3> QED
      BY <1>2, <3>1 DEF Jobs
  <2>5. cleared' = [cleared EXCEPT ![p] = {}]
    BY <1>0, <1>1, <2>2
  <2> HIDE DEF j
  <2> QED
    BY <1>0, <1>2, <2>1, <2>2, <2>3, <2>4, <2>5, OwnStepInv
<1>5. CASE DeactivateOthers(p)
  <2>1. /\ step' = [step EXCEPT ![p] = "rewrite"]
        /\ cleared' = [cleared EXCEPT ![p] = RowsOf(job[p].project)]
        /\ UNCHANGED <<rows, job, crossed>>
    BY <1>5 DEF DeactivateOthers, DeactivateAll
  <2>2. job' = [job EXCEPT ![p] = job[p]]
    BY <2>1 DEF CasesInv, CasesTypeOK
  <2>3. /\ RowsOf(job[p].project) \in SUBSET Cases
        /\ \A d \in RowsOf(job[p].project) : Exists(d)
    BY DEF RowsOf
  <2> QED
    BY <1>2, <2>1, <2>2, <2>3, OwnStepInv
<1> QED
  BY <1>3, <1>4, <1>5

(* A handler that ends.                                                    *)
LEMMA EndsKeepInv ==
    ASSUME CasesInv, NEW p \in Procs,
           \/ Insert(p) \/ Activate(p) \/ ActivateMissing(p)
           \/ Flush(p) \/ Fail(p)
    PROVE  CasesInv'
<1>1. CASE Rollback(p)
  BY <1>1, RollbackKeepsInv
<1>2. CASE Insert(p)
  <2>1. job[p].row \in Rows
    BY <1>2 DEF Insert, CasesInv, HandlerOK
  <2> QED
    BY <1>2, <2>1, CommitKeepsInv DEF Insert
<1>3. CASE Activate(p)
  <2>1. job[p].case \in Cases /\ Exists(job[p].case)
    BY <1>3 DEF Activate, CasesInv, HandlerOK
  <2>2. rows[job[p].case] \in Rows
    BY <2>1, ExistingRow DEF CasesInv
  <2>3. [rows[job[p].case] EXCEPT !.is_active = TRUE] \in Rows
    BY <2>2, RowUpdates
  <2> QED
    BY <1>3, <2>1, <2>3, CommitKeepsInv DEF Activate
<1>4. CASE Flush(p) /\ ~Rollback(p)
  <2> DEFINE c == job[p].case
             r == Written(rows[c], job[p].row, job[p].write)
  <2>1. c \in Cases /\ job[p].row \in Rows
    BY <1>4 DEF Flush, CasesInv, HandlerOK
  <2>2. Exists(c) /\ Commit(p, c, r)
    BY <1>4 DEF Flush
  <2>3. r \in Rows
    BY <2>1, <2>2, ExistingRow, WrittenRow DEF CasesInv
  <2> HIDE DEF c, r
  <2> QED
    BY <2>1, <2>2, <2>3, CommitKeepsInv
<1> QED
  BY <1>1, <1>2, <1>3, <1>4 DEF ActivateMissing, Fail

(* The transactions of one statement.                                      *)
LEMMA StatementsKeepInv ==
    ASSUME CasesInv, NEW p \in Procs,
           \/ \E P \in Projects : CreateCase(p, P)
           \/ \E P \in Projects : MarkAllOutdated(p, P)
           \/ \E c \in Cases : CloneCase(p, c)
           \/ \E c \in Cases : DeleteCase(p, c)
    PROVE  CasesInv'
<1>0. rows \in [Cases -> Rows \cup {NoRow, DeletedRow}]
  BY DEF CasesInv, CasesTypeOK
<1>1. ASSUME NEW P \in Projects, CreateCase(p, P) PROVE CasesInv'
  <2>1. PICK d \in Cases :
           rows' = [rows EXCEPT ![d] = NewStudyCase(P, FALSE)]
    BY <1>1 DEF CreateCase
  <2>2. NewStudyCase(P, FALSE) \in Rows
    BY NewRow
  <2>3. \A e \in Cases : Exists(e) => Exists(e)'
    BY <1>0, <2>1, <2>2, RowExists DEF Exists
  <2> QED
    BY <1>0, <1>1, <2>1, <2>2, <2>3, StatementInv DEF CreateCase
<1>2. ASSUME NEW c \in Cases, CloneCase(p, c) PROVE CasesInv'
  <2>1. PICK d \in Cases :
           rows' = [rows EXCEPT ![d] = NewStudyCase(rows[c].project, FALSE)]
    BY <1>2 DEF CloneCase
  <2>2. NewStudyCase(rows[c].project, FALSE) \in Rows
    <3>1. rows[c].project \in Projects
      BY <1>2, ExistingRow DEF CloneCase, CasesInv, Rows
    <3> QED
      BY <3>1, NewRow
  <2>3. \A e \in Cases : Exists(e) => Exists(e)'
    BY <1>0, <2>1, <2>2, RowExists DEF Exists
  <2> QED
    BY <1>0, <1>2, <2>1, <2>2, <2>3, StatementInv DEF CloneCase
<1>3. ASSUME NEW P \in Projects, MarkAllOutdated(p, P) PROVE CasesInv'
  <2> DEFINE F == {d \in RowsOf(P) : rows[d].result_status = "FRESH"}
  <2>1. /\ Statement(p, F)
        /\ rows' = [d \in Cases |-> IF d \in F THEN Outdate(rows[d])
                                   ELSE rows[d]]
    BY <1>3 DEF MarkAllOutdated
  <2>2. \A d \in F : d \in Cases /\ Outdate(rows[d]) \in Rows
    BY ExistingRow, RowUpdates DEF RowsOf, CasesInv
  <2> HIDE DEF F
  <2>3. rows' \in [Cases -> Rows \cup {NoRow, DeletedRow}]
    BY <1>0, <2>1, <2>2
  <2>4. \A d \in Cases \ F : Exists(d) => Exists(d)'
    BY <2>1 DEF Exists
  <2> QED
    BY <2>1, <2>3, <2>4, StatementInv
<1>4. ASSUME NEW c \in Cases, DeleteCase(p, c) PROVE CasesInv'
  <2>1. Statement(p, {c}) /\ rows' = [rows EXCEPT ![c] = DeletedRow]
    BY <1>4 DEF DeleteCase
  <2>2. \A d \in Cases \ {c} : Exists(d) => Exists(d)'
    BY <1>0, <2>1 DEF Exists
  <2> QED
    BY <1>0, <2>1, <2>2, StatementInv
<1> QED
  BY <1>1, <1>2, <1>3, <1>4

(* The invariant is inductive.                                             *)
LEMMA CasesInvInit == CasesInit => CasesInv
BY DEF CasesInit, CasesInv, CasesTypeOK, HandlerOK

(* Every step keeps the invariant.                                         *)
LEMMA CasesInvStep == CasesInv /\ [CasesNext]_casesVars => CasesInv'
<1> SUFFICES ASSUME CasesInv, [CasesNext]_casesVars PROVE CasesInv'
  OBVIOUS
<1>1. CASE UNCHANGED casesVars
  BY <1>1 DEF casesVars, CasesInv, CasesTypeOK, HandlerOK, Writing, Exists
<1>2. CASE CasesNext
  <2>1. PICK p \in Procs :
           \/ \E P \in Projects : CreateCase(p, P)
           \/ \E P \in Projects : MarkAllOutdated(p, P)
           \/ \E c \in Cases : CloneCase(p, c)
           \/ \E c \in Cases : DeleteCase(p, c)
           \/ \E P \in Projects : CreateActive(p, P)
           \/ \E P \in Projects, c \in Cases : SetActiveCase(p, P, c)
           \/ \E c \in Cases, b \in BOOLEAN : GetForUpdate(p, c, b)
           \/ \E c \in Cases : MarkCaseFresh(p, c)
           \/ \E c \in Cases : MarkCaseOutdated(p, c)
           \/ Reread(p) \/ DeactivateOthers(p)
           \/ Insert(p) \/ Activate(p) \/ ActivateMissing(p)
           \/ Flush(p) \/ Fail(p)
    BY <1>2 DEF CasesNext
  <2> QED
    BY <2>1, StartsKeepInv, MiddlesKeepInv, EndsKeepInv, StatementsKeepInv
<1> QED
  BY <1>1, <1>2

(* CasesTypeOK: the type invariant of the table and its handlers, for any  *)
(* number of cases, projects and threads, with either kind of locking.     *)
THEOREM CasesTypeCorrect == CasesSpec => []CasesTypeOK
<1>1. CasesInv => CasesTypeOK
  BY DEF CasesInv
<1> QED
  BY <1>1, CasesInvInit, CasesInvStep, PTL DEF CasesSpec

-----------------------------------------------------------------------------
(* One active case.  A thread between its first and its last write has     *)
(* deactivated every case of its project, and nobody else writes.          *)

RequestOK(p) ==
    /\ Writing(p) => cleared[p] = RowsOf(job[p].project)
    /\ step[p] = "insert" => /\ job[p].row.project = job[p].project
                             /\ job[p].row.is_active
    /\ step[p] \in {"activate", "reread", "deactivate", "rewrite", "flush"}
          => rows[job[p].case] # NoRow
    /\ step[p] \in {"reread", "deactivate", "rewrite", "flush"} =>
          (Exists(job[p].case) =>
              rows[job[p].case].project = job[p].project)
    /\ step[p] \in {"deactivate", "rewrite"}
          => job[p].row.is_active /\ "is_active" \in job[p].write
    /\ step[p] = "reread" => job[p].op = "update"
    /\ step[p] = "flush" /\ "is_active" \in job[p].write
          => job[p].op = "update" /\ ~job[p].row.is_active

ActiveInv ==
    /\ CasesInv
    /\ OneActive
    /\ \A p, q \in Procs : Writing(p) /\ Writing(q) => p = q
    /\ \A p \in Procs : RequestOK(p)

(* Cases stay in their project, and identifiers are not given twice.       *)
RowsLast ==
    \A c \in Cases : rows[c] # NoRow =>
        /\ rows'[c] # NoRow
        /\ Exists(c)' => Exists(c) /\ rows'[c].project = rows[c].project

(* A handler does not notice the steps of other threads.                   *)
LEMMA RequestStable ==
    ASSUME CasesInv, NEW q \in Procs, RequestOK(q), RowsLast,
           step'[q] = step[q], job'[q] = job[q], cleared'[q] = cleared[q],
           Writing(q) => UNCHANGED rows
    PROVE  RequestOK(q)'
<1>1. step[q] \in {"activate", "reread", "deactivate", "rewrite", "flush"}
         => job[q].case \in Cases
  BY DEF CasesInv, HandlerOK
<1>2. Writing(q)' = Writing(q)
  BY DEF Writing
<1>3. UNCHANGED rows => RowsOf(job[q].project)' = RowsOf(job[q].project)
  BY DEF RowsOf, Exists
<1> QED
  BY <1>1, <1>2, <1>3 DEF RequestOK, RowsLast

(* A step that activates no case keeps at most one active.                 *)
LEMMA FewerActive ==
    ASSUME OneActive, UNCHANGED crossed,
           \A c \in Cases :
              Active(c)' => Active(c) /\ rows'[c].project = rows[c].project
    PROVE  OneActive'
BY DEF OneActive

(* The thread p takes a step of its handler and commits nothing.           *)
LEMMA OwnStepActive ==
    ASSUME ActiveInv, CasesInv', NEW p \in Procs, UNCHANGED <<rows, crossed>>,
           NEW s, NEW j, NEW D,
           step' = [step EXCEPT ![p] = s],
           job' = [job EXCEPT ![p] = j],
           cleared' = [cleared EXCEPT ![p] = D],
           Writing(p)' => \A q \in Procs \ {p} : ~Writing(q),
           RequestOK(p)'
    PROVE  ActiveInv'
<1>1. OneActive'
  BY FewerActive DEF ActiveInv, Active, Exists
<1>2. \A q \in Procs \ {p} : /\ step'[q] = step[q] /\ job'[q] = job[q]
                             /\ cleared'[q] = cleared[q]
  BY DEF ActiveInv, CasesInv, CasesTypeOK
<1>3. \A q \in Procs \ {p} : RequestOK(q)'
  <2>1. RowsLast
    BY DEF RowsLast, Exists
  <2> QED
    BY <1>2, <2>1, RequestStable DEF ActiveInv
<1>4. \A q \in Procs \ {p} : Writing(q)' = Writing(q)
  BY <1>2 DEF Writing
<1> QED
  BY <1>1, <1>3, <1>4 DEF ActiveInv

(* The thread p becomes idle, and either the table is the same or nobody   *)
(* else is writing.                                                        *)
LEMMA CloseActive ==
    ASSUME ActiveInv, CasesInv', NEW p \in Procs, Close(p), RowsLast,
           OneActive',
           UNCHANGED rows \/ \A q \in Procs \ {p} : ~Writing(q)
    PROVE  ActiveInv'
<1>1. \A q \in Procs \ {p} : /\ step'[q] = step[q] /\ job'[q] = job[q]
                             /\ cleared'[q] = cleared[q]
  BY DEF Close, ActiveInv, CasesInv, CasesTypeOK
<1>2. \A q \in Procs \ {p} : RequestOK(q)'
  BY <1>1, RequestStable DEF ActiveInv
<1>3. step'[p] = "idle"
  BY DEF Close, ActiveInv, CasesInv, CasesTypeOK
<1>4. RequestOK(p)'
  BY <1>3 DEF RequestOK, Writing
<1>5. \A q \in Procs : Writing(q)' => Writing(q)
  BY <1>1, <1>3 DEF Writing
<1> QED
  BY <1>2, <1>4, <1>5 DEF ActiveInv

(* What an exclusive transaction waited for.                               *)
LEMMA WritesAlone ==
    ASSUME Exclusive, NEW p \in Procs, NEW S, MayWrite(p, S)
    PROVE  \A q \in Procs \ {p} : ~Writing(q)
BY DEF MayWrite

-----------------------------------------------------------------------------
(* The steps, where transactions exclude each other.                       *)

(* A writing transaction commits the new active case r, which may be of    *)
(* another project than the one whose cases it has deactivated.            *)
LEMMA ActivationCommits ==
    ASSUME ActiveInv, CasesInv', NEW p \in Procs, Writing(p),
           NEW c \in Cases, NEW r \in Rows, Commit(p, c, r),
           r.is_active,
           r.project # job[p].project =>
              step[p] = "activate" /\ job[p].case = c /\ rows[c] # NoRow,
           rows[c] # NoRow => Exists(c) /\ rows[c].project = r.project
    PROVE  ActiveInv' /\ KeepsActiveCase
<1> DEFINE P == job[p].project
<1>1. cleared[p] = RowsOf(P)
  BY DEF ActiveInv, RequestOK
<1>2. /\ rows'[c] = r
      /\ \A d \in Cases \ {c} : rows'[d] = Deactivated(p)[d]
      /\ \A d \in Cases : Exists(d) => Exists(d)'
  BY CommitRows DEF ActiveInv
<1>3. ASSUME NEW d \in Cases, d # c, Exists(d)'
      PROVE  /\ Exists(d) /\ rows'[d].project = rows[d].project
             /\ rows'[d].is_active =
                   IF rows[d].project = P THEN FALSE ELSE rows[d].is_active
  <2>1. rows'[d] = IF d \in RowsOf(P)
                   THEN [rows[d] EXCEPT !.is_active = FALSE] ELSE rows[d]
    BY <1>1, <1>2, <1>3 DEF Deactivated
  <2>2. Exists(d)
    BY <1>3, <2>1 DEF RowsOf, Exists
  <2>3. rows[d] \in Rows
    BY <2>2, ExistingRow DEF ActiveInv, CasesInv
  <2> QED
    BY <2>1, <2>2, <2>3, RowUpdates DEF RowsOf
<1>4. Exists(c)' /\ Active(c)'
  BY <1>2, RowExists DEF Exists, Active
<1>5. OneActive'
  <2>1. \A d \in Cases \ {c} : Active(d)' =>
           Active(d) /\ rows'[d].project = rows[d].project
                     /\ rows[d].project # P
    BY <1>3 DEF Active
  <2>2. /\ rows'[c].project = r.project
        /\ crossed' = (crossed \ {P}) \cup ({r.project} \ {P})
    BY <1>2 DEF Commit
  <2>3. \A d \in Cases \ {c} : Active(d)' /\ rows'[d].project \notin crossed'
           => rows'[d].project \notin crossed /\ rows'[d].project # r.project
    BY <2>1, <2>2
  <2> QED
    BY <2>1, <2>2, <2>3 DEF OneActive, ActiveInv
<1>6. RowsLast
  <2>1. ASSUME NEW d \in Cases \ {c}, rows[d] # NoRow
        PROVE  rows'[d] # NoRow
    BY <1>1, <1>2, <2>1, CasesAssumption DEF Deactivated, RowsOf, Exists
  <2> QED
    BY <1>2, <1>3, <1>4, <2>1 DEF RowsLast, Exists
<1>7. ActiveInv'
  <2>1. \A q \in Procs \ {p} : ~Writing(q)
    BY DEF ActiveInv
  <2> QED
    BY <1>5, <1>6, <2>1, CloseActive DEF Commit
<1>8. KeepsActiveCase
  <2> SUFFICES ASSUME NEW Q \in Projects, NEW d \in Cases,
                      Active(d), rows[d].project = Q
               PROVE  \/ \E e \in Cases : Active(e)' /\ rows'[e].project = Q
                      \/ ActivatesElsewhere(p, Q)
    BY DEF KeepsActiveCase
  <2>1. CASE Q = P
    <3>1. CASE r.project = P
      BY <1>2, <1>4, <2>1, <3>1
    <3>2. CASE r.project # P
      BY <2>1, <3>2 DEF ActivatesElsewhere
    <3> QED
      BY <3>1, <3>2
  <2>2. CASE Q # P
    <3>1. CASE d = c
      BY <1>2, <1>4, <3>1 DEF Active, Exists
    <3>2. CASE d # c
      <4>1. Exists(d) /\ Exists(d)'
        BY <1>2 DEF Active
      <4> QED
        BY <1>3, <2>2, <3>2, <4>1 DEF Active
    <3> QED
      BY <3>1, <3>2
  <2> QED
    BY <2>1, <2>2
<1> QED
  BY <1>7, <1>8

(* A handler that starts knows what it asked for.                          *)
LEMMA StartsKeepActive ==
    ASSUME Exclusive, ActiveInv, CasesInv', NEW p \in Procs,
           \/ \E P \in Projects : CreateActive(p, P)
           \/ \E P \in Projects, c \in Cases : SetActiveCase(p, P, c)
           \/ \E c \in Cases, b \in BOOLEAN : GetForUpdate(p, c, b)
           \/ \E c \in Cases : MarkCaseFresh(p, c)
           \/ \E c \in Cases : MarkCaseOutdated(p, c)
    PROVE  ActiveInv'
<1>0. /\ \A q \in Procs : step[q] = "idle" => cleared[q] = {}
      /\ cleared \in [Procs -> SUBSET Cases]
      /\ step \in [Procs -> {"idle", "insert", "activate", "reread",
                             "deactivate", "rewrite", "flush"}]
      /\ job \in [Procs -> Jobs \cup {NoJob}]
  BY DEF ActiveInv, CasesInv, CasesTypeOK, Writing
<1>1. ASSUME NEW P \in Projects, CreateActive(p, P) PROVE ActiveInv'
  <2> DEFINE j == [op |-> "create", project |-> P, case |-> NoRow,
                   row |-> NewStudyCase(P, TRUE), write |-> {}]
  <2>1. /\ step' = [step EXCEPT ![p] = "insert"]
        /\ job' = [job EXCEPT ![p] = j]
        /\ cleared' = [cleared EXCEPT ![p] = RowsOf(P)]
        /\ UNCHANGED <<rows, crossed>> /\ MayWrite(p, RowsOf(P))
    BY <1>1 DEF CreateActive, Start, DeactivateAll
  <2>2. j.project = P /\ j.row.project = P /\ j.row.is_active
    BY DEF NewStudyCase
  <2>3. RowsOf(P)' = RowsOf(P)
    BY <2>1 DEF RowsOf, Exists
  <2> HIDE DEF j
  <2>4. RequestOK(p)'
    BY <1>0, <2>1, <2>2, <2>3 DEF RequestOK
  <2> QED
    BY <2>1, <2>4, WritesAlone, OwnStepActive
<1>2. ASSUME NEW P \in Projects, NEW c \in Cases, SetActiveCase(p, P, c)
      PROVE  ActiveInv'
  <2> DEFINE j == [op |-> "activate", project |-> P, case |-> c,
                   row |-> NoRow, write |-> {"is_active"}]
  <2>1. /\ step' = [step EXCEPT ![p] = "activate"]
        /\ job' = [job EXCEPT ![p] = j]
        /\ cleared' = [cleared EXCEPT ![p] = RowsOf(P)]
        /\ UNCHANGED <<rows, crossed>> /\ MayWrite(p, RowsOf(P))
        /\ rows[c] # NoRow
    BY <1>2 DEF SetActiveCase, Start, DeactivateAll
  <2>2. j.project = P /\ j.case = c
    OBVIOUS
  <2>3. RowsOf(P)' = RowsOf(P) /\ Exists(c)' = Exists(c)
    BY <2>1 DEF RowsOf, Exists
  <2> HIDE DEF j
  <2>4. RequestOK(p)'
    BY <1>0, <2>1, <2>2, <2>3 DEF RequestOK
  <2> QED
    BY <2>1, <2>4, WritesAlone, OwnStepActive
<1>3. ASSUME NEW c \in Cases, NEW l \in {"reread", "flush"}, NEW j, Exists(c),
             Start(p, l, j), UNCHANGED <<rows, cleared, crossed>>,
             j.case = c, j.project = rows[c].project,
             l = "reread" => j.op = "update",
             l = "flush" => "is_active" \notin j.write
      PROVE  ActiveInv'
  <2>1. /\ step' = [step EXCEPT ![p] = l]
        /\ job' = [job EXCEPT ![p] = j]
        /\ cleared' = [cleared EXCEPT ![p] = {}]
    BY <1>0, <1>3 DEF Start
  <2>2. rows[c] # NoRow /\ Exists(c)'
    BY <1>3 DEF Exists
  <2>3. RequestOK(p)' /\ ~Writing(p)'
    BY <1>0, <1>3, <2>1, <2>2 DEF RequestOK, Writing
  <2> QED
    BY <1>3, <2>1, <2>3, OwnStepActive
<1>4. ASSUME NEW c \in Cases, NEW b \in BOOLEAN, GetForUpdate(p, c, b)
      PROVE  ActiveInv'
  BY <1>3, <1>4 DEF GetForUpdate
<1>5. ASSUME NEW c \in Cases, MarkCaseFresh(p, c) PROVE ActiveInv'
  <2> DEFINE r == [rows[c] EXCEPT !.result_status = "FRESH"]
  <2>1. rows[c] \in Rows
    BY <1>5, ExistingRow DEF MarkCaseFresh, ActiveInv, CasesInv
  <2>2. r.project = rows[c].project /\ r.is_active = rows[c].is_active
    BY <2>1 DEF Rows
  <2>3. "is_active" \notin Changed(rows[c], r)
    BY <2>2 DEF Changed
  <2> QED
    BY <1>3, <1>5, <2>2, <2>3 DEF MarkCaseFresh
<1>6. ASSUME NEW c \in Cases, MarkCaseOutdated(p, c) PROVE ActiveInv'
  BY <1>3, <1>6 DEF MarkCaseOutdated
<1> QED
  BY <1>1, <1>2, <1>4, <1>5, <1>6

(* A handler that rolls back.                                              *)
LEMMA RollbackKeepsActive ==
    ASSUME ActiveInv, CasesInv', NEW p \in Procs, Rollback(p)
    PROVE  ActiveInv'
<1>1. UNCHANGED <<rows, crossed>> /\ Close(p)
  BY DEF Rollback
<1>2. OneActive' /\ RowsLast
  BY <1>1, FewerActive DEF ActiveInv, Active, Exists, RowsLast
<1> QED
  BY <1>1, <1>2, CloseActive

(* A handler that goes on to its next statement.                           *)
LEMMA MiddlesKeepActive ==
    ASSUME Exclusive, ActiveInv, CasesInv', NEW p \in Procs,
           Reread(p) \/ DeactivateOthers(p)
    PROVE  ActiveInv'
<1> DEFINE c == job[p].case
<1>0. /\ step[p] \in {"reread", "deactivate"} => cleared[p] = {}
      /\ cleared \in [Procs -> SUBSET Cases]
      /\ step \in [Procs -> {"idle", "insert", "activate", "reread",
                             "deactivate", "rewrite", "flush"}]
      /\ job \in [Procs -> Jobs \cup {NoJob}]
  BY DEF ActiveInv, CasesInv, CasesTypeOK, Writing
<1>1. step[p] \in {"reread", "deactivate"}
  BY DEF Reread, DeactivateOthers
<1>2. job[p] \in Jobs /\ c \in Cases /\ job[p].row \in Rows
  BY <1>1 DEF ActiveInv, CasesInv, HandlerOK
<1>3. /\ rows[c] # NoRow
      /\ Exists(c) => rows[c].project = job[p].project
      /\ step[p] = "deactivate"
            => job[p].row.is_active /\ "is_active" \in job[p].write
  BY <1>1 DEF ActiveInv, RequestOK
<1>4. CASE Rollback(p)
  BY <1>4, RollbackKeepsActive
<1>5. CASE Reread(p) /\ ~Rollback(p)
  <2> DEFINE W == Changed(rows[c], job[p].row)
             j == [job[p] EXCEPT !.write = W]
             s == IF job[p].row.is_active /\ ~rows[c].is_active
                  THEN "deactivate" ELSE "flush"
  <2>1. /\ step' = [step EXCEPT ![p] = s]
        /\ job' = [job EXCEPT ![p].write = W]
        /\ UNCHANGED <<rows, cleared, crossed>>
        /\ Exists(c) /\ step[p] = "reread"
    BY <1>5 DEF Reread
  <2>2. job' = [job EXCEPT ![p] = j]
    BY <2>1
  <2>3. cleared' = [cleared EXCEPT ![p] = {}]
    BY <1>0, <1>1, <2>1
  <2>4. /\ j.case = c /\ j.project = job[p].project
        /\ j.row = job[p].row /\ j.write = W /\ j.op = job[p].op
    BY <1>2 DEF Jobs
  <2>5. rows[c] \in Rows
    BY <1>2, <2>1, ExistingRow DEF ActiveInv, CasesInv
  <2>6. /\ "is_active" \in W <=> rows[c].is_active # job[p].row.is_active
        /\ rows[c].is_active \in BOOLEAN /\ job[p].row.is_active \in BOOLEAN
    BY <1>2, <2>5 DEF Changed, Columns, Rows
  <2>7. /\ s = "deactivate" => job[p].row.is_active /\ "is_active" \in W
        /\ s = "flush" /\ "is_active" \in W => ~job[p].row.is_active
        /\ s \in {"deactivate", "flush"}
    BY <2>6
  <2>8. job[p].op = "update"
    BY <2>1 DEF ActiveInv, RequestOK
  <2> HIDE DEF s, j, W
  <2>9. Exists(c)'
    BY <2>1 DEF Exists
  <2>10. RequestOK(p)' /\ ~Writing(p)'
    BY <1>0, <1>3, <2>1, <2>2, <2>4, <2>7, <2>8, <2>9
       DEF RequestOK, Writing
  <2> QED
    BY <2>1, <2>2, <2>3, <2>10, OwnStepActive
<1>6. CASE DeactivateOthers(p)
  <2> DEFINE P == job[p].project
  <2>1. /\ step[p] = "deactivate"
        /\ step' = [step EXCEPT ![p] = "rewrite"]
        /\ cleared' = [cleared EXCEPT ![p] = RowsOf(P)]
        /\ UNCHANGED <<rows, job, crossed>> /\ MayWrite(p, RowsOf(P))
    BY <1>6 DEF DeactivateOthers, DeactivateAll
  <2>2. job' = [job EXCEPT ![p] = job[p]]
    BY <1>0, <2>1
  <2>3. RowsOf(P)' = RowsOf(P) /\ Exists(c)' = Exists(c)
    BY <2>1 DEF RowsOf, Exists
  <2>4. RequestOK(p)'
    BY <1>0, <1>3, <2>1, <2>3 DEF RequestOK, RowsOf
  <2> QED
    BY <2>1, <2>2, <2>4, WritesAlone, OwnStepActive
<1> QED
  BY <1>4, <1>5, <1>6

(* A step that leaves the table alone.                                     *)
LEMMA SameRowsKeepActive ==
    ASSUME UNCHANGED rows
    PROVE  KeepsActiveCase
BY DEF KeepsActiveCase, Active, Exists

(* A handler that ends.                                                    *)
LEMMA EndsKeepActive ==
    ASSUME Exclusive, ActiveInv, CasesInv', NEW p \in Procs,
           \/ Insert(p) \/ Activate(p) \/ ActivateMissing(p)
           \/ Flush(p) \/ Fail(p)
    PROVE  ActiveInv' /\ KeepsActiveCase
<1>1. CASE Rollback(p)
  BY <1>1, RollbackKeepsActive, SameRowsKeepActive DEF Rollback
<1>2. CASE Insert(p)
  <2>1. PICK c \in Cases : rows[c] = NoRow /\ Commit(p, c, job[p].row)
    BY <1>2 DEF Insert
  <2>2. Writing(p) /\ job[p].row \in Rows
    BY <1>2 DEF Insert, Writing, ActiveInv, CasesInv, HandlerOK
  <2>3. job[p].row.is_active /\ job[p].row.project = job[p].project
    BY <1>2 DEF Insert, ActiveInv, RequestOK
  <2> QED
    BY <2>1, <2>2, <2>3, ActivationCommits
<1>3. CASE Activate(p)
  <2> DEFINE c == job[p].case
             r == [rows[c] EXCEPT !.is_active = TRUE]
  <2>1. Writing(p) /\ c \in Cases /\ Exists(c) /\ Commit(p, c, r)
    BY <1>3 DEF Activate, Writing, ActiveInv, CasesInv, HandlerOK
  <2>2. step[p] = "activate" /\ rows[c] # NoRow /\ job[p].case = c
    BY <1>3, <2>1 DEF Activate, Exists
  <2>3. rows[c] \in Rows
    BY <2>1, ExistingRow DEF ActiveInv, CasesInv
  <2>4. r \in Rows /\ r.is_active /\ r.project = rows[c].project
    BY <2>3, RowUpdates
  <2> HIDE DEF c, r
  <2> QED
    BY <2>1, <2>2, <2>4, ActivationCommits
<1>4. CASE Flush(p) /\ ~Rollback(p)
  <2> DEFINE c == job[p].case
             r == Written(rows[c], job[p].row, job[p].write)
  <2>1. c \in Cases /\ job[p].row \in Rows
    BY <1>4 DEF Flush, ActiveInv, CasesInv, HandlerOK
  <2>2. /\ Exists(c) /\ Commit(p, c, r) /\ MayWrite(p, {c})
        /\ step[p] \in {"flush", "rewrite"}
    BY <1>4 DEF Flush
  <2>3. rows[c] \in Rows /\ rows[c].project = job[p].project
    BY <2>1, <2>2, ExistingRow DEF ActiveInv, CasesInv, RequestOK
  <2>4. /\ r \in Rows /\ r.project = rows[c].project
        /\ r.is_active = IF "is_active" \in job[p].write
                         THEN job[p].row.is_active ELSE rows[c].is_active
    BY <2>1, <2>3, WrittenRow
  <2>5. CASE step[p] = "rewrite"
    <3>1. Writing(p) /\ r.is_active
      BY <2>4, <2>5 DEF Writing, ActiveInv, RequestOK
    <3> HIDE DEF c, r
    <3> QED
      BY <2>1, <2>2, <2>3, <2>4, <3>1, ActivationCommits
  <2>6. CASE step[p] = "flush"
    <3>1. "is_active" \in job[p].write
            => WritesBackInactive(p, c) /\ ~r.is_active
      BY <2>4, <2>6 DEF ActiveInv, RequestOK, WritesBackInactive
    <3>2. cleared[p] = {}
      BY <2>6 DEF ActiveInv, CasesInv, CasesTypeOK, Writing
    <3>3. \A d \in Cases \ {c} : rows'[d] = rows[d]
      <4>1. \A d \in Cases : Deactivated(p)[d] = rows[d]
        BY <3>2 DEF Deactivated
      <4> HIDE DEF c, r
      <4> QED
        BY <2>1, <2>2, <2>4, <4>1, CommitRows DEF ActiveInv
    <3>4. rows'[c] = r /\ Close(p)
      <4> HIDE DEF c, r
      <4> QED
        BY <2>1, <2>2, <2>4, CommitRows DEF ActiveInv, Commit
    <3>11. ~Writing(p)
      BY <2>6 DEF Writing
    <3> HIDE DEF c, r
    <3>5. rows'[c] \notin {NoRow, DeletedRow}
      BY <2>4, <3>4, RowExists
    <3>6. \A d \in Cases : Active(d)' =>
             Active(d) /\ rows'[d].project = rows[d].project
      BY <2>2, <2>4, <3>1, <3>3, <3>4 DEF Active, Exists
    <3>10. UNCHANGED crossed
      BY <3>11, <2>2, <2>3, <2>4 DEF Commit
    <3>7. OneActive' /\ RowsLast
      BY <3>10, <2>2, <2>4, <3>3, <3>4, <3>5, <3>6, FewerActive
         DEF ActiveInv, RowsLast, Exists
    <3>8. \A q \in Procs \ {p} : ~Writing(q)
      BY <2>2, WritesAlone
    <3>9. KeepsActiveCase
      BY <2>2, <2>4, <3>1, <3>3, <3>4, <3>5
         DEF KeepsActiveCase, Active, Exists
    <3> QED
      BY <3>4, <3>7, <3>8, <3>9, CloseActive
  <2> QED
    BY <2>2, <2>5, <2>6
<1> QED
  BY <1>1, <1>2, <1>3, <1>4 DEF ActivateMissing, Fail

(* A transaction of one statement activates no case.                       *)
LEMMA StatementActive ==
    ASSUME Exclusive, ActiveInv, CasesInv', NEW p \in Procs, NEW S,
           Statement(p, S), RowsLast,
           \A c \in Cases :
              Active(c)' => Active(c) /\ rows'[c].project = rows[c].project,
           \A c \in Cases : Active(c) => Active(c)' \/ rows'[c] = DeletedRow
    PROVE  ActiveInv' /\ KeepsActiveCase
<1>1. OneActive'
  BY FewerActive DEF ActiveInv, Statement
<1>2. \A q \in Procs : ~Writing(q)
  BY WritesAlone DEF Statement, Writing
<1>3. UNCHANGED <<step, job, cleared>>
  BY DEF Statement
<1>4. \A q \in Procs : RequestOK(q)' /\ ~Writing(q)'
  BY <1>2, <1>3, RequestStable DEF ActiveInv, Writing
<1>5. KeepsActiveCase
  BY DEF KeepsActiveCase
<1> QED
  BY <1>1, <1>4, <1>5 DEF ActiveInv

(* The transactions of one statement, one by one.                          *)
LEMMA StatementsKeepActive ==
    ASSUME Exclusive, ActiveInv, CasesInv', NEW p \in Procs,
           \/ \E P \in Projects : CreateCase(p, P)
           \/ \E P \in Projects : MarkAllOutdated(p, P)
           \/ \E c \in Cases : CloneCase(p, c)
           \/ \E c \in Cases : DeleteCase(p, c)
    PROVE  ActiveInv' /\ KeepsActiveCase
<1>0. rows \in [Cases -> Rows \cup {NoRow, DeletedRow}]
  BY DEF ActiveInv, CasesInv, CasesTypeOK
<1>1. ASSUME NEW P, NEW d \in Cases, Statement(p, {}), rows[d] = NoRow,
             rows' = [rows EXCEPT ![d] = NewStudyCase(P, FALSE)]
      PROVE  ActiveInv' /\ KeepsActiveCase
  <2>1. ~NewStudyCase(P, FALSE).is_active
    BY DEF NewStudyCase
  <2>2. \A c \in Cases \ {d} : rows'[c] = rows[c]
    BY <1>0, <1>1
  <2>3. rows'[d] = NewStudyCase(P, FALSE)
    BY <1>0, <1>1
  <2>4. RowsLast
    BY <1>1, <2>2 DEF RowsLast, Exists
  <2>5. /\ \A c \in Cases : Active(c)' =>
              Active(c) /\ rows'[c].project = rows[c].project
        /\ \A c \in Cases : Active(c) => Active(c)'
    BY <1>1, <2>1, <2>2, <2>3 DEF Active, Exists
  <2> QED
    BY <1>1, <2>4, <2>5, StatementActive
<1>2. ASSUME NEW P \in Projects, MarkAllOutdated(p, P)
      PROVE  ActiveInv' /\ KeepsActiveCase
  <2> DEFINE F == {d \in RowsOf(P) : rows[d].result_status = "FRESH"}
  <2>1. /\ Statement(p, F)
        /\ rows' = [d \in Cases |-> IF d \in F THEN Outdate(rows[d])
                                   ELSE rows[d]]
    BY <1>2 DEF MarkAllOutdated
  <2>2. \A d \in F : /\ d \in Cases /\ Exists(d) /\ Outdate(rows[d]) \in Rows
                    /\ Outdate(rows[d]).project = rows[d].project
                    /\ Outdate(rows[d]).is_active = rows[d].is_active
    <3> SUFFICES ASSUME NEW d \in Cases, Exists(d)
                 PROVE  /\ Outdate(rows[d]) \in Rows
                        /\ Outdate(rows[d]).project = rows[d].project
                        /\ Outdate(rows[d]).is_active = rows[d].is_active
      BY DEF RowsOf
    <3>1. rows[d] \in Rows
      BY ExistingRow DEF ActiveInv, CasesInv
    <3> QED
      BY <3>1, RowUpdates
  <2> HIDE DEF F
  <2>3. \A d \in Cases :
           \/ rows'[d] = rows[d]
           \/ /\ Exists(d) /\ Exists(d)' /\ rows'[d] # NoRow
              /\ rows'[d].project = rows[d].project
              /\ rows'[d].is_active = rows[d].is_active
    BY <2>1, <2>2, RowExists DEF Exists
  <2>4. RowsLast
    BY <2>3 DEF RowsLast, Exists
  <2>5. /\ \A c \in Cases : Active(c)' =>
              Active(c) /\ rows'[c].project = rows[c].project
        /\ \A c \in Cases : Active(c) => Active(c)'
    BY <2>3 DEF Active, Exists
  <2> QED
    BY <2>1, <2>4, <2>5, StatementActive
<1>3. ASSUME NEW c \in Cases, DeleteCase(p, c)
      PROVE  ActiveInv' /\ KeepsActiveCase
  <2>1. /\ Statement(p, {c}) /\ rows'[c] = DeletedRow
        /\ \A d \in Cases \ {c} : rows'[d] = rows[d]
    BY <1>0, <1>3 DEF DeleteCase
  <2>2. RowsLast
    BY <2>1, CasesAssumption DEF RowsLast, Exists
  <2>3. /\ \A d \in Cases : Active(d)' =>
              Active(d) /\ rows'[d].project = rows[d].project
        /\ \A d \in Cases : Active(d) => Active(d)' \/ rows'[d] = DeletedRow
    BY <2>1 DEF Active, Exists
  <2> QED
    BY <2>1, <2>2, <2>3, StatementActive
<1>4. ASSUME NEW P \in Projects, CreateCase(p, P)
      PROVE  ActiveInv' /\ KeepsActiveCase
  BY <1>1, <1>4 DEF CreateCase
<1>5. ASSUME NEW c \in Cases, CloneCase(p, c)
      PROVE  ActiveInv' /\ KeepsActiveCase
  BY <1>1, <1>5 DEF CloneCase
<1> QED
  BY <1>2, <1>3, <1>4, <1>5

-----------------------------------------------------------------------------
(* The theorems.                                                           *)

(* The stronger invariant holds at first, and steps keep it.               *)
LEMMA ActiveInvInit == CasesInit => ActiveInv
BY CasesInvInit
   DEF CasesInit, ActiveInv, OneActive, Active, Exists, RequestOK, Writing

(* A step keeps it, and takes no active case away from a project.          *)
LEMMA ActiveInvStep ==
    ASSUME Exclusive, ActiveInv, [CasesNext]_casesVars
    PROVE  ActiveInv' /\ [KeepsActiveCase]_casesVars
<1>0. CasesInv'
  BY CasesInvStep DEF ActiveInv
<1>1. CASE UNCHANGED casesVars
  <2>1. OneActive'
    BY <1>1, FewerActive DEF casesVars, ActiveInv, Active, Exists
  <2>2. \A p \in Procs : RequestOK(p)' /\ Writing(p)' = Writing(p)
    BY <1>1, RequestStable DEF casesVars, ActiveInv, RowsLast, Exists, Writing
  <2> QED
    BY <1>0, <1>1, <2>1, <2>2 DEF ActiveInv
<1>2. CASE CasesNext
  <2>1. PICK p \in Procs :
           \/ \E P \in Projects : CreateCase(p, P)
           \/ \E P \in Projects : MarkAllOutdated(p, P)
           \/ \E c \in Cases : CloneCase(p, c)
           \/ \E c \in Cases : DeleteCase(p, c)
           \/ \E P \in Projects : CreateActive(p, P)
           \/ \E P \in Projects, c \in Cases : SetActiveCase(p, P, c)
           \/ \E c \in Cases, b \in BOOLEAN : GetForUpdate(p, c, b)
           \/ \E c \in Cases : MarkCaseFresh(p, c)
           \/ \E c \in Cases : MarkCaseOutdated(p, c)
           \/ Reread(p) \/ DeactivateOthers(p)
           \/ Insert(p) \/ Activate(p) \/ ActivateMissing(p)
           \/ Flush(p) \/ Fail(p)
    BY <1>2 DEF CasesNext
  <2>2. CASE \/ \E P \in Projects : CreateActive(p, P)
             \/ \E P \in Projects, c \in Cases : SetActiveCase(p, P, c)
             \/ \E c \in Cases, b \in BOOLEAN : GetForUpdate(p, c, b)
             \/ \E c \in Cases : MarkCaseFresh(p, c)
             \/ \E c \in Cases : MarkCaseOutdated(p, c)
    <3>1. UNCHANGED rows
      BY <2>2 DEF CreateActive, SetActiveCase, GetForUpdate, MarkCaseFresh,
                  MarkCaseOutdated
    <3> QED
      BY <1>0, <2>2, <3>1, StartsKeepActive, SameRowsKeepActive
  <2>3. CASE Reread(p) \/ DeactivateOthers(p)
    <3>1. UNCHANGED rows
      BY <2>3 DEF Reread, DeactivateOthers, Rollback
    <3> QED
      BY <1>0, <2>3, <3>1, MiddlesKeepActive, SameRowsKeepActive
  <2> QED
    BY <1>0, <2>1, <2>2, <2>3, EndsKeepActive, StatementsKeepActive
<1> QED
  BY <1>1, <1>2

(* OneActive: with SQLite's one writing transaction at a time a project has *)
(* two active cases only after a request that named another project, and   *)
(* until the next activation, for any number of projects and threads.      *)
THEOREM AtMostOneActive ==
    ASSUME Exclusive
    PROVE  CasesSpec => []OneActive
<1>1. CasesInit => ActiveInv
  BY ActiveInvInit
<1>2. ActiveInv /\ [CasesNext]_casesVars => ActiveInv'
  BY ActiveInvStep
<1>3. ActiveInv => OneActive
  BY DEF ActiveInv
<1> QED
  BY <1>1, <1>2, <1>3, PTL DEF CasesSpec

(* ActiveCaseKept: under the same condition a project loses its active     *)
(* case only to a deletion, to an update_case that read it inactive, or to *)
(* a request that named it for a case of another project.                  *)
THEOREM ActiveCasesAreKept ==
    ASSUME Exclusive
    PROVE  CasesSpec => ActiveCaseKept
<1>1. CasesInit => ActiveInv
  BY ActiveInvInit
<1>2. ActiveInv /\ [CasesNext]_casesVars => ActiveInv'
  BY ActiveInvStep
<1>3. ActiveInv /\ [CasesNext]_casesVars => [KeepsActiveCase]_casesVars
  BY ActiveInvStep
<1> QED
  BY <1>1, <1>2, <1>3, PTL DEF CasesSpec, ActiveCaseKept
=============================================================================
