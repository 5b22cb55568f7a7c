------------------------ MODULE SnapshotSync_proofs ------------------------
(***************************************************************************)
(* Proofs about tabs, network and endpoint, for any number of tabs, cases  *)
(* and requests: the versioned register is implemented, snapshots lag but  *)
(* never contradict, and a guarded operation takes effect once.            *)
(***************************************************************************)
EXTENDS SnapshotSync, TLAPS

(* The models that get_enm and set_enm build.                              *)

(* A sealed model is a model, and its header names it.                     *)
LEMMA SealedIsEnm ==
    ASSUME NEW c \in Cases, NEW n \in Revisions, NEW x \in Contents
    PROVE  /\ Sealed(c, n, x) \in Enms
           /\ HashIsCurrent(Sealed(c, n, x))
           /\ Sealed(c, n, x).case = c
           /\ Sealed(c, n, x).revision = n
           /\ Sealed(c, n, x).content = x
<1>1. HashOf(c, n, x) \in Hashes
  BY DEF HashOf, Hashes
<1> QED
  BY <1>1 DEF Sealed, HashIsCurrent, ComputeHash, Enms

(* The model set_enm computes: well formed, one revision on.               *)
LEMMA NextEnmIsEnm ==
    ASSUME NEW c \in Cases, NEW e \in Enms \cup {NoEnm}, NEW x \in Contents
    PROVE  /\ NextEnm(c, e, x) \in Enms
           /\ HashIsCurrent(NextEnm(c, e, x))
           /\ NextEnm(c, e, x).case = c
           /\ NextEnm(c, e, x).content = x
           /\ NextEnm(c, e, x).revision = OldRevision(e) + 1
<1>1. OldRevision(e) \in Nat
  BY DEF OldRevision, Enms, Revisions
<1>2. OldRevision(e) + 1 \in Revisions
  BY <1>1 DEF Revisions
<1> QED
  BY <1>2, SealedIsEnm DEF NextEnm

(* The model get_enm creates.                                              *)
LEMMA DefaultEnmIsEnm ==
    ASSUME NEW c \in Cases
    PROVE  /\ DefaultEnm(c) \in Enms
           /\ HashIsCurrent(DefaultEnm(c))
           /\ DefaultEnm(c).case = c
<1>1. EmptyContent \in Contents
  BY ModelAssumption
<1>2. 1 \in Revisions
  BY DEF Revisions
<1> QED
  BY <1>1, <1>2, SealedIsEnm DEF DefaultEnm

(* An operation yields a content or OpError.                               *)
LEMMA ExecuteType ==
    ASSUME NEW x \in Contents, NEW op \in Ops
    PROVE  Execute(x, op) \in Contents \cup {OpError}
  BY ModelAssumption DEF Execute

(* The hash stored in the header tells contents apart: set_enm answers     *)
(* with the stored model exactly when the content did not change.          *)
LEMMA SameAsStoredIff ==
    ASSUME NEW e \in Enms, HashIsCurrent(e), NEW x \in Contents
    PROVE  SameAsStored(e, x) <=> x = e.content
  BY NoEnmAssumption DEF SameAsStored, HashIsCurrent, ComputeHash, HashOf

-----------------------------------------------------------------------------
(* Stored models name their case and carry their own hash.                 *)
StoreOK ==
    \A c \in Cases : store[c] # NoEnm =>
        /\ HashIsCurrent(store[c])
        /\ store[c].case = c

(* Numbers are given once: a request on its way was never applied.         *)
NumbersOK ==
    /\ \A r \in requests : r.id < sent
    /\ \A r \in applied : r.id < sent
    /\ requests \cap applied = {}

SyncInv == SyncTypeOK /\ StoreOK /\ NumbersOK

-----------------------------------------------------------------------------
(* What get_enm returns, created or found.                                 *)
LEMMA GetEnmOK ==
    ASSUME SyncTypeOK, StoreOK, NEW c \in Cases
    PROVE  /\ GetEnm(c) \in Enms
           /\ HashIsCurrent(GetEnm(c))
           /\ GetEnm(c).case = c
           /\ GetEnm(c).content \in Contents
           /\ GetEnm(c).revision \in Revisions
           /\ GetEnm(c).hash \in Hashes
<1>1. CASE store[c] = NoEnm
  BY <1>1, DefaultEnmIsEnm DEF GetEnm, Enms
<1>2. CASE store[c] # NoEnm
  BY <1>2 DEF GetEnm, SyncTypeOK, StoreOK, Enms
<1> QED BY <1>1, <1>2

LEMMA SyncInitInv == SyncInit => SyncInv
  BY SyncAssumption
     DEF SyncInit, SyncInv, SyncTypeOK, StoreOK, NumbersOK

(* Every step of an endpoint that only creates the model of a case.        *)
LEMMA AnswerInv ==
    ASSUME SyncInv, NEW r \in requests, NEW status,
           NEW e \in Enms \cup {NoEnm},
           status \in {"ok", "error", "conflict", "invalid", "lost"},
           Answer(r, status, e),
           UNCHANGED <<tabVars, applied, sent, restarts>>,
           \/ UNCHANGED store
           \/ store' = [store EXCEPT ![r.case] = GetEnm(r.case)]
    PROVE  SyncInv'
<1>1. /\ r \in Requests
      /\ r.case \in Cases
  BY DEF SyncInv, SyncTypeOK, Requests
<1>2. /\ GetEnm(r.case) \in Enms
      /\ HashIsCurrent(GetEnm(r.case))
      /\ GetEnm(r.case).case = r.case
  BY <1>1, GetEnmOK DEF SyncInv
<1>3. [req |-> r, status |-> status, enm |-> e] \in Responses
  BY <1>1 DEF Responses
<1>4. SyncTypeOK'
  BY <1>1, <1>2, <1>3 DEF SyncInv, SyncTypeOK, Answer, tabVars
<1>5. StoreOK'
  BY <1>1, <1>2 DEF SyncInv, SyncTypeOK, StoreOK
<1>6. NumbersOK'
  BY DEF SyncInv, NumbersOK, Answer
<1> QED BY <1>4, <1>5, <1>6 DEF SyncInv

(* The endpoint makes the next revision.                                   *)
LEMMA CommitOK ==
    ASSUME SyncInv, NEW r \in requests, Commit(r)
    PROVE  LET enm == GetEnm(r.case)
               x == Execute(enm.content, r.op)
               saved == NextEnm(r.case, enm, x)
           IN  /\ r \in Requests
               /\ r.case \in Cases
               /\ x \in Contents \ {enm.content}
               /\ saved \in Enms
               /\ HashIsCurrent(saved)
               /\ saved.case = r.case
               /\ saved.revision = enm.revision + 1
               /\ r.base \in {NoHash, ComputeHash(enm)}
               /\ store' = [store EXCEPT ![r.case] = saved]
               /\ responses' = responses \cup
                     {[req |-> r, status |-> "ok", enm |-> saved]}
               /\ requests' = requests \ {r}
               /\ applied' = applied \cup {r}
               /\ UNCHANGED <<tabVars, sent, restarts>>
<1> DEFINE enm == GetEnm(r.case)
           x == Execute(enm.content, r.op)
           saved == NextEnm(r.case, enm, x)
<1>1. r \in Requests /\ r.case \in Cases /\ r.op \in Ops
  BY DEF SyncInv, SyncTypeOK, Requests
<1>2. /\ enm \in Enms
      /\ HashIsCurrent(enm)
      /\ enm.content \in Contents
      /\ enm.revision \in Revisions
  BY <1>1, GetEnmOK DEF SyncInv
<1>3. /\ BaseAccepted(r.base, enm)
      /\ x # OpError
      /\ ~SameAsStored(enm, x)
      /\ store' = [store EXCEPT ![r.case] = saved]
      /\ responses' = responses \cup
            {[req |-> r, status |-> "ok", enm |-> saved]}
      /\ requests' = requests \ {r}
      /\ applied' = applied \cup {r}
      /\ UNCHANGED <<tabVars, sent, restarts>>
  BY DEF Commit, Answer
<1>4. x \in Contents
  BY <1>1, <1>2, <1>3, ExecuteType
<1>5. x # enm.content
  BY <1>2, <1>3, <1>4, SameAsStoredIff
<1>6. /\ saved \in Enms
      /\ HashIsCurrent(saved)
      /\ saved.case = r.case
      /\ saved.revision = OldRevision(enm) + 1
  BY <1>1, <1>2, <1>4, NextEnmIsEnm
<1>7. OldRevision(enm) = enm.revision
  BY <1>2, NoEnmAssumption DEF OldRevision
<1>8. r.base \in {NoHash, ComputeHash(enm)}
  BY <1>2, <1>3 DEF BaseAccepted, HashIsCurrent
<1> QED BY <1>1, <1>3, <1>4, <1>5, <1>6, <1>7, <1>8

(* A tab sends a request under a number nobody has.                        *)
LEMMA PostInv ==
    ASSUME SyncInv, NEW t \in Clients, NEW c \in Cases,
           NEW base \in Hashes \cup {NoHash}, NEW op \in Ops,
           Post(t, c, base, op),
           active' \in [Clients -> Cases \cup {NoCase}],
           shown' \in [Clients -> Enms \cup {NoEnm}],
           UNCHANGED <<store, responses, applied, restarts>>
    PROVE  SyncInv'
<1> DEFINE r == [id |-> sent, client |-> t, case |-> c, base |-> base,
                 op |-> op]
<1>1. /\ requests' = requests \cup {r}
      /\ sent' = sent + 1
      /\ loading' = [loading EXCEPT ![t] = TRUE]
      /\ error' = [error EXCEPT ![t] = "none"]
  BY DEF Post
<1>2. r \in Requests
  BY DEF Requests, SyncInv, SyncTypeOK
<1>3. r.id = sent
  OBVIOUS
<1> HIDE DEF r
<1>4. SyncTypeOK'
  BY <1>1, <1>2 DEF SyncInv, SyncTypeOK
<1>5. StoreOK'
  BY DEF SyncInv, StoreOK
<1>6. NumbersOK'
  <2>1. /\ \A q \in requests : q.id \in Nat
        /\ \A q \in applied : q.id \in Nat
        /\ sent \in Nat
    BY DEF SyncInv, SyncTypeOK, Requests
  <2>2. r \notin applied
    BY <1>3, <2>1 DEF SyncInv, NumbersOK
  <2> QED BY <1>1, <1>3, <2>1, <2>2 DEF SyncInv, NumbersOK
<1> QED BY <1>4, <1>5, <1>6 DEF SyncInv

LEMMA SyncNextInv == SyncInv /\ [SyncNext]_syncVars => SyncInv'
<1> SUFFICES ASSUME SyncInv, [SyncNext]_syncVars PROVE SyncInv'
  OBVIOUS
<1>1. ASSUME NEW t \in Clients, NEW op \in Ops, ExecuteDomainOperation(t, op)
      PROVE  SyncInv'
  <2>1. /\ active[t] \in Cases
        /\ BaseOf(shown[t]) \in Hashes \cup {NoHash}
    BY <1>1 DEF ExecuteDomainOperation, BaseOf, SyncInv, SyncTypeOK, Enms
  <2>2. /\ Post(t, active[t], BaseOf(shown[t]), op)
        /\ UNCHANGED <<store, active, shown, responses, applied, restarts>>
    BY <1>1 DEF ExecuteDomainOperation
  <2>3. /\ active' \in [Clients -> Cases \cup {NoCase}]
        /\ shown' \in [Clients -> Enms \cup {NoEnm}]
    BY <2>2 DEF SyncInv, SyncTypeOK
  <2> QED BY <2>1, <2>2, <2>3, PostInv
<1>2. ASSUME NEW t \in Clients, NEW c \in Cases, OpenCase(t, c)
      PROVE  SyncInv'
  <2>1. /\ Post(t, c, NoHash, RefreshOp)
        /\ UNCHANGED <<store, responses, applied, restarts>>
    BY <1>2 DEF OpenCase
  <2>2. RefreshOp \in Ops
    BY ModelAssumption
  <2>3. /\ active' \in [Clients -> Cases \cup {NoCase}]
        /\ shown' \in [Clients -> Enms \cup {NoEnm}]
    BY <1>2 DEF OpenCase, SyncInv, SyncTypeOK
  <2> QED BY <2>1, <2>2, <2>3, PostInv
<1>3. ASSUME NEW r \in requests, Refuse(r) PROVE SyncInv'
  <2>1. PICK status \in {"conflict", "invalid", "error"} :
            Answer(r, status, NoEnm)
    BY <1>3 DEF Refuse
  <2> QED BY <1>3, <2>1, AnswerInv DEF Refuse
<1>4. ASSUME NEW r \in requests, Confirm(r) PROVE SyncInv'
  <2>1. GetEnm(r.case) \in Enms
    BY GetEnmOK DEF SyncInv, SyncTypeOK, Requests
  <2> QED BY <1>4, <2>1, AnswerInv DEF Confirm
<1>5. ASSUME NEW r \in requests, Commit(r) PROVE SyncInv'
  <2> DEFINE saved == NextEnm(r.case, GetEnm(r.case),
                              Execute(GetEnm(r.case).content, r.op))
  <2>1. /\ r \in Requests
        /\ r.case \in Cases
        /\ saved \in Enms
        /\ HashIsCurrent(saved)
        /\ saved.case = r.case
        /\ store' = [store EXCEPT ![r.case] = saved]
        /\ responses' = responses \cup
              {[req |-> r, status |-> "ok", enm |-> saved]}
        /\ requests' = requests \ {r}
        /\ applied' = applied \cup {r}
        /\ UNCHANGED <<tabVars, sent, restarts>>
    BY <1>5, CommitOK
  <2> HIDE DEF saved
  <2>2. [req |-> r, status |-> "ok", enm |-> saved] \in Responses
    BY <2>1 DEF Responses
  <2>3. SyncTypeOK'
    BY <2>1, <2>2 DEF SyncInv, SyncTypeOK, tabVars
  <2>4. StoreOK'
    BY <2>1 DEF SyncInv, SyncTypeOK, StoreOK
  <2>5. NumbersOK'
    BY <2>1 DEF SyncInv, NumbersOK
  <2> QED BY <2>3, <2>4, <2>5 DEF SyncInv
<1>6. ASSUME NEW r \in responses, Deliver(r) PROVE SyncInv'
  <2>1. /\ r.req.client \in Clients
        /\ r.enm \in Enms \cup {NoEnm}
    BY DEF SyncInv, SyncTypeOK, Responses, Requests
  <2>2. SyncTypeOK'
    BY <1>6, <2>1 DEF Deliver, SyncInv, SyncTypeOK
  <2>3. StoreOK' /\ NumbersOK'
    BY <1>6 DEF Deliver, SyncInv, StoreOK, NumbersOK
  <2> QED BY <2>2, <2>3 DEF SyncInv
<1>7. ASSUME NEW r \in requests, LoseRequest(r) PROVE SyncInv'
  BY <1>7, AnswerInv DEF LoseRequest
<1>8. ASSUME NEW r \in responses, LoseResponse(r) PROVE SyncInv'
  <2>1. [r EXCEPT !.status = "lost", !.enm = NoEnm] \in Responses
    BY DEF SyncInv, SyncTypeOK, Responses
  <2>2. SyncTypeOK'
    BY <1>8, <2>1 DEF LoseResponse, SyncInv, SyncTypeOK, tabVars
  <2>3. StoreOK' /\ NumbersOK'
    BY <1>8 DEF LoseResponse, SyncInv, StoreOK, NumbersOK
  <2> QED BY <2>2, <2>3 DEF SyncInv
<1>9. CASE Restart
  BY <1>9 DEF Restart, SyncInv, SyncTypeOK, StoreOK, NumbersOK, tabVars,
              netVars
<1>10. CASE UNCHANGED syncVars
  BY <1>10 DEF syncVars, tabVars, netVars, SyncInv, SyncTypeOK, StoreOK,
               NumbersOK
<1> QED
  BY <1>1, <1>2, <1>3, <1>4, <1>5, <1>6, <1>7, <1>8, <1>9, <1>10 DEF SyncNext

LEMMA SyncInvariant == SyncSpec => []SyncInv
  BY SyncInitInv, SyncNextInv, PTL DEF SyncSpec

(* Every variable of tabs, network and backend keeps its type.             *)
THEOREM SyncTypeCorrect == SyncSpec => []SyncTypeOK
<1>1. SyncInv => SyncTypeOK
  BY DEF SyncInv
<1> QED BY <1>1, SyncInvariant, PTL

-----------------------------------------------------------------------------
(* Refinement.  Answering a request that changes nothing maps to Create or *)
(* to a stutter, committing one maps to Apply, a restart to Forget.        *)
LEMMA InitRefines == SyncInit => Register!RegInit
  BY DEF SyncInit, Register!RegInit

LEMMA CreateOrStutter ==
    ASSUME SyncInv, NEW c \in Cases, UNCHANGED applied,
           store' = [store EXCEPT ![c] = GetEnm(c)]
    PROVE  [Register!RegNext]_Register!regVars
<1>1. CASE store[c] = NoEnm
  <2>1. Register!Create(c)
    BY <1>1 DEF Register!Create, Register!DefaultEnm, Register!Sealed,
                Register!HashOf, GetEnm, DefaultEnm, Sealed, HashOf
  <2> QED BY <2>1 DEF Register!RegNext
<1>2. CASE store[c] # NoEnm
  BY <1>2 DEF GetEnm, SyncInv, SyncTypeOK, Register!regVars
<1> QED BY <1>1, <1>2

LEMMA CommitApplies ==
    ASSUME SyncInv, NEW r \in requests, Commit(r)
    PROVE  Register!Apply(r)
<1> DEFINE enm == GetEnm(r.case)
           x == Execute(enm.content, r.op)
<1>1. Register!Current(r.case) = enm
  BY DEF Register!Current, Register!DefaultEnm, Register!Sealed,
         Register!HashOf, GetEnm, DefaultEnm, Sealed, HashOf
<1>2. Register!Execute(enm.content, r.op) = x
  BY DEF Register!Execute, Execute
<1>3. Register!ComputeHash(enm) = ComputeHash(enm)
  BY DEF Register!ComputeHash, Register!HashOf, ComputeHash, HashOf
<1>4. Register!NextEnm(r.case, enm, x) = NextEnm(r.case, enm, x)
  BY DEF Register!NextEnm, Register!OldRevision, Register!Sealed,
         Register!HashOf, NextEnm, OldRevision, Sealed, HashOf
<1>5. Register!NoHash = NoHash
  BY DEF Register!NoHash, NoHash
<1>6. r \notin applied
  BY DEF SyncInv, NumbersOK
<1>7. /\ x \in Contents \ {enm.content}
      /\ r.base \in {NoHash, ComputeHash(enm)}
      /\ store' = [store EXCEPT ![r.case] = NextEnm(r.case, enm, x)]
      /\ applied' = applied \cup {r}
  BY CommitOK
<1> HIDE DEF enm, x
<1> QED
  BY <1>1, <1>2, <1>3, <1>4, <1>5, <1>6, <1>7 DEF Register!Apply

LEMMA StepRefines ==
    SyncInv /\ [SyncNext]_syncVars => [Register!RegNext]_Register!regVars
<1> SUFFICES ASSUME SyncInv, [SyncNext]_syncVars
             PROVE  [Register!RegNext]_Register!regVars
  OBVIOUS
<1>1. ASSUME NEW r \in requests PROVE r.case \in Cases
  BY DEF SyncInv, SyncTypeOK, Requests
<1>2. ASSUME NEW r \in requests, Refuse(r) \/ Confirm(r)
      PROVE  [Register!RegNext]_Register!regVars
  BY <1>1, <1>2, CreateOrStutter DEF Refuse, Confirm
<1>3. ASSUME NEW r \in requests, Commit(r)
      PROVE  [Register!RegNext]_Register!regVars
  <2>1. Register!Apply(r) /\ r \in applied'
    BY <1>3, CommitApplies DEF Commit
  <2> QED BY <2>1 DEF Register!RegNext
<1>4. CASE Restart
  BY <1>4 DEF Restart, Register!RegNext, Register!Forget
<1>5. CASE UNCHANGED <<store, applied>>
  BY <1>5 DEF Register!regVars
<1> QED
  BY <1>2, <1>3, <1>4, <1>5
     DEF SyncNext, ExecuteDomainOperation, OpenCase, Deliver, LoseRequest,
         LoseResponse, syncVars

(* Tabs, network and endpoint implement the versioned register.            *)
THEOREM SyncImplementsRegister == SyncSpec => RefinesRegister
  BY InitRefines, StepRefines, SyncInvariant, PTL
     DEF SyncSpec, RefinesRegister, Register!RegSpec

-----------------------------------------------------------------------------
(* Snapshots lag.  A step of the store only creates models or raises their *)
(* revision, so whatever lagged still lags.                                *)
Grows ==
    \A c \in Cases :
        \/ store'[c] = store[c]
        \/ store[c] = NoEnm
        \/ store'[c] # NoEnm /\ store'[c].revision = store[c].revision + 1

LEMMA GrowingKeepsLag ==
    ASSUME SyncInv, SyncInv', Grows, NEW e \in Enms \cup {NoEnm}, Lags(e)
    PROVE  Lags(e)'
<1> SUFFICES ASSUME e # NoEnm PROVE Lags(e)'
  BY DEF Lags
<1>1. e.case \in Cases /\ e.revision \in Nat
  BY DEF Enms, Revisions
<1>2. store[e.case] \in Enms
  BY <1>1 DEF Lags, SyncInv, SyncTypeOK
<1>3. store[e.case].revision \in Nat
  BY <1>2 DEF Enms, Revisions
<1> QED
  BY <1>1, <1>2, <1>3 DEF Grows, Lags

LEMMA OwnLag ==
    ASSUME NEW c \in Cases, SyncInv', store'[c] # NoEnm
    PROVE  Lags(store[c])'
<1>1. store'[c].case = c /\ store'[c].revision \in Nat
  BY DEF SyncInv, StoreOK, SyncTypeOK, Enms, Revisions
<1> QED BY <1>1 DEF Lags

(* An answer carries the model stored in the same step, or none.           *)
Answered(r) ==
    /\ Grows
    /\ shown' = shown
    /\ \E s \in {"ok", "error", "conflict", "invalid"},
          e \in {NoEnm, store'[r.case]} :
          responses' = responses \cup
              {[req |-> r, status |-> s, enm |-> e]}

LEMMA ServeAnswers ==
    ASSUME SyncInv, NEW r \in requests, Serve(r)
    PROVE  Answered(r)
<1>1. r.case \in Cases
  BY DEF SyncInv, SyncTypeOK, Requests
<1>2. ASSUME store' = [store EXCEPT ![r.case] = GetEnm(r.case)]
      PROVE  Grows /\ store'[r.case] = GetEnm(r.case)
  BY <1>1, <1>2 DEF Grows, GetEnm, SyncInv, SyncTypeOK
<1>3. CASE Refuse(r)
  BY <1>2, <1>3 DEF Refuse, Answer, Answered, tabVars
<1>4. CASE Confirm(r)
  BY <1>2, <1>4 DEF Confirm, Answer, Answered, tabVars
<1>5. CASE Commit(r)
  <2> DEFINE saved == NextEnm(r.case, GetEnm(r.case),
                              Execute(GetEnm(r.case).content, r.op))
  <2>1. /\ saved \in Enms
        /\ saved.revision = GetEnm(r.case).revision + 1
        /\ store' = [store EXCEPT ![r.case] = saved]
        /\ responses' = responses \cup
              {[req |-> r, status |-> "ok", enm |-> saved]}
        /\ UNCHANGED tabVars
    BY <1>5, CommitOK
  <2> HIDE DEF saved
  <2>2. store'[r.case] = saved
    BY <1>1, <2>1 DEF SyncInv, SyncTypeOK
  <2>3. Grows
    BY <1>1, <2>1, <2>2, NoEnmAssumption
       DEF Grows, GetEnm, SyncInv, SyncTypeOK
  <2> QED BY <2>1, <2>2, <2>3 DEF Answered, tabVars
<1> QED BY <1>3, <1>4, <1>5 DEF Serve

LEMMA LagNext ==
    SyncInv /\ SyncInv' /\ SnapshotsLag /\ [SyncNext]_syncVars => SnapshotsLag'
<1> SUFFICES ASSUME SyncInv, SyncInv', SnapshotsLag, [SyncNext]_syncVars,
                    restarts' = 0
             PROVE  /\ \A t \in Clients : Lags(shown[t])'
                    /\ \A r \in responses' : Lags(r.enm)'
  BY DEF SnapshotsLag
<1>1. /\ \A t \in Clients : shown[t] \in Enms \cup {NoEnm}
      /\ \A r \in responses : r.enm \in Enms \cup {NoEnm}
      /\ \A r \in requests : r.case \in Cases
      /\ \A r \in responses : r.req.client \in Clients
      /\ restarts \in Nat
  BY DEF SyncInv, SyncTypeOK, Responses, Requests
<1>2. ~Restart
  BY <1>1 DEF Restart
<1>3. restarts = 0
  BY <1>2 DEF SyncNext, ExecuteDomainOperation, OpenCase, Refuse, Confirm,
              Commit, Deliver, LoseRequest, LoseResponse, syncVars
<1>4. /\ \A t \in Clients : Lags(shown[t])
      /\ \A r \in responses : Lags(r.enm)
  BY <1>3 DEF SnapshotsLag
<1>5. Lags(NoEnm) /\ Lags(NoEnm)'
  BY DEF Lags
<1>6. ASSUME NEW r \in requests, Serve(r)
      PROVE  /\ \A t \in Clients : Lags(shown[t])'
             /\ \A q \in responses' : Lags(q.enm)'
  <2>1. Answered(r)
    BY <1>6, ServeAnswers
  <2>2. ASSUME NEW e \in Enms \cup {NoEnm}, Lags(e) PROVE Lags(e)'
    BY <2>1, <2>2, GrowingKeepsLag DEF Answered
  <2>3. Lags(store[r.case])'
    BY <1>1, <1>5, OwnLag
  <2>4. \A t \in Clients : Lags(shown[t])'
    BY <1>1, <1>4, <2>1, <2>2 DEF Answered
  <2>5. ASSUME NEW q \in responses' PROVE Lags(q.enm)'
    <3>1. CASE q \in responses
      BY <1>1, <1>4, <2>2, <3>1
    <3>2. CASE q \notin responses
      BY <1>5, <2>1, <2>3, <3>2 DEF Answered
    <3> QED BY <3>1, <3>2
  <2> QED BY <2>4, <2>5
<1>7. ASSUME store' = store,
             \A t \in Clients :
                shown'[t] \in {NoEnm, shown[t]} \cup {r.enm : r \in responses},
             \A r \in responses' :
                r.enm \in {NoEnm} \cup {q.enm : q \in responses}
      PROVE  /\ \A t \in Clients : Lags(shown[t])'
             /\ \A r \in responses' : Lags(r.enm)'
  BY <1>4, <1>5, <1>7 DEF Lags
<1>8. ASSUME NEW t \in Clients, NEW op \in Ops, ExecuteDomainOperation(t, op)
      PROVE  /\ \A u \in Clients : Lags(shown[u])'
             /\ \A r \in responses' : Lags(r.enm)'
  BY <1>7, <1>8 DEF ExecuteDomainOperation
<1>9. ASSUME NEW t \in Clients, NEW c \in Cases, OpenCase(t, c)
      PROVE  /\ \A u \in Clients : Lags(shown[u])'
             /\ \A r \in responses' : Lags(r.enm)'
  BY <1>7, <1>9 DEF OpenCase, SyncInv, SyncTypeOK
<1>10. ASSUME NEW r \in responses, Deliver(r)
       PROVE  /\ \A u \in Clients : Lags(shown[u])'
              /\ \A q \in responses' : Lags(q.enm)'
  BY <1>1, <1>7, <1>10 DEF Deliver, SyncInv, SyncTypeOK
<1>11. ASSUME NEW r \in requests, LoseRequest(r)
       PROVE  /\ \A u \in Clients : Lags(shown[u])'
              /\ \A q \in responses' : Lags(q.enm)'
  BY <1>7, <1>11 DEF LoseRequest, Answer, tabVars
<1>12. ASSUME NEW r \in responses, LoseResponse(r)
       PROVE  /\ \A u \in Clients : Lags(shown[u])'
              /\ \A q \in responses' : Lags(q.enm)'
  <2>1. [r EXCEPT !.status = "lost", !.enm = NoEnm].enm = NoEnm
    BY DEF SyncInv, SyncTypeOK, Responses
  <2> QED BY <1>7, <1>12, <2>1 DEF LoseResponse, tabVars
<1>13. CASE UNCHANGED syncVars
  BY <1>7, <1>13 DEF syncVars, tabVars, netVars
<1> QED
  BY <1>2, <1>6, <1>8, <1>9, <1>10, <1>11, <1>12, <1>13 DEF SyncNext, Serve

(* What a tab shows, or is about to show, never contradicts the backend.   *)
THEOREM SnapshotsLagTheorem == SyncSpec => []SnapshotsLag
<1>1. SyncInit => SnapshotsLag
  BY DEF SyncInit, SnapshotsLag, Lags
<1> QED BY <1>1, LagNext, SyncInvariant, PTL DEF SyncSpec

-----------------------------------------------------------------------------
(* A guarded operation takes effect once.  The revision in the base hash   *)
(* of an applied request lies in the past of its case, and a request is    *)
(* only applied when the revision in its base hash is the present one.     *)
BasesPast ==
    restarts = 0 =>
        \A r \in applied : r.base # NoHash =>
            store[r.case] # NoEnm /\ r.base[2] < store[r.case].revision

RetryInv == BasesPast /\ GuardedRetryAppliedOnce

LEMMA CommitKeepsRetryInv ==
    ASSUME SyncInv, RetryInv, restarts = 0, NEW r \in requests, Commit(r)
    PROVE  RetryInv'
<1> DEFINE enm == GetEnm(r.case)
           saved == NextEnm(r.case, enm, Execute(enm.content, r.op))
<1>1. /\ r.case \in Cases
      /\ saved \in Enms
      /\ saved.revision = enm.revision + 1
      /\ r.base \in {NoHash, ComputeHash(enm)}
      /\ store' = [store EXCEPT ![r.case] = saved]
      /\ applied' = applied \cup {r}
      /\ UNCHANGED restarts
  BY CommitOK
<1>2. enm.revision \in Nat
  BY <1>1, GetEnmOK DEF SyncInv, Revisions
<1>3. r.base # NoHash => r.base[2] = enm.revision
  BY <1>1 DEF ComputeHash, HashOf
<1>4. store'[r.case] = saved /\ saved # NoEnm
  BY <1>1, NoEnmAssumption DEF SyncInv, SyncTypeOK
<1>5. ASSUME NEW q \in applied, q.case = r.case, q.base # NoHash
      PROVE  q.base[2] < enm.revision
  BY <1>5 DEF RetryInv, BasesPast, GetEnm
<1>6. \A q \in applied : q.case \in Cases /\ q.base \in Hashes \cup {NoHash}
  BY DEF SyncInv, SyncTypeOK, Requests
<1>7. ASSUME NEW q \in applied, q.base # NoHash
      PROVE  store'[q.case] # NoEnm /\ q.base[2] < store'[q.case].revision
  <2>1. CASE q.case = r.case
    <3>1. q.base[2] \in Int
      BY <1>6, <1>7 DEF Hashes, Revisions
    <3> QED BY <1>1, <1>2, <1>4, <1>5, <1>7, <2>1, <3>1
  <2>2. CASE q.case # r.case
    BY <1>1, <1>6, <1>7, <2>2
       DEF RetryInv, BasesPast, SyncInv, SyncTypeOK
  <2> QED BY <2>1, <2>2
<1>8. r.base # NoHash =>
          store'[r.case] # NoEnm /\ r.base[2] < store'[r.case].revision
  BY <1>1, <1>2, <1>3, <1>4
<1>9. BasesPast'
  BY <1>1, <1>7, <1>8 DEF BasesPast
<1>10. ASSUME NEW q \in applied, SameKey(q, r) \/ SameKey(r, q)
       PROVE  r.base = NoHash
  BY <1>2, <1>3, <1>5, <1>10 DEF SameKey
<1>11. GuardedRetryAppliedOnce'
  BY <1>1, <1>10 DEF GuardedRetryAppliedOnce, RetryInv, SameKey
<1> QED BY <1>9, <1>11 DEF RetryInv

LEMMA RetryNext == SyncInv /\ RetryInv /\ [SyncNext]_syncVars => RetryInv'
<1> SUFFICES ASSUME SyncInv, RetryInv, [SyncNext]_syncVars, restarts' = 0
             PROVE  RetryInv'
  BY DEF RetryInv, BasesPast, GuardedRetryAppliedOnce
<1>1. ~Restart
  BY DEF Restart, SyncInv, SyncTypeOK
<1>2. restarts = 0
  BY <1>1 DEF SyncNext, ExecuteDomainOperation, OpenCase, Refuse, Confirm,
              Commit, Deliver, LoseRequest, LoseResponse, syncVars
<1>3. ASSUME NEW r \in requests, Refuse(r) \/ Confirm(r)
      PROVE  RetryInv'
  <2>1. r.case \in Cases
    BY DEF SyncInv, SyncTypeOK, Requests
  <2>2. /\ store' = [store EXCEPT ![r.case] = GetEnm(r.case)]
        /\ applied' = applied
    BY <1>3 DEF Refuse, Confirm
  <2>3. \A c \in Cases : store[c] # NoEnm => store'[c] = store[c]
    BY <2>1, <2>2 DEF GetEnm, SyncInv, SyncTypeOK
  <2>4. \A q \in applied : q.case \in Cases
    BY DEF SyncInv, SyncTypeOK, Requests
  <2> QED
    BY <1>2, <2>2, <2>3, <2>4
       DEF RetryInv, BasesPast, GuardedRetryAppliedOnce, SameKey
<1>4. CASE UNCHANGED <<store, applied>>
  BY <1>2, <1>4 DEF RetryInv, BasesPast, GuardedRetryAppliedOnce, SameKey
<1> QED
  BY <1>1, <1>2, <1>3, <1>4, CommitKeepsRetryInv
     DEF SyncNext, ExecuteDomainOperation, OpenCase, Deliver, LoseRequest,
         LoseResponse, syncVars

(* However often a guarded operation is sent, it takes effect once.        *)
THEOREM GuardedRetryTheorem == SyncSpec => []GuardedRetryAppliedOnce
<1>1. SyncInit => RetryInv
  BY DEF SyncInit, RetryInv, BasesPast, GuardedRetryAppliedOnce
<1>2. RetryInv => GuardedRetryAppliedOnce
  BY DEF RetryInv
<1> QED BY <1>1, <1>2, RetryNext, SyncInvariant, PTL DEF SyncSpec
=============================================================================
