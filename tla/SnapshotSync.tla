---------------------------- MODULE SnapshotSync ----------------------------
(***************************************************************************)
(* Browsers editing shared models: the snapshot store of the frontend      *)
(* (ui/topology/snapshotStore.ts, domainApi.ts), the page effect that      *)
(* opens a case (ui/sld/SldEditorPage.tsx), HTTP, and the domain-ops       *)
(* endpoint.  The endpoint is atomic here: EnmStore has its threads.       *)
(***************************************************************************)
EXTENDS EnmModel, FiniteSets

CONSTANTS
    Clients,        \* browser tabs
    NoCase,         \* no case is open
    MaxRequests,    \* bound: requests ever sent
    MaxRestarts     \* bound: restarts of the backend

ASSUME SyncAssumption ==
    /\ NoCase \notin Cases
    /\ MaxRequests \in Nat
    /\ MaxRestarts \in Nat

VARIABLES
    store,          \* backend: the model of each case, or NoEnm
    active,         \* per tab: activeCaseId
    shown,          \* per tab: snapshot
    loading,        \* per tab: loading
    error,          \* per tab: errorCode, abstracted
    requests,       \* HTTP requests on their way
    responses,      \* HTTP responses on their way
    applied,        \* history: requests that changed the store
    sent,           \* number of requests sent, which numbers them
    restarts        \* number of restarts of the backend

tabVars == <<active, shown, loading, error>>
netVars == <<requests, responses>>
syncVars == <<store, tabVars, netVars, applied, sent, restarts>>

Requests ==
    [id : Nat, client : Clients, case : Cases,
     base : Hashes \cup {NoHash}, op : Ops]
Responses ==
    [req : Requests, status : {"ok", "error", "conflict", "invalid", "lost"},
     enm : Enms \cup {NoEnm}]

SyncTypeOK ==
    /\ store \in [Cases -> Enms \cup {NoEnm}]
    /\ active \in [Clients -> Cases \cup {NoCase}]
    /\ shown \in [Clients -> Enms \cup {NoEnm}]
    /\ loading \in [Clients -> BOOLEAN]
    /\ error \in [Clients -> {"none", "domain", "network"}]
    /\ requests \subseteq Requests
    /\ responses \subseteq Responses
    /\ applied \subseteq Requests
    /\ sent \in Nat
    /\ restarts \in Nat

SyncInit ==
    /\ store = [c \in Cases |-> NoEnm]
    /\ active = [t \in Clients |-> NoCase]
    /\ shown = [t \in Clients |-> NoEnm]
    /\ loading = [t \in Clients |-> FALSE]
    /\ error = [t \in Clients |-> "none"]
    /\ requests = {}
    /\ responses = {}
    /\ applied = {}
    /\ sent = 0
    /\ restarts = 0

-----------------------------------------------------------------------------
(* The browser.                                                            *)

(* executeDomainOp: POST with the hash of the snapshot on screen, or ''.   *)
Post(t, c, base, op) ==
    /\ sent < MaxRequests
    /\ requests' = requests \cup
          {[id |-> sent, client |-> t, case |-> c, base |-> base, op |-> op]}
    /\ sent' = sent + 1
    /\ loading' = [loading EXCEPT ![t] = TRUE]
    /\ error' = [error EXCEPT ![t] = "none"]

BaseOf(e) == IF e = NoEnm THEN NoHash ELSE e.hash

(* executeDomainOperation and refreshFromBackend: nothing looks at loading *)
(* or at the case the snapshot belongs to.                                 *)
ExecuteDomainOperation(t, op) ==
    /\ active[t] # NoCase
    /\ Post(t, active[t], BaseOf(shown[t]), op)
    /\ UNCHANGED <<store, active, shown, responses, applied, restarts>>

(* The editor page mounts, or its active case changes: reset(), then       *)
(* refresh_snapshot with no base.                                          *)
OpenCase(t, c) ==
    /\ active' = [active EXCEPT ![t] = c]
    /\ shown' = [shown EXCEPT ![t] = NoEnm]
    /\ Post(t, c, NoHash, RefreshOp)
    /\ UNCHANGED <<store, responses, applied, restarts>>

(* The promise of executeDomainOp settles.  The mutant forgets the catch   *)
(* branch.                                                                 *)
Deliver_NoCatch(r) ==
    /\ responses' = responses \ {r}
    /\ IF r.status = "ok"
       THEN /\ shown' = [shown EXCEPT ![r.req.client] = r.enm]
            /\ loading' = [loading EXCEPT ![r.req.client] = FALSE]
       ELSE UNCHANGED <<shown, loading>>
    /\ UNCHANGED <<store, active, error, requests, applied, sent, restarts>>
Deliver(r) ==
    LET t == r.req.client
    IN  /\ responses' = responses \ {r}
        /\ loading' = [loading EXCEPT ![t] = FALSE]
        /\ \/ /\ r.status = "ok"
              /\ shown' = [shown EXCEPT ![t] = r.enm]
              /\ error' = [error EXCEPT ![t] = "none"]
           \/ /\ r.status = "error"
              /\ error' = [error EXCEPT ![t] = "domain"]
              /\ UNCHANGED shown
           \/ /\ r.status \in {"conflict", "invalid", "lost"}
              /\ error' = [error EXCEPT ![t] = "network"]
              /\ UNCHANGED shown
        /\ UNCHANGED <<store, active, requests, applied, sent, restarts>>

-----------------------------------------------------------------------------
(* The backend: domain_ops, with get_enm before it and set_enm in it.      *)

Answer(r, status, e) ==
    /\ requests' = requests \ {r}
    /\ responses' = responses \cup {[req |-> r, status |-> status, enm |-> e]}

GetEnm(c) == IF store[c] = NoEnm THEN DefaultEnm(c) ELSE store[c]

(* 409 on a stale base, 422 by the catalog policy, or an error in the body *)
(* of the answer: only the creation by get_enm is left behind.             *)
Refuse(r) ==
    LET enm == GetEnm(r.case)
    IN  /\ \/ /\ ~BaseAccepted(r.base, enm)
              /\ Answer(r, "conflict", NoEnm)
           \/ /\ BaseAccepted(r.base, enm)
              /\ Execute(enm.content, r.op) = OpError
              /\ \E status \in {"invalid", "error"} : Answer(r, status, NoEnm)
        /\ store' = [store EXCEPT ![r.case] = enm]
        /\ UNCHANGED <<tabVars, applied, sent, restarts>>

(* The content stays as it is: set_enm answers with the stored model.      *)
Confirm(r) ==
    LET enm == GetEnm(r.case)
    IN  /\ BaseAccepted(r.base, enm)
        /\ Execute(enm.content, r.op) # OpError
        /\ SameAsStored(enm, Execute(enm.content, r.op))
        /\ Answer(r, "ok", enm)
        /\ store' = [store EXCEPT ![r.case] = enm]
        /\ UNCHANGED <<tabVars, applied, sent, restarts>>

(* The content changes: set_enm stores the next revision.  The mutant does *)
(* not look at the error of the operation.                                 *)
Commit_KeepsErrors(r) ==
    LET enm == GetEnm(r.case)
        saved == NextEnm(r.case, enm, Execute(enm.content, r.op))
    IN  /\ BaseAccepted(r.base, enm)
        /\ ~SameAsStored(enm, Execute(enm.content, r.op))
        /\ Answer(r, "ok", saved)
        /\ store' = [store EXCEPT ![r.case] = saved]
        /\ applied' = applied \cup {r}
        /\ UNCHANGED <<tabVars, sent, restarts>>
Commit(r) ==
    LET enm == GetEnm(r.case)
        saved == NextEnm(r.case, enm, Execute(enm.content, r.op))
    IN  /\ BaseAccepted(r.base, enm)
        /\ Execute(enm.content, r.op) # OpError
        /\ ~SameAsStored(enm, Execute(enm.content, r.op))
        /\ Answer(r, "ok", saved)
        /\ store' = [store EXCEPT ![r.case] = saved]
        /\ applied' = applied \cup {r}
        /\ UNCHANGED <<tabVars, sent, restarts>>

-----------------------------------------------------------------------------
(* The network and the process.                                            *)

LoseRequest(r) ==
    /\ Answer(r, "lost", NoEnm)
    /\ UNCHANGED <<store, tabVars, applied, sent, restarts>>

LoseResponse(r) ==
    /\ r.status # "lost"
    /\ responses' = (responses \ {r}) \cup
          {[r EXCEPT !.status = "lost", !.enm = NoEnm]}
    /\ UNCHANGED <<store, tabVars, requests, applied, sent, restarts>>

Restart ==
    /\ restarts < MaxRestarts
    /\ restarts' = restarts + 1
    /\ store' = [c \in Cases |-> NoEnm]
    /\ UNCHANGED <<tabVars, netVars, applied, sent>>

Serve(r) == Refuse(r) \/ Confirm(r) \/ Commit(r)

SyncNext ==
    \/ \E t \in Clients, op \in Ops : ExecuteDomainOperation(t, op)
    \/ \E t \in Clients, c \in Cases : OpenCase(t, c)
    \/ \E r \in requests : Refuse(r)
    \/ \E r \in requests : Confirm(r)
    \/ \E r \in requests : Commit(r)
    \/ \E r \in responses : Deliver(r)
    \/ \E r \in requests : LoseRequest(r)
    \/ \E r \in responses : LoseResponse(r)
    \/ Restart

SyncSpec == SyncInit /\ [][SyncNext]_syncVars

(* The server answers each request it received, each promise settles;      *)
(* users, losses and restarts are never forced.                            *)
FairSyncSpec ==
    /\ SyncSpec
    /\ \A i \in 0..(MaxRequests - 1) :
          /\ WF_syncVars(\E r \in requests : r.id = i /\ Serve(r))
          /\ WF_syncVars(\E r \in responses : r.req.id = i /\ Deliver(r))

-----------------------------------------------------------------------------
(* Correctness.                                                            *)

(* domain-ops is the versioned register of EnmRegister, over a network     *)
(* that loses and reorders: at most once, compare and swap on the base.    *)
Register == INSTANCE EnmRegister WITH model <- store
RefinesRegister == Register!RegSpec

(* A snapshot on screen, or on its way there, lags behind the backend but  *)
(* never contradicts it: its revision is at most the stored one, and equal *)
(* revisions are equal models (as long as the backend keeps its memory).   *)
Lags(e) ==
    e # NoEnm =>
        /\ store[e.case] # NoEnm
        /\ e.revision <= store[e.case].revision
        /\ e.revision = store[e.case].revision => e = store[e.case]
SnapshotsLag ==
    restarts = 0 =>
        /\ \A t \in Clients : Lags(shown[t])
        /\ \A r \in responses : Lags(r.enm)

(* Of the requests that carry the same operation and the same base hash,   *)
(* from one tab or many, retries after a lost answer included, at most one *)
(* takes effect.  It rests on the revision being part of the hash: a model *)
(* edited back to an earlier content is not accepted as the earlier model. *)
SameKey(r, s) == r.case = s.case /\ r.op = s.op /\ r.base = s.base
GuardedRetryAppliedOnce ==
    restarts = 0 =>
        \A r, s \in applied : SameKey(r, s) /\ r.base # NoHash => r = s

(* The loading flag of a tab is always cleared again, whether the request  *)
(* is applied, refused, or lost on either way.                             *)
SpinnerStops == \A t \in Clients : loading[t] ~> ~loading[t]

(* docs/ui/TOPOLOGY_TREE_CONTRACT.md: one global focus, active case and    *)
(* active snapshot included, shared by all views; divergence of context    *)
(* between views is forbidden.  Stated of a tab that waits for nothing:    *)
(* the snapshot it shows belongs to the case it has open.                  *)
Quiet(t) ==
    /\ \A r \in requests : r.client # t
    /\ \A r \in responses : r.req.client # t
SnapshotOfActiveCase ==
    \A t \in Clients :
        Quiet(t) /\ shown[t] # NoEnm => shown[t].case = active[t]
=============================================================================
