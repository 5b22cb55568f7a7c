------------------------------ MODULE EnmStore ------------------------------
(***************************************************************************)
(* The in-memory ENM store shared by the event loop and the thread pool.   *)
(*                                                                         *)
(* The handler of POST domain-ops is an async function without an await:   *)
(* one Loop process runs it from start to end, one request at a time.      *)
(* The handlers that create analysis runs are plain functions: Workers of  *)
(* the thread pool run them, concurrently with each other and with Loop.   *)
(* Every access to the shared dictionary _enm_store is a step of its own.  *)
(***************************************************************************)
EXTENDS EnmModel

CONSTANTS
    Loop,           \* the event loop
    Workers,        \* threads of the pool
    MaxRevision,    \* bound: no further edit is sent at this revision
    MaxEpoch        \* bound: restarts of the process

ASSUME StoreAssumption ==
    /\ Loop \notin Workers
    /\ MaxRevision \in Nat
    /\ MaxEpoch \in Nat

Procs == Workers \cup {Loop}

VARIABLES
    store,      \* _enm_store: the model of each case, or NoEnm
    pc,         \* where each process is in its handler
    at,         \* the case the handler of each process works on
    view,       \* the object get_enm returned to each process
    request,    \* the domain-ops request Loop is serving
    draft,      \* the model set_enm is about to store
    seen,       \* hashes handed to clients, who may send them back
    epoch       \* incarnation of the process

storeVars == <<store, pc, at, view, request, draft, seen, epoch>>

Requests == [base : Hashes \cup {NoHash}, op : Ops]
NoRequest == [base |-> NoHash, op |-> RefreshOp]
Locations == {"idle", "get", "insert", "fetch", "got", "set", "put"}

StoreTypeOK ==
    /\ store \in [Cases -> Enms \cup {NoEnm}]
    /\ pc \in [Procs -> Locations]
    /\ at \in [Procs -> Cases]
    /\ view \in [Procs -> Enms \cup {NoEnm}]
    /\ request \in Requests
    /\ draft \in Enms \cup {NoEnm}
    /\ seen \subseteq Hashes
    /\ epoch \in Nat

StoreInit ==
    /\ store = [c \in Cases |-> NoEnm]
    /\ pc = [p \in Procs |-> "idle"]
    /\ at \in [Procs -> Cases]
    /\ view = [p \in Procs |-> NoEnm]
    /\ request = NoRequest
    /\ draft = NoEnm
    /\ seen = {}
    /\ epoch = 0

Goto(p, label) == pc' = [pc EXCEPT ![p] = label]

(* A handler ends and its local variables with it.                         *)
Return(p) ==
    /\ Goto(p, "idle")
    /\ view' = [view EXCEPT ![p] = NoEnm]
LoopReturns == Return(Loop) /\ request' = NoRequest /\ draft' = NoEnm

-----------------------------------------------------------------------------
(* get_enm, run by any process.                                            *)

(* A handler calls get_enm for case c.                                     *)
CallGetEnm(p, c) ==
    /\ Goto(p, "get")
    /\ at' = [at EXCEPT ![p] = c]

(* The membership test; its answer is used one step later.  The mutant     *)
(* creates a default model without the test.                               *)
GetEnmTest_NoTest(p) ==
    /\ pc[p] = "get"
    /\ Goto(p, "insert")
    /\ UNCHANGED <<store, at, view, request, draft, seen, epoch>>
GetEnmTest(p) ==
    /\ pc[p] = "get"
    /\ Goto(p, IF store[at[p]] = NoEnm THEN "insert" ELSE "fetch")
    /\ UNCHANGED <<store, at, view, request, draft, seen, epoch>>

(* The default model is stored without a second look at the dictionary.    *)
GetEnmInsert(p) ==
    /\ pc[p] = "insert"
    /\ store' = [store EXCEPT ![at[p]] = DefaultEnm(at[p])]
    /\ Goto(p, "fetch")
    /\ UNCHANGED <<at, view, request, draft, seen, epoch>>

(* The caller receives the stored object, which nobody modifies in place.  *)
GetEnmReturn(p) ==
    /\ pc[p] = "fetch"
    /\ view' = [view EXCEPT ![p] = store[at[p]]]
    /\ Goto(p, "got")
    /\ UNCHANGED <<store, at, request, draft, seen, epoch>>

-----------------------------------------------------------------------------
(* POST /api/cases/{case_id}/enm/domain-ops, run by Loop.                  *)

(* Clients send an empty base or any hash they were once given; the bound  *)
(* stops edits, never the refresh.                                         *)
StartDomainOps(c, base, op) ==
    /\ pc[Loop] = "idle"
    /\ op # RefreshOp /\ store[c] # NoEnm => store[c].revision < MaxRevision
    /\ CallGetEnm(Loop, c)
    /\ request' = [base |-> base, op |-> op]
    /\ UNCHANGED <<store, view, draft, seen, epoch>>

(* get_enm returns; the base hash is compared with the header hash.  A     *)
(* conflict (409), the catalog policy (422), a refusing handler and a      *)
(* snapshot that does not validate all end the request.  In the mutant an  *)
(* error answer is persisted.                                              *)
DomainOpsFetch_KeepsErrors ==
    /\ pc[Loop] = "fetch"
    /\ view' = [view EXCEPT ![Loop] = store[at[Loop]]]
    /\ Goto(Loop, "set")
    /\ UNCHANGED <<request, draft, store, at, seen, epoch>>
DomainOpsFetch ==
    LET enm == store[at[Loop]]
    IN  /\ pc[Loop] = "fetch"
        /\ \/ /\ BaseAccepted(request.base, enm)
              /\ Execute(enm.content, request.op) # OpError
              /\ view' = [view EXCEPT ![Loop] = enm]
              /\ Goto(Loop, "set")
              /\ UNCHANGED <<request, draft>>
           \/ /\ \/ ~BaseAccepted(request.base, enm)
                 \/ Execute(enm.content, request.op) = OpError
              /\ LoopReturns
        /\ UNCHANGED <<store, at, seen, epoch>>

(* set_enm reads the stored model again.  An unchanged content is answered *)
(* with the stored model; otherwise the next revision is computed.         *)
SetEnmCompare ==
    LET existing == store[at[Loop]]
        x == Execute(view[Loop].content, request.op)
    IN  /\ pc[Loop] = "set"
        /\ \/ /\ SameAsStored(existing, x)
              /\ seen' = seen \cup {existing.hash}
              /\ LoopReturns
           \/ /\ ~SameAsStored(existing, x)
              /\ draft' = NextEnm(at[Loop], existing, x)
              /\ Goto(Loop, "put")
              /\ UNCHANGED <<seen, view, request>>
        /\ UNCHANGED <<store, at, epoch>>

(* set_enm stores the new model and the response carries it to the client. *)
SetEnmStore ==
    /\ pc[Loop] = "put"
    /\ store' = [store EXCEPT ![at[Loop]] = draft]
    /\ seen' = seen \cup {draft.hash}
    /\ LoopReturns
    /\ UNCHANGED <<at, epoch>>

-----------------------------------------------------------------------------
(* A thread-pool handler that needs the model (POST runs) starts ...       *)
StartRead(w, c) ==
    /\ w \in Workers
    /\ pc[w] = "idle"
    /\ CallGetEnm(w, c)
    /\ UNCHANGED <<store, view, request, draft, seen, epoch>>

(* ... and, as far as the store is concerned, ends.                        *)
EndRead(w) ==
    /\ w \in Workers
    /\ pc[w] = "got"
    /\ Return(w)
    /\ UNCHANGED <<store, at, request, draft, seen, epoch>>

(* The process restarts: memory is lost, clients keep the hashes they saw. *)
Restart ==
    /\ epoch < MaxEpoch
    /\ epoch' = epoch + 1
    /\ store' = [c \in Cases |-> NoEnm]
    /\ pc' = [p \in Procs |-> "idle"]
    /\ view' = [p \in Procs |-> NoEnm]
    /\ draft' = NoEnm
    /\ request' = NoRequest
    /\ UNCHANGED <<at, seen>>

GetEnmStep ==
    \/ \E p \in Procs : GetEnmTest(p)
    \/ \E p \in Procs : GetEnmInsert(p)
    \/ \E w \in Workers : GetEnmReturn(w)

DomainOpsStep == DomainOpsFetch \/ SetEnmCompare \/ SetEnmStore

DomainOpsRequest ==
    \E c \in Cases, base \in seen \cup {NoHash}, op \in Ops :
        StartDomainOps(c, base, op)

StoreNext ==
    \/ GetEnmStep
    \/ DomainOpsRequest
    \/ DomainOpsStep
    \/ \E w \in Workers, c \in Cases : StartRead(w, c)
    \/ \E w \in Workers : EndRead(w)
    \/ Restart

StoreSpec == StoreInit /\ [][StoreNext]_storeVars

-----------------------------------------------------------------------------
(* Correctness.                                                            *)

(* Every hash written into a header, of a stored model or of one about to  *)
(* be stored, is the hash of that very model: a client that echoes it      *)
(* names one revision and one content.  (get_enm, set_enm)                 *)
HeaderHashCurrent ==
    /\ \A c \in Cases : store[c] # NoEnm =>
          HashIsCurrent(store[c]) /\ store[c].case = c
    /\ pc[Loop] = "put" => HashIsCurrent(draft) /\ draft.case = at[Loop]

(* Optimistic concurrency of domain_ops: a write that carries a base hash  *)
(* stores exactly what its operation makes of the network that hash names, *)
(* the one its author saw, whatever threads and restarts did in between.   *)
GuardedWrite ==
    /\ pc[Loop] = "put"
    /\ pc'[Loop] = "idle"
    /\ epoch' = epoch
    /\ request.base # NoHash
    => store'[at[Loop]].content = Execute(request.base[3], request.op)
AuthorSawBase == [][GuardedWrite]_storeVars

(* No handler holds a stale view of case c: no process is between the      *)
(* membership test and the insertion of get_enm, and a write on its way    *)
(* was computed from the model that is stored now.                         *)
Settled(c) ==
    /\ store[c] # NoEnm
    /\ \A p \in Procs : ~(pc[p] = "insert" /\ at[p] = c)
    /\ at[Loop] = c /\ pc[Loop] \in {"set", "put"} => view[Loop] = store[c]
    /\ at[Loop] = c /\ pc[Loop] = "put" =>
          draft = NextEnm(c, store[c], Execute(store[c].content, request.op))

(* No lost update, once a case is settled: it stays settled until the      *)
(* process restarts, and every change of its model applies the operation   *)
(* being served to the current content and moves to the next revision.     *)
SettledStep(c) ==
    Settled(c) /\ epoch' = epoch =>
        /\ Settled(c)'
        /\ \/ store'[c] = store[c]
           \/ /\ store'[c].revision = store[c].revision + 1
              /\ store'[c].content = Execute(store[c].content, request.op)
SettledNeverLosesUpdates == [][\A c \in Cases : SettledStep(c)]_storeVars

(* docs/spec/ENERGY_NETWORK_MODEL.md:37 calls the revision a monotonically *)
(* growing number.  Stated of one incarnation of the process, over all     *)
(* interleavings of get_enm and set_enm.                                   *)
RevisionMonotone ==
    [][\A c \in Cases :
          store[c] # NoEnm /\ epoch' = epoch =>
              store'[c].revision >= store[c].revision]_storeVars
=============================================================================
