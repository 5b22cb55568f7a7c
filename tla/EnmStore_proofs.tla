-------------------------- MODULE EnmStore_proofs --------------------------
(***************************************************************************)
(* Proofs about the shared ENM store, for any number of cases, threads,    *)
(* contents and operations, and any interleaving of them.                  *)
(***************************************************************************)
EXTENDS EnmStore, TLAPS

(* The models that get_enm and set_enm build.                              *)

(* A sealed model is a model, and its header names it.                     *)
LEMMA SealedIsEnm ==
    ASSUME NEW c \in Cases, NEW n \in Revisions, NEW x \in Contents
    PROVE  /\ Sealed(c, n, x) \in Enms
           /\ HashIsCurrent(Sealed(c, n, x))
           /\ Sealed(c, n, x).case = c
           /\ Sealed(c, n, x).revision = n
           /\ Sealed(c, n, x).content = x
<1>1. HashOf(c, n, x) \in Hashes
  BY DEF HashOf, Hashes
<1> QED
  BY <1>1 DEF Sealed, HashIsCurrent, ComputeHash, Enms

(* The model set_enm computes: well formed, one revision on.               *)
LEMMA NextEnmIsEnm ==
    ASSUME NEW c \in Cases, NEW e \in Enms \cup {NoEnm}, NEW x \in Contents
    PROVE  /\ NextEnm(c, e, x) \in Enms
           /\ HashIsCurrent(NextEnm(c, e, x))
           /\ NextEnm(c, e, x).case = c
           /\ NextEnm(c, e, x).content = x
           /\ NextEnm(c, e, x).revision = OldRevision(e) + 1
<1>1. OldRevision(e) \in Nat
  BY DEF OldRevision, Enms, Revisions
<1>2. OldRevision(e) + 1 \in Revisions
  BY <1>1 DEF Revisions
<1> QED
  BY <1>2, SealedIsEnm DEF NextEnm

(* The model get_enm creates.                                              *)
LEMMA DefaultEnmIsEnm ==
    ASSUME NEW c \in Cases
    PROVE  /\ DefaultEnm(c) \in Enms
           /\ HashIsCurrent(DefaultEnm(c))
           /\ DefaultEnm(c).case = c
<1>1. EmptyContent \in Contents
  BY ModelAssumption
<1>2. 1 \in Revisions
  BY DEF Revisions
<1> QED
  BY <1>1, <1>2, SealedIsEnm DEF DefaultEnm

(* An operation yields a content or OpError.                               *)
LEMMA ExecuteType ==
    ASSUME NEW x \in Contents, NEW op \in Ops
    PROVE  Execute(x, op) \in Contents \cup {OpError}
  BY ModelAssumption DEF Execute

(* The hash stored in the header tells contents apart: set_enm answers     *)
(* with the stored model exactly when the content did not change.          *)
LEMMA SameAsStoredIff ==
    ASSUME NEW e \in Enms, HashIsCurrent(e), NEW x \in Contents
    PROVE  SameAsStored(e, x) <=> x = e.content
  BY NoEnmAssumption DEF SameAsStored, HashIsCurrent, ComputeHash, HashOf

-----------------------------------------------------------------------------
(* What the local variables of the handlers mean: a process about to leave *)
(* get_enm finds a model, its caller holds one, and between the base check *)
(* and the end of set_enm Loop holds a model its request accepts and its   *)
(* operation can be applied to.                                            *)
FramesOK ==
    /\ \A w \in Workers : pc[w] \notin {"set", "put"}
    /\ \A p \in Procs : pc[p] = "fetch" => store[at[p]] # NoEnm
    /\ \A p \in Procs : pc[p] = "got" =>
          /\ view[p] \in Enms
          /\ HashIsCurrent(view[p])
          /\ view[p].case = at[p]
    /\ pc[Loop] \in {"set", "put"} =>
          /\ store[at[Loop]] # NoEnm
          /\ view[Loop] \in Enms
          /\ HashIsCurrent(view[Loop])
          /\ view[Loop].case = at[Loop]
          /\ BaseAccepted(request.base, view[Loop])
          /\ Execute(view[Loop].content, request.op) \in Contents
    /\ pc[Loop] = "put" =>
          /\ draft \in Enms
          /\ draft.content = Execute(view[Loop].content, request.op)

StoreInv == StoreTypeOK /\ HeaderHashCurrent /\ FramesOK

(* The store is open: handlers of other components call get_enm from any   *)
(* process, Loop included, and return when they like.  What is proved here *)
(* of OpenNext holds of every component composed with the store.           *)
HandlerCalls ==
    \E p \in Procs, c \in Cases :
        /\ pc[p] \in {"idle", "got"}
        /\ CallGetEnm(p, c)
        /\ UNCHANGED <<store, view, request, draft, seen, epoch>>

HandlerFetches == \E p \in Procs : GetEnmReturn(p)

HandlerEnds ==
    \E p \in Procs :
        /\ pc[p] = "got"
        /\ Return(p)
        /\ UNCHANGED <<store, at, request, draft, seen, epoch>>

OpenNext == StoreNext \/ HandlerCalls \/ HandlerFetches \/ HandlerEnds

(* An idle Loop serves no request, which is recorded as this one.          *)
LEMMA NoRequestIsRequest == NoRequest \in Requests
  BY ModelAssumption DEF NoRequest, Requests

LEMMA StoreInitInv == StoreInit => StoreInv
  BY NoRequestIsRequest, StoreAssumption
     DEF StoreInit, StoreInv, StoreTypeOK, HeaderHashCurrent, FramesOK,
         Locations, Procs

LEMMA StoreNextInv == StoreInv /\ [OpenNext]_storeVars => StoreInv'
<1> SUFFICES ASSUME StoreInv, [OpenNext]_storeVars PROVE StoreInv'
  OBVIOUS
<1> USE StoreAssumption, NoEnmAssumption
<1> USE DEF StoreInv, StoreTypeOK, HeaderHashCurrent, FramesOK, Procs,
            Locations, Goto
<1>1. ASSUME NEW p \in Procs, GetEnmTest(p) PROVE StoreInv'
  BY <1>1 DEF GetEnmTest
<1>2. ASSUME NEW p \in Procs, GetEnmInsert(p) PROVE StoreInv'
  <2>1. at[p] \in Cases
    OBVIOUS
  <2>2. /\ DefaultEnm(at[p]) \in Enms
        /\ HashIsCurrent(DefaultEnm(at[p]))
        /\ DefaultEnm(at[p]).case = at[p]
    BY <2>1, DefaultEnmIsEnm
  <2>3. /\ store' = [store EXCEPT ![at[p]] = DefaultEnm(at[p])]
        /\ pc' = [pc EXCEPT ![p] = "fetch"]
        /\ UNCHANGED <<at, view, request, draft, seen, epoch>>
        /\ pc[p] = "insert"
    BY <1>2 DEF GetEnmInsert
  <2>4. StoreTypeOK'
    BY <2>1, <2>2, <2>3
  <2>5. HeaderHashCurrent'
    BY <2>1, <2>2, <2>3
  <2>6. FramesOK'
    BY <2>1, <2>2, <2>3
  <2> QED BY <2>4, <2>5, <2>6
<1>3. ASSUME NEW p \in Procs, GetEnmReturn(p) PROVE StoreInv'
  BY <1>3 DEF GetEnmReturn
<1>4. ASSUME NEW c \in Cases, NEW base \in seen \cup {NoHash}, NEW op \in Ops,
             StartDomainOps(c, base, op)
      PROVE  StoreInv'
  BY <1>4 DEF StartDomainOps, CallGetEnm, Requests
<1>5. ASSUME DomainOpsFetch PROVE StoreInv'
  <2> DEFINE enm == store[at[Loop]]
  <2>1. /\ at[Loop] \in Cases
        /\ enm \in Enms
        /\ enm.content \in Contents
        /\ request.op \in Ops
        /\ HashIsCurrent(enm)
        /\ enm.case = at[Loop]
    BY <1>5 DEF DomainOpsFetch, Requests, Enms
  <2>2. Execute(enm.content, request.op) \in Contents \cup {OpError}
    BY <2>1, ExecuteType
  <2>3. CASE BaseAccepted(request.base, enm)
             /\ Execute(enm.content, request.op) # OpError
    BY <1>5, <2>1, <2>2, <2>3 DEF DomainOpsFetch, LoopReturns, Return
  <2>4. CASE ~(BaseAccepted(request.base, enm)
               /\ Execute(enm.content, request.op) # OpError)
    BY <1>5, <2>1, <2>4, NoRequestIsRequest
       DEF DomainOpsFetch, LoopReturns, Return
  <2> QED BY <2>3, <2>4
<1>6. ASSUME SetEnmCompare PROVE StoreInv'
  <2> DEFINE existing == store[at[Loop]]
             x == Execute(view[Loop].content, request.op)
  <2>1. /\ at[Loop] \in Cases
        /\ existing \in Enms
        /\ x \in Contents
        /\ existing.hash \in Hashes
    BY <1>6 DEF SetEnmCompare, Enms
  <2>2. CASE SameAsStored(existing, x)
    BY <1>6, <2>1, <2>2, NoRequestIsRequest
       DEF SetEnmCompare, LoopReturns, Return
  <2>3. CASE ~SameAsStored(existing, x)
    <3>1. /\ NextEnm(at[Loop], existing, x) \in Enms
          /\ HashIsCurrent(NextEnm(at[Loop], existing, x))
          /\ NextEnm(at[Loop], existing, x).case = at[Loop]
          /\ NextEnm(at[Loop], existing, x).content = x
      BY <2>1, NextEnmIsEnm
    <3> QED BY <1>6, <2>3, <3>1 DEF SetEnmCompare
  <2> QED BY <2>2, <2>3
<1>7. ASSUME SetEnmStore PROVE StoreInv'
  <2>1. /\ at[Loop] \in Cases
        /\ draft \in Enms
        /\ HashIsCurrent(draft)
        /\ draft.case = at[Loop]
        /\ draft.hash \in Hashes
    BY <1>7 DEF SetEnmStore, Enms
  <2> QED
    BY <1>7, <2>1, NoRequestIsRequest
       DEF SetEnmStore, LoopReturns, Return
<1>8. CASE HandlerCalls
  BY <1>8 DEF HandlerCalls, CallGetEnm
<1>9. CASE HandlerEnds
  BY <1>9 DEF HandlerEnds, Return
<1>10. CASE Restart
  BY <1>10, NoRequestIsRequest DEF Restart
<1>11. CASE UNCHANGED storeVars
  BY <1>11 DEF storeVars
<1> QED
  BY <1>1, <1>2, <1>3, <1>4, <1>5, <1>6, <1>7, <1>8, <1>9, <1>10, <1>11
     DEF OpenNext, HandlerFetches, StoreNext, GetEnmStep, DomainOpsRequest,
         DomainOpsStep, StartRead, EndRead, HandlerCalls, HandlerEnds

LEMMA StoreNextIsOpen == [StoreNext]_storeVars => [OpenNext]_storeVars
  BY DEF OpenNext

LEMMA StoreInvariant == StoreSpec => []StoreInv
  BY StoreInitInv, StoreNextInv, StoreNextIsOpen, PTL DEF StoreSpec

(* Every variable of the store keeps its type under every interleaving.    *)
THEOREM StoreTypeCorrect == StoreSpec => []StoreTypeOK
<1>1. StoreInv => StoreTypeOK
  BY DEF StoreInv
<1> QED
  BY <1>1, StoreInvariant, PTL

(* The hash in a header is the hash of the model that carries it.          *)
THEOREM HeaderHashCorrect == StoreSpec => []HeaderHashCurrent
<1>1. StoreInv => HeaderHashCurrent
  BY DEF StoreInv
<1> QED
  BY <1>1, StoreInvariant, PTL

-----------------------------------------------------------------------------
(* The base check still holds when set_enm stores: view is a local variable*)
(* of the handler, so it cannot change after it was compared.              *)
LEMMA GuardedWriteStep == StoreInv /\ [OpenNext]_storeVars => GuardedWrite
<1> SUFFICES ASSUME StoreInv, [OpenNext]_storeVars,
                    pc[Loop] = "put", pc'[Loop] = "idle", epoch' = epoch,
                    request.base # NoHash
             PROVE  store'[at[Loop]].content
                       = Execute(request.base[3], request.op)
  BY DEF GuardedWrite
<1>1. SetEnmStore
  BY StoreAssumption
     DEF StoreInv, StoreTypeOK, StoreNext, storeVars, GetEnmStep, GetEnmTest,
         GetEnmInsert, GetEnmReturn, DomainOpsRequest, StartDomainOps,
         DomainOpsStep, DomainOpsFetch, SetEnmCompare, StartRead, EndRead,
         Restart, Goto, CallGetEnm, Return, Procs, OpenNext, HandlerCalls,
         HandlerFetches, HandlerEnds
<1>2. request.base = HashOf(view[Loop].case, view[Loop].revision,
                            view[Loop].content)
  BY DEF StoreInv, FramesOK, BaseAccepted, HashIsCurrent, ComputeHash
<1>3. request.base[3] = view[Loop].content
  BY <1>2 DEF HashOf, StoreInv, FramesOK
<1>4. store'[at[Loop]] = draft
  BY <1>1 DEF SetEnmStore, StoreInv, StoreTypeOK, Procs
<1>5. draft.content = Execute(view[Loop].content, request.op)
  BY DEF StoreInv, FramesOK
<1> QED
  BY <1>3, <1>4, <1>5

(* A guarded write applies its operation to the model its author saw.      *)
THEOREM GuardedWritesCorrect == StoreSpec => AuthorSawBase
  BY StoreInvariant, GuardedWriteStep, StoreNextIsOpen, PTL
     DEF StoreSpec, AuthorSawBase

-----------------------------------------------------------------------------
(* A step of the same process leaves a settled case settled.               *)
LEMMA SettledStepHolds ==
    ASSUME NEW c \in Cases, StoreInv, [OpenNext]_storeVars
    PROVE  SettledStep(c)
<1> SUFFICES ASSUME Settled(c), epoch' = epoch
             PROVE  /\ Settled(c)'
                    /\ \/ store'[c] = store[c]
                       \/ /\ store'[c].revision = store[c].revision + 1
                          /\ store'[c].content
                               = Execute(store[c].content, request.op)
  BY DEF SettledStep
<1> USE StoreAssumption
<1> USE DEF StoreInv, StoreTypeOK, Settled, Procs, Goto
<1>1. ASSUME NEW p \in Procs, GetEnmTest(p)
      PROVE  Settled(c)' /\ store'[c] = store[c]
  BY <1>1 DEF GetEnmTest
<1>2. ASSUME NEW p \in Procs, GetEnmInsert(p)
      PROVE  Settled(c)' /\ store'[c] = store[c]
  BY <1>2 DEF GetEnmInsert
<1>3. ASSUME NEW p \in Procs, GetEnmReturn(p)
      PROVE  Settled(c)' /\ store'[c] = store[c]
  BY <1>3 DEF GetEnmReturn
<1>4. ASSUME NEW d \in Cases, NEW base \in seen \cup {NoHash}, NEW op \in Ops,
             StartDomainOps(d, base, op)
      PROVE  Settled(c)' /\ store'[c] = store[c]
  BY <1>4 DEF StartDomainOps, CallGetEnm
<1>5. ASSUME DomainOpsFetch PROVE Settled(c)' /\ store'[c] = store[c]
  BY <1>5 DEF DomainOpsFetch, LoopReturns, Return
<1>6. ASSUME SetEnmCompare PROVE Settled(c)' /\ store'[c] = store[c]
  BY <1>6 DEF SetEnmCompare, LoopReturns, Return
<1>7. CASE SetEnmStore /\ at[Loop] # c
  BY <1>7 DEF SetEnmStore, LoopReturns, Return
<1>8. CASE SetEnmStore /\ at[Loop] = c
  <2> DEFINE x == Execute(store[c].content, request.op)
  <2>1. draft = NextEnm(c, store[c], x) /\ x \in Contents
    BY <1>8 DEF SetEnmStore, FramesOK
  <2>2. /\ draft \in Enms
        /\ draft.content = x
        /\ draft.revision = OldRevision(store[c]) + 1
    BY <2>1, NextEnmIsEnm
  <2>3. OldRevision(store[c]) = store[c].revision
    BY DEF OldRevision
  <2>4. store'[c] = draft
    BY <1>8 DEF SetEnmStore
  <2>5. Settled(c)'
    BY <1>8, <2>2, <2>4, NoEnmAssumption
       DEF SetEnmStore, LoopReturns, Return
  <2> QED
    BY <2>2, <2>3, <2>4, <2>5
<1>9. ASSUME HandlerCalls PROVE Settled(c)' /\ store'[c] = store[c]
  BY <1>9 DEF HandlerCalls, CallGetEnm
<1>10. ASSUME HandlerEnds PROVE Settled(c)' /\ store'[c] = store[c]
  BY <1>10 DEF HandlerEnds, Return
<1>11. ~Restart
  BY DEF Restart
<1>12. CASE UNCHANGED storeVars
  BY <1>12 DEF storeVars
<1> QED
  BY <1>1, <1>2, <1>3, <1>4, <1>5, <1>6, <1>7, <1>8, <1>9, <1>10, <1>11,
     <1>12
     DEF OpenNext, HandlerFetches, StoreNext, GetEnmStep, DomainOpsRequest,
         DomainOpsStep, StartRead, EndRead, HandlerCalls, HandlerEnds

LEMMA EveryCaseSettledStep ==
    StoreInv /\ [OpenNext]_storeVars => \A c \in Cases : SettledStep(c)
  BY SettledStepHolds

(* No update of a settled case is lost, for any number of threads.         *)
THEOREM NoLostUpdates == StoreSpec => SettledNeverLosesUpdates
  BY StoreInvariant, EveryCaseSettledStep, StoreNextIsOpen, PTL
     DEF StoreSpec, SettledNeverLosesUpdates
=============================================================================
