------------------------- MODULE CaseSession_proofs -------------------------
(* The focus and the flags of CaseSession for every number of cases, runs  *)
(* and chains of requests in flight.                                       *)
EXTENDS CaseSession, TLAPS

(* What a calculation knows of its run at every step: it has one once the  *)
(* request that creates it was served, and the run has its final status    *)
(* once the request that executes it was served.                           *)
KnowsRun(k) ==
    /\ k.step = "create" /\ k.served => k.run \in Runs
    /\ k.step \in {"execute", "runs"} => k.run \in Runs
    /\ k.step = "execute" /\ k.served => runState[k.run] \in Terminal
    /\ k.step = "runs" => runState[k.run] \in Terminal
SlotOK(s) == chains[s] # Idle => KnowsRun(chains[s])
SessionInv ==
    /\ SessionTypeOK
    /\ \A s \in Slots : SlotOK(s)
    /\ FocusedRunExecuted

(* A slot that is not idle holds a chain.                                  *)
LEMMA ChainOf ==
    ASSUME SessionInv, NEW s \in Slots, chains[s] # Idle
    PROVE  chains[s] \in Chains /\ KnowsRun(chains[s])
BY DEF SessionInv, SessionTypeOK, SlotOK

(* The markers are no runs and no cases; a final status is a status.       *)
LEMMA Markers == Terminal \subseteq RunStates /\ NoRun \notin Runs
BY SessionAssumption DEF Terminal, RunStates

(* The invariant holds at the start.                                       *)
LEMMA InitInv == SessionInit => SessionInv
<1> SUFFICES ASSUME SessionInit PROVE SessionInv
  OBVIOUS
<1>1. SessionTypeOK
  BY SMT DEF SessionInit, SessionTypeOK, RunStates, Terminal, Modes, Routes
<1>2. \A s \in Slots : chains[s] = Idle
  BY DEF SessionInit
<1>3. activeRunId = NoRun
  BY DEF SessionInit
<1> QED
  BY <1>1, <1>2, <1>3 DEF SessionInv, FocusedRunExecuted, SlotOK

-----------------------------------------------------------------------------
(* The steps.                                                              *)

(* No chain changes: only the setters and the address do.                  *)
LEMMA AddressInv ==
    ASSUME SessionInv,
           HashChange \/ Configure \/ ShowResults
              \/ \E h \in Routes : Navigate(h)
    PROVE  SessionInv'
<1>1. UNCHANGED <<backend, chains, panel, busy, activeCaseId>>
  BY DEF HashChange, Configure, ShowResults, Navigate, focus
<1>2. activeRunId' \in {activeRunId, NoRun}
  BY DEF HashChange, Configure, ShowResults, Navigate, SetActiveMode, focus
<1>3. activeMode' \in Modes /\ hash' \in Routes /\ route' \in Routes
  BY DEF HashChange, Configure, ShowResults, Navigate, SetActiveMode,
         ModeOf, Modes, Routes, SessionInv, SessionTypeOK
<1>4. SessionTypeOK'
  BY <1>1, <1>2, <1>3 DEF SessionInv, SessionTypeOK, backend, panel
<1>5. ASSUME NEW s \in Slots PROVE SlotOK(s)'
  BY <1>1 DEF SessionInv, SlotOK, KnowsRun, backend
<1>6. FocusedRunExecuted'
  BY <1>1, <1>2 DEF SessionInv, FocusedRunExecuted, backend
<1> QED
  BY <1>4, <1>5, <1>6 DEF SessionInv

(* A reload forgets every chain.                                           *)
LEMMA ReloadInv ==
    ASSUME SessionInv, Reload
    PROVE  SessionInv'
<1>1. SessionTypeOK'
  BY DEF Reload, SessionInv, SessionTypeOK, backend, ModeOf, Modes, Flags
<1>2. \A s \in Slots : chains'[s] = Idle
  BY DEF Reload
<1> QED
  BY <1>1, <1>2 DEF Reload, SessionInv, FocusedRunExecuted, SlotOK

(* A chain of requests starts.                                             *)
LEMMA StartInv ==
    ASSUME SessionInv, NEW s \in Slots,
           \/ CreateCase(s) \/ CreateFirstCase(s) \/ Calculate(s)
           \/ \E c \in Cases : ActivateCase(s, c)
    PROVE  SessionInv'
<1>1. UNCHANGED <<backend, focus, page, panel>>
  BY DEF CreateCase, CreateFirstCase, Calculate, ActivateCase
<1>2. PICK kind \in Kinds, c \in Cases \cup {NoCase},
           step \in {"change", "create"} : Start(s, kind, c, step)
  BY DEF CreateCase, CreateFirstCase, Calculate, ActivateCase, Kinds,
         Creating, SessionInv, SessionTypeOK
<1> DEFINE k == [kind |-> kind, case |-> c, run |-> NoRun, step |-> step,
                 served |-> FALSE]
<1>3. chains' = [chains EXCEPT ![s] = k]
  BY <1>2 DEF Start
<1>4. k \in Chains
  BY <1>2 DEF Chains, Steps
<1>5. busy' \in [Flags -> BOOLEAN]
  BY DEF CreateCase, CreateFirstCase, Calculate, ActivateCase, Set,
         SessionInv, SessionTypeOK
<1>6. SessionTypeOK'
  BY <1>1, <1>3, <1>4, <1>5
     DEF SessionInv, SessionTypeOK, backend, focus, page, panel
<1>8. ASSUME NEW t \in Slots PROVE SlotOK(t)'
  <2>1. CASE t = s
    BY <1>3, <2>1 DEF SessionInv, SessionTypeOK, SlotOK, KnowsRun
  <2>2. CASE t # s
    <3>1. chains'[t] = chains[t]
      BY <1>3, <2>2 DEF SessionInv, SessionTypeOK
    <3> QED
      BY <1>1, <3>1 DEF SessionInv, SlotOK, KnowsRun, backend
  <2> QED
    BY <2>1, <2>2
<1> QED
  BY <1>1, <1>6, <1>8
     DEF SessionInv, FocusedRunExecuted, focus, backend

(* The three shapes of the other steps of a chain: it takes a new form k,  *)
(* or it ends; the backend only moves statuses to final ones.              *)
LEMMA ChainStep ==
    ASSUME SessionInv, NEW s \in Slots,
           SessionTypeOK',
           \A r \in Runs : runState'[r] = runState[r]
                              \/ runState'[r] \in Terminal,
           \A t \in Slots \ {s} : chains'[t] = chains[t],
           SlotOK(s)',
           \/ activeRunId' \in {activeRunId, NoRun}
           \/ activeRunId' \in Runs /\ runState'[activeRunId'] \in Terminal
    PROVE  SessionInv'
<1>1. ASSUME NEW t \in Slots PROVE SlotOK(t)'
  <2>1. CASE t # s
    <3>1. chains'[t] = chains[t] /\ SlotOK(t)
      BY <2>1 DEF SessionInv
    <3> QED
      BY <3>1 DEF SlotOK, KnowsRun
  <2> QED
    BY <2>1
<1>2. FocusedRunExecuted'
  <2>1. activeRunId \in Runs \cup {NoRun}
    BY DEF SessionInv, SessionTypeOK
  <2>2. activeRunId # NoRun => runState'[activeRunId] \in Terminal
    BY <2>1 DEF SessionInv, FocusedRunExecuted
  <2> QED
    BY <2>2 DEF FocusedRunExecuted
<1> QED
  BY <1>1, <1>2 DEF SessionInv

(* The backend serves a request.                                           *)
LEMMA ServeInv ==
    ASSUME SessionInv, NEW s \in Slots, ServeCase(s) \/ ServeRun(s)
    PROVE  SessionInv'
<1>1. chains[s] # Idle /\ chains[s] \in Chains /\ KnowsRun(chains[s])
  BY ChainOf DEF ServeCase, ServeRun, Waits
<1>2. UNCHANGED <<focus, page, panel, busy>>
  BY DEF ServeCase, ServeRun
<1>3. CASE ServeCase(s)
  <2>1. PICK c \in Cases \cup {NoCase} :
           chains' = [chains EXCEPT ![s].served = TRUE, ![s].case = c]
    <3>1. chains[s].case \in Cases \cup {NoCase}
      BY <1>1 DEF Chains
    <3>2. [chains EXCEPT ![s].served = TRUE] =
             [chains EXCEPT ![s].served = TRUE, ![s].case = chains[s].case]
      BY <1>1 DEF SessionInv, SessionTypeOK, Chains
    <3> QED
      BY <1>3, <3>1, <3>2 DEF ServeCase
  <2> DEFINE k == [chains[s] EXCEPT !.served = TRUE, !.case = c]
  <2>2. k \in Chains /\ k.step = "change"
    BY <1>1, <1>3 DEF Chains, ServeCase, Waits
  <2>3. chains' = [chains EXCEPT ![s] = k]
    BY <2>1 DEF SessionInv, SessionTypeOK
  <2>4. cases' \subseteq Cases /\ UNCHANGED <<runCase, runState>>
    BY <1>3 DEF ServeCase, SessionInv, SessionTypeOK
  <2>5. SessionTypeOK'
    BY <1>2, <2>2, <2>3, <2>4
       DEF SessionInv, SessionTypeOK, focus, page, panel
  <2>6. chains'[s] = k /\ \A t \in Slots \ {s} : chains'[t] = chains[t]
    BY <2>3 DEF SessionInv, SessionTypeOK
  <2>7. SlotOK(s)'
    BY <2>2, <2>6 DEF SlotOK, KnowsRun
  <2> QED
    BY <1>2, <2>4, <2>5, <2>6, <2>7, ChainStep DEF focus
<1>4. CASE ServeRun(s) /\ chains[s].step = "create"
  <2>1. PICK r \in Runs :
          /\ runCase' = [runCase EXCEPT ![r] = chains[s].case]
          /\ chains' = [chains EXCEPT ![s].served = TRUE, ![s].run = r]
    BY <1>4 DEF ServeRun, Waits
  <2>2. UNCHANGED <<cases, runState>>
    BY <1>4 DEF ServeRun, Waits
  <2> DEFINE k == [chains[s] EXCEPT !.served = TRUE, !.run = r]
  <2>3. k \in Chains /\ k.step = "create" /\ k.run = r
    BY <1>1, <1>4 DEF Chains
  <2>4. chains' = [chains EXCEPT ![s] = k]
    BY <2>1 DEF SessionInv, SessionTypeOK
  <2>5. runCase' \in [Runs -> Cases \cup {NoCase}]
    BY <1>1, <2>1 DEF SessionInv, SessionTypeOK, Chains
  <2>6. SessionTypeOK'
    BY <1>2, <2>2, <2>3, <2>4, <2>5
       DEF SessionInv, SessionTypeOK, focus, page, panel
  <2>7. chains'[s] = k /\ \A t \in Slots \ {s} : chains'[t] = chains[t]
    BY <2>4 DEF SessionInv, SessionTypeOK
  <2>8. SlotOK(s)'
    BY <2>3, <2>7 DEF SlotOK, KnowsRun
  <2> QED
    BY <1>2, <2>2, <2>6, <2>7, <2>8, ChainStep DEF focus
<1>5. CASE ServeRun(s) /\ chains[s].step = "execute"
  <2>1. PICK st \in Terminal :
          runState' = [runState EXCEPT ![chains[s].run] = st]
    BY <1>5 DEF ServeRun, Waits
  <2>2. /\ chains' = [chains EXCEPT ![s].served = TRUE]
        /\ UNCHANGED <<cases, runCase>>
    BY <1>5 DEF ServeRun, Waits
  <2> DEFINE k == [chains[s] EXCEPT !.served = TRUE]
  <2>3. k \in Chains /\ k.step = "execute" /\ k.run = chains[s].run
    BY <1>1, <1>5 DEF Chains
  <2>4. chains' = [chains EXCEPT ![s] = k]
    BY <2>2 DEF SessionInv, SessionTypeOK
  <2>5. chains[s].run \in Runs
    BY <1>1, <1>5 DEF KnowsRun
  <2>6. /\ runState' \in [Runs -> RunStates]
        /\ runState'[chains[s].run] = st
        /\ \A r \in Runs : runState'[r] = runState[r]
                                 \/ runState'[r] \in Terminal
    BY <2>1, <2>5, Markers DEF SessionInv, SessionTypeOK
  <2>7. SessionTypeOK'
    BY <1>2, <2>2, <2>3, <2>4, <2>6
       DEF SessionInv, SessionTypeOK, focus, page, panel
  <2>8. chains'[s] = k /\ \A t \in Slots \ {s} : chains'[t] = chains[t]
    BY <2>4 DEF SessionInv, SessionTypeOK
  <2>9. SlotOK(s)'
    BY <2>3, <2>5, <2>6, <2>8 DEF SlotOK, KnowsRun
  <2> QED
    BY <1>2, <2>6, <2>7, <2>8, <2>9, ChainStep DEF focus
<1> QED
  BY <1>3, <1>4, <1>5 DEF ServeRun, Waits

(* A chain about a case goes on, fails, ends or is given up.               *)
LEMMA CaseChainInv ==
    ASSUME SessionInv, NEW s \in Slots,
           GiveUp(s) \/ CaseAnswered(s) \/ CaseFailed(s) \/ CaseListed(s)
    PROVE  SessionInv'
<1>1. chains[s] # Idle /\ chains[s] \in Chains /\ KnowsRun(chains[s])
  BY ChainOf DEF GiveUp, CaseAnswered, CaseFailed, CaseListed, At
<1>2. UNCHANGED <<backend, activeMode, route, panel>>
  BY DEF GiveUp, CaseAnswered, CaseFailed, CaseListed, page
<1>3. /\ activeCaseId' \in Cases \cup {NoCase}
      /\ activeRunId' \in {activeRunId, NoRun}
      /\ hash' \in Routes
      /\ busy' \in [Flags -> BOOLEAN]
  <2>1. chains[s].case \in Cases \cup {NoCase}
    BY <1>1 DEF Chains
  <2>2. CASE CaseListed(s)
    BY <2>1, <2>2 DEF CaseListed, SetActiveCase, Set, SessionInv,
       SessionTypeOK, focus, Routes
  <2>3. CASE GiveUp(s) \/ CaseAnswered(s) \/ CaseFailed(s)
    BY <2>3 DEF GiveUp, CaseAnswered, CaseFailed, Set, SessionInv,
       SessionTypeOK, focus, page
  <2> QED
    BY <2>2, <2>3
<1>4. ASSUME NEW k \in Chains \cup {Idle},
             chains' = [chains EXCEPT ![s] = k],
             k # Idle => KnowsRun(k)
      PROVE  SessionInv'
  <2>1. SessionTypeOK'
    BY <1>2, <1>3, <1>4 DEF SessionInv, SessionTypeOK, backend, panel
  <2>2. chains'[s] = k /\ \A t \in Slots \ {s} : chains'[t] = chains[t]
    BY <1>4 DEF SessionInv, SessionTypeOK
  <2>3. runState' = runState
    BY <1>2 DEF backend
  <2>4. SlotOK(s)'
    BY <1>4, <2>2, <2>3 DEF SlotOK, KnowsRun
  <2> QED
    BY <1>3, <2>1, <2>2, <2>3, <2>4, ChainStep
<1>5. CASE CaseFailed(s) \/ CaseListed(s)
  BY <1>4, <1>5 DEF CaseFailed, CaseListed, Over
<1>6. CASE CaseAnswered(s)
  <2> DEFINE k == [chains[s] EXCEPT !.step = "list", !.served = FALSE]
  <2>1. k \in Chains /\ KnowsRun(k)
    BY <1>1 DEF Chains, Steps, KnowsRun
  <2>2. chains' = [chains EXCEPT ![s] = k]
    BY <1>6 DEF CaseAnswered, Ask, SessionInv, SessionTypeOK
  <2> QED
    BY <1>4, <2>1, <2>2
<1>7. CASE GiveUp(s)
  <2> DEFINE k == [chains[s] EXCEPT !.kind = "abandoned"]
  <2>1. k \in Chains /\ KnowsRun(k)
    BY <1>1 DEF Chains, Kinds, Creating, KnowsRun
  <2>2. chains' = [chains EXCEPT ![s] = k]
    BY <1>7 DEF GiveUp, SessionInv, SessionTypeOK
  <2> QED
    BY <1>4, <2>1, <2>2
<1> QED
  BY <1>5, <1>6, <1>7

(* A calculation goes on, fails or ends.                                   *)
LEMMA RunChainInv ==
    ASSUME SessionInv, NEW s \in Slots,
           RunCreated(s) \/ RunExecuted(s) \/ RunFailed(s) \/ RunsLoaded(s)
    PROVE  SessionInv'
<1>1. chains[s] # Idle /\ chains[s] \in Chains /\ KnowsRun(chains[s])
  BY ChainOf DEF RunCreated, RunExecuted, RunFailed, RunsLoaded, At
<1>2. UNCHANGED <<backend, activeCaseId, activeMode, route>>
  BY DEF RunCreated, RunExecuted, RunFailed, RunsLoaded, page, focus
<1>3. /\ hash' \in Routes
      /\ busy' \in [Flags -> BOOLEAN]
      /\ currentRun' \in Runs \cup {NoRun}
      /\ runStatus' \in RunStates \cup {"none"}
  <2>1. CASE RunCreated(s)
    BY <1>1, <2>1 DEF RunCreated, Set, SessionInv, SessionTypeOK, KnowsRun,
       At, RunStates, page
  <2>2. CASE RunExecuted(s)
    <3>1. runState[chains[s].run] \in RunStates
      BY <1>1, <2>2, Markers DEF RunExecuted, At, KnowsRun
    <3> QED
      BY <2>2, <3>1 DEF RunExecuted, SessionInv, SessionTypeOK, page
  <2>3. CASE RunFailed(s) \/ RunsLoaded(s)
    BY <2>3 DEF RunFailed, RunsLoaded, Set, SessionInv, SessionTypeOK,
       page, panel, Routes
  <2> QED
    BY <2>1, <2>2, <2>3
<1>4. \/ activeRunId' = activeRunId
      \/ activeRunId' \in Runs /\ runState[activeRunId'] \in Terminal
  <2>1. CASE RunsLoaded(s)
    <3>1. chains[s].step = "runs" /\ activeRunId' = chains[s].run
      BY <2>1 DEF RunsLoaded, At
    <3>2. chains[s].run \in Runs /\ runState[chains[s].run] \in Terminal
      BY <1>1, <3>1 DEF KnowsRun
    <3> QED
      BY <3>1, <3>2
  <2>2. CASE RunCreated(s) \/ RunExecuted(s) \/ RunFailed(s)
    BY <2>2 DEF RunCreated, RunExecuted, RunFailed, focus
  <2> QED
    BY <2>1, <2>2
<1>5. ASSUME NEW k \in Chains \cup {Idle},
             chains' = [chains EXCEPT ![s] = k],
             k # Idle => KnowsRun(k)
      PROVE  SessionInv'
  <2>1. SessionTypeOK'
    BY <1>2, <1>3, <1>4, <1>5 DEF SessionInv, SessionTypeOK, backend
  <2>2. chains'[s] = k /\ \A t \in Slots \ {s} : chains'[t] = chains[t]
    BY <1>5 DEF SessionInv, SessionTypeOK
  <2>3. runState' = runState
    BY <1>2 DEF backend
  <2>4. SlotOK(s)'
    BY <1>5, <2>2, <2>3 DEF SlotOK, KnowsRun
  <2> QED
    BY <1>4, <2>1, <2>2, <2>3, <2>4, ChainStep
<1>6. CASE RunFailed(s) \/ RunsLoaded(s)
  BY <1>5, <1>6 DEF RunFailed, RunsLoaded, Over
<1>7. CASE RunCreated(s) \/ RunExecuted(s)
  <2>1. PICK step \in {"execute", "runs"} :
          /\ Ask(s, step)
          /\ chains[s].run \in Runs
          /\ step = "runs" => runState[chains[s].run] \in Terminal
    BY <1>1, <1>7 DEF RunCreated, RunExecuted, At, KnowsRun
  <2> DEFINE k == [chains[s] EXCEPT !.step = step, !.served = FALSE]
  <2>2. k \in Chains
    BY <1>1 DEF Chains, Steps
  <2>3. k.step = step /\ ~k.served /\ k.run = chains[s].run
    BY <1>1 DEF Chains
  <2>4. KnowsRun(k)
    BY <2>1, <2>3 DEF KnowsRun
  <2>5. chains' = [chains EXCEPT ![s] = k]
    BY <2>1 DEF Ask, SessionInv, SessionTypeOK
  <2> QED
    BY <1>5, <2>2, <2>4, <2>5
<1> QED
  BY <1>6, <1>7

(* The invariant is inductive.                                             *)
LEMMA StepInv == SessionInv /\ [SessionNext]_sessionVars => SessionInv'
<1> SUFFICES ASSUME SessionInv, [SessionNext]_sessionVars
             PROVE  SessionInv'
  OBVIOUS
<1>1. CASE UNCHANGED sessionVars
  <2>1. UNCHANGED <<cases, runCase, runState, activeCaseId, activeRunId,
                    activeMode, hash, route, currentRun, runStatus, busy,
                    chains>>
    BY <1>1 DEF sessionVars, backend, focus, page, panel
  <2> QED
    BY <2>1 DEF SessionInv, SessionTypeOK, SlotOK, KnowsRun,
       FocusedRunExecuted
<1>2. CASE SessionNext
  BY <1>2, AddressInv, ReloadInv, StartInv, ServeInv, CaseChainInv,
     RunChainInv DEF SessionNext, Resume
<1> QED
  BY <1>1, <1>2

(* The types are right in every state of a tab.                            *)
THEOREM SessionTypeCorrect == SessionSpec => []SessionTypeOK
<1>1. SessionInv => SessionTypeOK
  BY DEF SessionInv
<1> QED
  BY InitInv, StepInv, <1>1, PTL DEF SessionSpec

(* However chains overlap, fail or are given up, the results page is only  *)
(* given runs that have a final status.                                    *)
THEOREM FocusedRunIsExecuted == SessionSpec => []FocusedRunExecuted
<1>1. SessionInv => FocusedRunExecuted
  BY DEF SessionInv
<1> QED
  BY InitInv, StepInv, <1>1, PTL DEF SessionSpec

-----------------------------------------------------------------------------
(* The flags.                                                              *)

FlagsInv == SessionTypeOK /\ FlagsOwned

(* No flag changes and every chain keeps its kind and its step, up to the  *)
(* kinds of a creation.                                                    *)
LEMMA SameFlags ==
    ASSUME FlagsInv, busy' = busy,
           \A s \in Slots :
              \/ chains'[s] = chains[s]
              \/ /\ chains[s] # Idle /\ chains'[s] # Idle
                 /\ chains'[s].step = chains[s].step
                 /\ \/ chains'[s].kind = chains[s].kind
                    \/ {chains[s].kind, chains'[s].kind} \subseteq Creating
    PROVE  FlagsOwned'
<1> SUFFICES ASSUME NEW f \in Flags, busy'[f]
             PROVE  \E s \in Slots : Clears(s, f)'
  BY DEF FlagsOwned
<1>1. PICK s \in Slots : Clears(s, f)
  BY DEF FlagsInv, FlagsOwned
<1>2. Clears(s, f)'
  BY <1>1 DEF Clears, At, Flags, Creating
<1> QED
  BY <1>2

(* A chain changes alone: every flag that stays set and was not its own    *)
(* keeps its owner.                                                        *)
LEMMA OtherOwner ==
    ASSUME FlagsInv, NEW s \in Slots, NEW f \in Flags,
           \A t \in Slots \ {s} : chains'[t] = chains[t],
           busy[f], ~Clears(s, f)
    PROVE  \E t \in Slots : Clears(t, f)'
<1>1. PICK t \in Slots : Clears(t, f)
  BY DEF FlagsInv, FlagsOwned
<1>2. t # s /\ chains'[t] = chains[t]
  BY <1>1
<1>3. Clears(t, f)'
  BY <1>1, <1>2 DEF Clears, At
<1> QED
  BY <1>3

(* The first flag of a handler is set with its first request.              *)
LEMMA StartFlags ==
    ASSUME FlagsInv, NEW s \in Slots,
           \/ CreateCase(s) \/ CreateFirstCase(s) \/ Calculate(s)
           \/ \E c \in Cases : ActivateCase(s, c)
    PROVE  FlagsOwned'
<1> SUFFICES ASSUME NEW f \in Flags, busy'[f]
             PROVE  \E t \in Slots : Clears(t, f)'
  BY DEF FlagsOwned
<1>1. PICK kind \in Kinds, c \in Cases \cup {NoCase}, step \in Steps :
         /\ Start(s, kind, c, step)
         /\ \/ kind \in {"create", "first"} /\ step = "change"
               /\ busy' = [busy EXCEPT !["isCreating"] = TRUE]
            \/ kind = "activate" /\ step = "change"
               /\ busy' = [busy EXCEPT !["isActivating"] = TRUE]
            \/ kind = "calculate" /\ step = "create"
               /\ busy' = [busy EXCEPT !["isCreatingRun"] = TRUE,
                                       !["isExecutingRun"] = TRUE]
  BY DEF CreateCase, CreateFirstCase, Calculate, ActivateCase, Set, Kinds,
     Creating, Steps, FlagsInv, SessionTypeOK
<1> DEFINE k == [kind |-> kind, case |-> c, run |-> NoRun, step |-> step,
                 served |-> FALSE]
<1>2. chains[s] = Idle /\ chains' = [chains EXCEPT ![s] = k]
  BY <1>1 DEF Start
<1>3. k \in Chains
  BY <1>1 DEF Chains
<1>4. chains'[s] = k /\ k # Idle
      /\ \A t \in Slots \ {s} : chains'[t] = chains[t]
  BY <1>2, <1>3, IdleAssumption DEF FlagsInv, SessionTypeOK
<1>5. CASE busy[f]
  <2>1. ~Clears(s, f)
    BY <1>2 DEF Clears, At, Flags
  <2> QED
    BY <1>4, <1>5, <2>1, OtherOwner
<1>6. CASE ~busy[f]
  <2>1. busy \in [Flags -> BOOLEAN]
    BY DEF FlagsInv, SessionTypeOK
  <2>2. k.kind = kind /\ k.step = step
    OBVIOUS
  <2>3. CASE kind \in {"create", "first"} /\ step = "change"
             /\ busy' = [busy EXCEPT !["isCreating"] = TRUE]
    <3>1. f = "isCreating"
      BY <1>6, <2>1, <2>3
    <3> QED
      BY <1>4, <2>2, <2>3, <3>1 DEF Clears, At, Creating
  <2>4. CASE kind = "activate" /\ step = "change"
             /\ busy' = [busy EXCEPT !["isActivating"] = TRUE]
    <3>1. f = "isActivating"
      BY <1>6, <2>1, <2>4
    <3> QED
      BY <1>4, <2>2, <2>4, <3>1 DEF Clears, At
  <2>5. CASE kind = "calculate" /\ step = "create"
             /\ busy' = [busy EXCEPT !["isCreatingRun"] = TRUE,
                                     !["isExecutingRun"] = TRUE]
    <3>1. f \in {"isCreatingRun", "isExecutingRun"}
      BY <1>6, <2>1, <2>5
    <3> QED
      BY <1>4, <2>2, <2>5, <3>1 DEF Clears, At
  <2> QED
    BY <1>1, <2>3, <2>4, <2>5
<1> QED
  BY <1>5, <1>6

(* An answer or a failure clears the flags of its request, or hands them   *)
(* on to the next one.                                                     *)
LEMMA AnswerFlags ==
    ASSUME FlagsInv, NEW s \in Slots, Resume(s)
    PROVE  FlagsOwned'
<1> SUFFICES ASSUME NEW f \in Flags, busy'[f]
             PROVE  \E t \in Slots : Clears(t, f)'
  BY DEF FlagsOwned
<1>1. chains[s] # Idle /\ chains[s] \in Chains
  BY DEF Resume, CaseAnswered, CaseFailed, CaseListed, RunCreated,
     RunExecuted, RunFailed, RunsLoaded, At, FlagsInv, SessionTypeOK
<1>2. \A t \in Slots \ {s} : chains'[t] = chains[t]
  BY DEF Resume, CaseAnswered, CaseFailed, CaseListed, RunCreated,
     RunExecuted, RunFailed, RunsLoaded, Ask, Over, FlagsInv, SessionTypeOK
<1>3. ASSUME NEW step \in Steps, Ask(s, step)
      PROVE  /\ chains'[s] # Idle
             /\ chains'[s].step = step
             /\ chains'[s].kind = chains[s].kind
  <2> DEFINE k == [chains[s] EXCEPT !.step = step, !.served = FALSE]
  <2>1. chains' = [chains EXCEPT ![s] = k]
    BY <1>3 DEF Ask, FlagsInv, SessionTypeOK
  <2>2. k \in Chains /\ k.step = step /\ k.kind = chains[s].kind
    BY <1>1 DEF Chains
  <2> QED
    BY <2>1, <2>2, IdleAssumption DEF FlagsInv, SessionTypeOK
<1>4. \/ busy[f] /\ ~Clears(s, f)
      \/ Clears(s, f)'
  <2>1. CASE CaseAnswered(s)
    <3>1. chains'[s] # Idle /\ chains'[s].step = "list"
          /\ chains'[s].kind = chains[s].kind
      BY <1>3, <2>1 DEF CaseAnswered, Steps
    <3> QED
      BY <2>1, <3>1 DEF CaseAnswered, Clears, At, Flags, Kinds, Creating
  <2>2. CASE CaseFailed(s) \/ CaseListed(s)
    BY <2>2 DEF CaseFailed, CaseListed, Set, Clears, At, Flags, Kinds,
       Creating, FlagsInv, SessionTypeOK
  <2>3. CASE RunCreated(s)
    <3>1. chains'[s] # Idle /\ chains'[s].step = "execute"
          /\ chains'[s].kind = chains[s].kind
      BY <1>3, <2>3 DEF RunCreated, Steps
    <3> QED
      BY <2>3, <3>1 DEF RunCreated, Set, Clears, At, Flags, Creating,
         FlagsInv, SessionTypeOK
  <2>4. CASE RunExecuted(s)
    <3>1. chains'[s] # Idle /\ chains'[s].step = "runs"
          /\ chains'[s].kind = chains[s].kind
      BY <1>3, <2>4 DEF RunExecuted, Steps
    <3> QED
      BY <2>4, <3>1 DEF RunExecuted, Clears, At, Flags, Creating,
         FlagsInv, SessionTypeOK
  <2>5. CASE RunFailed(s) \/ RunsLoaded(s)
    BY <2>5 DEF RunFailed, RunsLoaded, Set, Clears, At, Flags, Creating,
       FlagsInv, SessionTypeOK
  <2> QED
    BY <2>1, <2>2, <2>3, <2>4, <2>5 DEF Resume
<1> QED
  BY <1>2, <1>4, OtherOwner

(* Every step keeps an owner for every flag.                               *)
LEMMA StepFlags ==
    ASSUME FlagsInv, [SessionNext]_sessionVars
    PROVE  FlagsOwned'
<1>1. CASE \/ UNCHANGED sessionVars
           \/ HashChange \/ Configure \/ ShowResults
           \/ \E h \in Routes : Navigate(h)
  <2>1. busy' = busy /\ chains' = chains
    BY <1>1 DEF sessionVars, HashChange, Configure, ShowResults, Navigate
  <2> QED
    BY <2>1, SameFlags
<1>2. CASE Reload
  BY <1>2 DEF Reload, FlagsOwned
<1>3. ASSUME NEW s \in Slots, GiveUp(s) \/ ServeCase(s) \/ ServeRun(s)
      PROVE  FlagsOwned'
  <2>1. busy' = busy /\ chains[s] # Idle
    BY <1>3 DEF GiveUp, ServeCase, ServeRun, Waits
  <2>2. chains[s] \in Chains
    BY <2>1 DEF FlagsInv, SessionTypeOK
  <2>3. PICK k \in Chains :
          /\ chains' = [chains EXCEPT ![s] = k]
          /\ k.step = chains[s].step
          /\ \/ k.kind = chains[s].kind
             \/ {chains[s].kind, k.kind} \subseteq Creating
    <3>1. CASE GiveUp(s)
      <4>1. chains' = [chains EXCEPT
                         ![s] = [chains[s] EXCEPT !.kind = "abandoned"]]
        BY <3>1 DEF GiveUp, FlagsInv, SessionTypeOK
      <4> DEFINE k == [chains[s] EXCEPT !.kind = "abandoned"]
      <4>2. k \in Chains /\ k.step = chains[s].step
        BY <2>2 DEF Chains, Kinds, Creating
      <4>3. {chains[s].kind, k.kind} \subseteq Creating
        BY <2>2, <3>1 DEF GiveUp, Chains, Creating
      <4> QED
        BY <4>1, <4>2, <4>3
    <3>2. CASE ServeCase(s)
      <4>1. PICK c \in Cases \cup {NoCase} :
               chains' = [chains EXCEPT ![s] =
                  [chains[s] EXCEPT !.served = TRUE, !.case = c]]
        <5>1. chains[s].case \in Cases \cup {NoCase}
          BY <2>2 DEF Chains
        <5>2. [chains[s] EXCEPT !.served = TRUE, !.case = chains[s].case]
                 = [chains[s] EXCEPT !.served = TRUE]
          BY <2>2 DEF Chains
        <5>3. CASE chains' = [chains EXCEPT ![s].served = TRUE]
          BY <5>1, <5>2, <5>3 DEF FlagsInv, SessionTypeOK
        <5>4. CASE \E c \in Cases :
                      chains' = [chains EXCEPT ![s].served = TRUE,
                                               ![s].case = c]
          BY <5>4 DEF FlagsInv, SessionTypeOK
        <5> QED
          BY <3>2, <5>3, <5>4 DEF ServeCase
      <4> DEFINE k == [chains[s] EXCEPT !.served = TRUE, !.case = c]
      <4>2. /\ k \in Chains
            /\ k.step = chains[s].step /\ k.kind = chains[s].kind
        BY <2>2 DEF Chains
      <4> QED
        BY <4>1, <4>2
    <3>3. CASE ServeRun(s)
      <4>1. PICK r \in Runs \cup {NoRun} :
               chains' = [chains EXCEPT ![s] =
                  [chains[s] EXCEPT !.served = TRUE, !.run = r]]
        <5>1. chains[s].run \in Runs \cup {NoRun}
          BY <2>2 DEF Chains
        <5>2. [chains[s] EXCEPT !.served = TRUE, !.run = chains[s].run]
                 = [chains[s] EXCEPT !.served = TRUE]
          BY <2>2 DEF Chains
        <5>3. CASE chains' = [chains EXCEPT ![s].served = TRUE]
          BY <5>1, <5>2, <5>3 DEF FlagsInv, SessionTypeOK
        <5>4. CASE \E r \in Runs :
                      chains' = [chains EXCEPT ![s].served = TRUE,
                                               ![s].run = r]
          BY <5>4 DEF FlagsInv, SessionTypeOK
        <5> QED
          BY <3>3, <5>3, <5>4 DEF ServeRun
      <4> DEFINE k == [chains[s] EXCEPT !.served = TRUE, !.run = r]
      <4>2. /\ k \in Chains
            /\ k.step = chains[s].step /\ k.kind = chains[s].kind
        BY <2>2 DEF Chains
      <4> QED
        BY <4>1, <4>2
    <3> QED
      BY <1>3, <3>1, <3>2, <3>3
  <2>4. chains'[s] = k /\ k # Idle
        /\ \A t \in Slots \ {s} : chains'[t] = chains[t]
    BY <2>3, IdleAssumption DEF FlagsInv, SessionTypeOK
  <2> QED
    BY <2>1, <2>3, <2>4, SameFlags
<1> QED
  BY <1>1, <1>2, <1>3, StartFlags, AnswerFlags DEF SessionNext

(* A flag that is set has a request in flight that clears it, whatever was *)
(* started twice, failed or was given up.                                  *)
THEOREM FlagsHaveOwners == SessionSpec => []FlagsOwned
<1>1. SessionInit => FlagsOwned
  BY DEF SessionInit, FlagsOwned
<1>2. FlagsOwned /\ SessionTypeOK /\ [SessionNext]_sessionVars
         => FlagsOwned'
  BY StepFlags DEF FlagsInv
<1> QED
  BY <1>1, <1>2, SessionTypeCorrect, PTL DEF SessionSpec

-----------------------------------------------------------------------------
(* Whose run it is.                                                        *)

(* A run that a chain knows is of the case of the chain, has no final      *)
(* status before it is executed, and is known to no other chain.           *)
Owns(k, ofCase, state) ==
    /\ k.kind = "calculate" => k.case \in Cases
    /\ k.run # NoRun =>
          /\ k.kind = "calculate"
          /\ ofCase[k.run] = k.case
          /\ k.step = "create" => state[k.run] = "PENDING"
          /\ k.step = "execute" /\ ~k.served => state[k.run] = "PENDING"
Apart ==
    \A s, t \in Slots :
        s # t /\ chains[s] # Idle /\ chains[t] # Idle
            => chains[s].run = NoRun \/ chains[s].run # chains[t].run
Executed == \A r \in Runs : runState[r] \in Terminal => runCase[r] # NoCase
OwnInv ==
    /\ SessionInv
    /\ \A s \in Slots : chains[s] # Idle => Owns(chains[s], runCase, runState)
    /\ Apart
    /\ Executed

(* One chain changes, and with it at most its own run or a new one.        *)
LEMMA OwnStep ==
    ASSUME OwnInv, SessionInv', NEW s \in Slots,
           \A t \in Slots \ {s} : chains'[t] = chains[t],
           chains'[s] # Idle =>
              /\ Owns(chains'[s], runCase', runState')
              /\ \/ chains'[s].run = NoRun
                 \/ chains[s] # Idle /\ chains'[s].run = chains[s].run
                 \/ chains'[s].run \in Runs
                    /\ runCase[chains'[s].run] = NoCase,
           \A r \in Runs : runCase'[r] = runCase[r] \/ runCase[r] = NoCase,
           \A r \in Runs : \/ runState'[r] = runState[r]
                           \/ chains[s] # Idle /\ chains[s].run = r,
           Executed'
    PROVE  OwnInv'
<1>1. ASSUME NEW t \in Slots \ {s}, chains'[t] # Idle
      PROVE  Owns(chains'[t], runCase', runState')
  <2> DEFINE k == chains[t]
  <2>1. /\ k # Idle /\ chains'[t] = k /\ k \in Chains
        /\ Owns(k, runCase, runState)
    BY <1>1, ChainOf DEF OwnInv
  <2>2. CASE k.run = NoRun
    BY <2>1, <2>2 DEF Owns
  <2>3. CASE k.run # NoRun
    <3>1. k.run \in Runs /\ k.kind = "calculate" /\ k.case \in Cases
          /\ runCase[k.run] = k.case
      BY <2>1, <2>3 DEF Owns, Chains
    <3>2. runCase'[k.run] = k.case
      BY <3>1, SessionAssumption
    <3>3. runState'[k.run] = runState[k.run]
      BY <2>1, <2>3, <3>1 DEF OwnInv, Apart
    <3> QED
      BY <2>1, <3>1, <3>2, <3>3 DEF Owns
  <2> QED
    BY <2>2, <2>3
<1>2. ASSUME NEW t \in Slots \ {s}, chains'[s] # Idle, chains'[t] # Idle
      PROVE  chains'[s].run = NoRun \/ chains'[s].run # chains'[t].run
  <2>1. /\ chains'[t] = chains[t] /\ chains[t] \in Chains
        /\ Owns(chains[t], runCase, runState)
    BY <1>2, ChainOf DEF OwnInv
  <2>2. CASE chains[s] # Idle /\ chains'[s].run = chains[s].run
    BY <1>2, <2>1, <2>2 DEF OwnInv, Apart
  <2>3. CASE chains'[s].run \in Runs /\ runCase[chains'[s].run] = NoCase
    BY <2>1, <2>3, SessionAssumption DEF Owns
  <2> QED
    BY <1>2, <2>2, <2>3
<1>3. Apart'
  BY <1>2 DEF OwnInv, Apart
<1> QED
  BY <1>1, <1>3 DEF OwnInv

(* The invariant holds at the start.                                       *)
LEMMA InitOwn == SessionInit => OwnInv
BY InitInv DEF SessionInit, OwnInv, Apart, Executed, Terminal

(* Neither chains nor runs change, or a reload forgets the chains.         *)
LEMMA AddressOwn ==
    ASSUME OwnInv, SessionInv', UNCHANGED backend,
           UNCHANGED chains \/ \A s \in Slots : chains'[s] = Idle
    PROVE  OwnInv'
BY DEF OwnInv, Owns, Apart, Executed, backend

(* A chain starts without a run.                                           *)
LEMMA StartOwn ==
    ASSUME OwnInv, SessionInv', NEW s \in Slots,
           \/ CreateCase(s) \/ CreateFirstCase(s) \/ Calculate(s)
           \/ \E c \in Cases : ActivateCase(s, c)
    PROVE  OwnInv'
<1>1. UNCHANGED backend
  BY DEF CreateCase, CreateFirstCase, Calculate, ActivateCase
<1>2. PICK kind \in Kinds, c \in Cases \cup {NoCase}, step \in Steps :
         Start(s, kind, c, step) /\ (kind = "calculate" => c \in Cases)
  <2>1. {"create", "first", "activate", "calculate"} \subseteq Kinds
        /\ {"change", "create"} \subseteq Steps
    BY DEF Kinds, Creating, Steps
  <2>2. CASE CreateCase(s) \/ CreateFirstCase(s)
    BY <2>1, <2>2 DEF CreateCase, CreateFirstCase
  <2>3. CASE Calculate(s)
    <3>1. activeCaseId \in Cases
      BY <2>3 DEF Calculate, OwnInv, SessionInv, SessionTypeOK
    <3> QED
      BY <2>1, <2>3, <3>1 DEF Calculate
  <2>4. CASE \E c \in Cases : ActivateCase(s, c)
    BY <2>1, <2>4 DEF ActivateCase
  <2> QED
    BY <2>2, <2>3, <2>4
<1> DEFINE k == [kind |-> kind, case |-> c, run |-> NoRun, step |-> step,
                 served |-> FALSE]
<1>3. chains' = [chains EXCEPT ![s] = k]
  BY <1>2 DEF Start
<1>4. chains'[s] = k /\ \A t \in Slots \ {s} : chains'[t] = chains[t]
  BY <1>3 DEF OwnInv, SessionInv, SessionTypeOK
<1>5. Owns(k, runCase', runState')
  BY <1>2 DEF Owns
<1> QED
  BY <1>1, <1>4, <1>5, OwnStep DEF OwnInv, Executed, backend

(* The backend serves a request about a case.                              *)
LEMMA ServeCaseOwn ==
    ASSUME OwnInv, SessionInv', NEW s \in Slots, ServeCase(s)
    PROVE  OwnInv'
<1>1. /\ chains[s] # Idle /\ chains[s] \in Chains
      /\ Owns(chains[s], runCase, runState)
  BY ChainOf DEF ServeCase, Waits, OwnInv
<1>2. UNCHANGED <<runCase, runState>>
  BY DEF ServeCase
<1>3. chains[s].kind # "calculate" /\ chains[s].run = NoRun
  BY <1>1 DEF ServeCase, Waits, Creating, Owns
<1>4. PICK k \in Chains :
         /\ chains' = [chains EXCEPT ![s] = k]
         /\ k.kind = chains[s].kind /\ k.run = NoRun
  <2>1. CASE chains' = [chains EXCEPT ![s].served = TRUE]
    <3> DEFINE k == [chains[s] EXCEPT !.served = TRUE]
    <3>1. k \in Chains /\ k.kind = chains[s].kind /\ k.run = NoRun
      BY <1>1, <1>3 DEF Chains
    <3>2. chains' = [chains EXCEPT ![s] = k]
      BY <2>1 DEF OwnInv, SessionInv, SessionTypeOK
    <3> QED
      BY <3>1, <3>2
  <2>2. ASSUME NEW c \in Cases,
               chains' = [chains EXCEPT ![s].served = TRUE, ![s].case = c]
        PROVE  \E k \in Chains :
                  /\ chains' = [chains EXCEPT ![s] = k]
                  /\ k.kind = chains[s].kind /\ k.run = NoRun
    <3> DEFINE k == [chains[s] EXCEPT !.served = TRUE, !.case = c]
    <3>1. k \in Chains /\ k.kind = chains[s].kind /\ k.run = NoRun
      BY <1>1, <1>3 DEF Chains
    <3>2. chains' = [chains EXCEPT ![s] = k]
      BY <2>2 DEF OwnInv, SessionInv, SessionTypeOK
    <3> QED
      BY <3>1, <3>2
  <2> QED
    BY <2>1, <2>2 DEF ServeCase
<1>5. chains'[s] = k /\ \A t \in Slots \ {s} : chains'[t] = chains[t]
  BY <1>4 DEF OwnInv, SessionInv, SessionTypeOK
<1>6. Owns(k, runCase', runState')
  BY <1>3, <1>4 DEF Owns
<1> QED
  BY <1>2, <1>4, <1>5, <1>6, OwnStep DEF OwnInv, Executed

(* The backend creates a run, or executes it.                              *)
LEMMA ServeRunOwn ==
    ASSUME OwnInv, SessionInv', NEW s \in Slots, ServeRun(s)
    PROVE  OwnInv'
<1>1. /\ chains[s] # Idle /\ chains[s] \in Chains
      /\ Owns(chains[s], runCase, runState)
      /\ KnowsRun(chains[s])
  BY ChainOf DEF ServeRun, Waits, OwnInv
<1>2. chains[s].kind = "calculate" /\ chains[s].case \in Cases
  BY <1>1 DEF ServeRun, Waits, Owns
<1>3. CASE chains[s].step = "create"
  <2>1. PICK r \in Runs :
          /\ runCase[r] = NoCase
          /\ runCase' = [runCase EXCEPT ![r] = chains[s].case]
          /\ chains' = [chains EXCEPT ![s].served = TRUE, ![s].run = r]
    BY <1>3 DEF ServeRun, Waits
  <2>2. runState' = runState
    BY <1>3 DEF ServeRun, Waits
  <2> DEFINE k == [chains[s] EXCEPT !.served = TRUE, !.run = r]
  <2>3. /\ k.kind = "calculate" /\ k.case = chains[s].case
        /\ k.run = r /\ k.step = "create"
    BY <1>1, <1>2, <1>3 DEF Chains
  <2>4. chains'[s] = k /\ \A t \in Slots \ {s} : chains'[t] = chains[t]
    BY <2>1 DEF OwnInv, SessionInv, SessionTypeOK
  <2>5. /\ runCase'[r] = chains[s].case
        /\ \A q \in Runs \ {r} : runCase'[q] = runCase[q]
    BY <2>1 DEF OwnInv, SessionInv, SessionTypeOK
  <2>6. runState[r] = "PENDING"
    BY <2>1 DEF OwnInv, Executed, SessionInv, SessionTypeOK, RunStates
  <2>7. Owns(k, runCase', runState')
    BY <1>2, <2>2, <2>3, <2>5, <2>6 DEF Owns
  <2>8. Executed'
    BY <1>2, <2>1, <2>2, <2>5, SessionAssumption DEF OwnInv, Executed
  <2>9. \A q \in Runs : runCase'[q] = runCase[q] \/ runCase[q] = NoCase
    BY <2>1, <2>5
  <2>10. /\ Owns(chains'[s], runCase', runState')
         /\ chains'[s].run \in Runs /\ runCase[chains'[s].run] = NoCase
    BY <2>1, <2>3, <2>4, <2>7
  <2> HIDE DEF k
  <2> QED
    BY <2>2, <2>4, <2>8, <2>9, <2>10, OwnStep
<1>4. CASE chains[s].step = "execute"
  <2>1. PICK st \in Terminal :
          runState' = [runState EXCEPT ![chains[s].run] = st]
    BY <1>4 DEF ServeRun, Waits
  <2>2. /\ chains' = [chains EXCEPT ![s].served = TRUE]
        /\ runCase' = runCase
    BY <1>4 DEF ServeRun, Waits
  <2> DEFINE k == [chains[s] EXCEPT !.served = TRUE]
  <2>3. /\ k.kind = "calculate" /\ k.case = chains[s].case
        /\ k.run = chains[s].run /\ k.step = "execute" /\ k.served
    BY <1>1, <1>2, <1>4 DEF Chains
  <2>4. chains'[s] = k /\ \A t \in Slots \ {s} : chains'[t] = chains[t]
    BY <2>2 DEF OwnInv, SessionInv, SessionTypeOK
  <2>5. chains[s].run \in Runs /\ chains[s].run # NoRun
    BY <1>1, <1>4, Markers DEF KnowsRun
  <2>6. runCase[chains[s].run] = chains[s].case
    BY <1>1, <2>5 DEF Owns
  <2>7. \A q \in Runs : q # chains[s].run => runState'[q] = runState[q]
    BY <2>1, <2>5 DEF OwnInv, SessionInv, SessionTypeOK
  <2>8. Owns(k, runCase', runState')
    BY <1>2, <2>2, <2>3, <2>6 DEF Owns
  <2>9. Executed'
    BY <1>2, <2>2, <2>6, <2>7, SessionAssumption DEF OwnInv, Executed
  <2> QED
    BY <1>1, <2>2, <2>3, <2>4, <2>7, <2>8, <2>9, OwnStep
<1> QED
  BY <1>3, <1>4 DEF ServeRun, Waits

(* A chain goes on or ends; the backend rests.                             *)
LEMMA ResumeOwn ==
    ASSUME OwnInv, SessionInv', NEW s \in Slots, GiveUp(s) \/ Resume(s)
    PROVE  OwnInv'
<1>1. /\ chains[s] # Idle /\ chains[s] \in Chains
      /\ Owns(chains[s], runCase, runState)
  BY ChainOf DEF GiveUp, Resume, CaseAnswered, CaseFailed, CaseListed,
     RunCreated, RunExecuted, RunFailed, RunsLoaded, At, OwnInv
<1>2. UNCHANGED <<runCase, runState>>
  BY DEF GiveUp, Resume, CaseAnswered, CaseFailed, CaseListed, RunCreated,
     RunExecuted, RunFailed, RunsLoaded, backend
<1>3. ASSUME NEW k \in Chains \cup {Idle},
             chains' = [chains EXCEPT ![s] = k],
             k # Idle => Owns(k, runCase, runState) /\ k.run = chains[s].run
      PROVE  OwnInv'
  <2>1. chains'[s] = k /\ \A t \in Slots \ {s} : chains'[t] = chains[t]
    BY <1>3 DEF OwnInv, SessionInv, SessionTypeOK
  <2>2. k # Idle => Owns(k, runCase', runState')
    BY <1>2, <1>3 DEF Owns
  <2>3. Executed'
    BY <1>2 DEF OwnInv, Executed
  <2> QED
    BY <1>1, <1>2, <1>3, <2>1, <2>2, <2>3, OwnStep
<1>4. CASE CaseFailed(s) \/ CaseListed(s) \/ RunFailed(s) \/ RunsLoaded(s)
  BY <1>3, <1>4 DEF CaseFailed, CaseListed, RunFailed, RunsLoaded, Over
<1>5. CASE GiveUp(s)
  <2> DEFINE k == [chains[s] EXCEPT !.kind = "abandoned"]
  <2>1. k \in Chains /\ k.run = chains[s].run /\ k.kind = "abandoned"
    BY <1>1 DEF Chains, Kinds, Creating
  <2>2. chains[s].run = NoRun
    BY <1>1, <1>5 DEF GiveUp, Owns
  <2>3. chains' = [chains EXCEPT ![s] = k]
    BY <1>5 DEF GiveUp, OwnInv, SessionInv, SessionTypeOK
  <2> QED
    BY <1>3, <2>1, <2>2, <2>3 DEF Owns
<1>6. CASE CaseAnswered(s) \/ RunCreated(s) \/ RunExecuted(s)
  <2>1. PICK step \in {"list", "execute", "runs"} :
           /\ Ask(s, step)
           /\ step = "execute" => chains[s].step = "create"
    BY <1>6 DEF CaseAnswered, RunCreated, RunExecuted, At
  <2> DEFINE k == [chains[s] EXCEPT !.step = step, !.served = FALSE]
  <2>2. /\ k \in Chains
        /\ k.kind = chains[s].kind /\ k.case = chains[s].case
        /\ k.run = chains[s].run /\ k.step = step /\ ~k.served
    BY <1>1 DEF Chains, Steps
  <2>3. Owns(k, runCase, runState)
    BY <1>1, <2>1, <2>2 DEF Owns
  <2>4. chains' = [chains EXCEPT ![s] = k]
    BY <2>1 DEF Ask, OwnInv, SessionInv, SessionTypeOK
  <2> QED
    BY <1>3, <2>2, <2>3, <2>4
<1> QED
  BY <1>4, <1>5, <1>6 DEF Resume

(* The invariant is inductive.                                             *)
LEMMA StepOwn == OwnInv /\ [SessionNext]_sessionVars => OwnInv'
<1> SUFFICES ASSUME OwnInv, [SessionNext]_sessionVars
             PROVE  OwnInv'
  OBVIOUS
<1>1. SessionInv'
  BY StepInv DEF OwnInv
<1>2. CASE \/ UNCHANGED sessionVars
           \/ HashChange \/ Configure \/ ShowResults \/ Reload
           \/ \E h \in Routes : Navigate(h)
  <2>1. /\ UNCHANGED backend
        /\ UNCHANGED chains \/ \A s \in Slots : chains'[s] = Idle
    BY <1>2 DEF sessionVars, HashChange, Configure, ShowResults, Reload,
       Navigate
  <2> QED
    BY <1>1, <2>1, AddressOwn
<1> QED
  BY <1>1, <1>2, StartOwn, ServeCaseOwn, ServeRunOwn, ResumeOwn
     DEF SessionNext

-----------------------------------------------------------------------------
(* The steps that spoil the focus.                                         *)

(* The edit mode belongs to the editor's route.                            *)
ModeInv == activeMode = "MODEL_EDIT" => route = "sld"
LEMMA StepMode ==
    SessionInv /\ ModeInv /\ [SessionNext]_sessionVars => ModeInv'
<1> SUFFICES ASSUME SessionInv, ModeInv, [SessionNext]_sessionVars
             PROVE  ModeInv'
  OBVIOUS
<1>1. CASE HashChange \/ Configure \/ ShowResults \/ Reload
  <2>1. ModeOf(hash) = "MODEL_EDIT" => hash = "sld"
    BY DEF ModeOf, SessionInv, SessionTypeOK, Routes
  <2>2. CASE HashChange
    BY <2>1, <2>2 DEF HashChange, SetActiveMode, ModeInv
  <2>3. CASE Reload
    BY <2>1, <2>3 DEF Reload, ModeInv
  <2>4. CASE Configure \/ ShowResults
    BY <2>4 DEF Configure, ShowResults, SetActiveMode, ModeInv
  <2> QED
    BY <1>1, <2>2, <2>3, <2>4
<1>2. ASSUME UNCHANGED <<activeMode, route>> PROVE ModeInv'
  BY <1>2 DEF ModeInv
<1>3. CASE UNCHANGED sessionVars \/ \E h \in Routes : Navigate(h)
  BY <1>2, <1>3 DEF sessionVars, Navigate, page
<1>4. ASSUME NEW s \in Slots,
             \/ CreateCase(s) \/ CreateFirstCase(s) \/ Calculate(s)
             \/ \E c \in Cases : ActivateCase(s, c)
             \/ ServeCase(s) \/ ServeRun(s) \/ GiveUp(s) \/ Resume(s)
      PROVE  ModeInv'
  BY <1>2, <1>4 DEF CreateCase, CreateFirstCase, Calculate, ActivateCase,
     ServeCase, ServeRun, GiveUp, Resume, CaseAnswered, CaseFailed,
     CaseListed, RunCreated, RunExecuted, RunFailed, RunsLoaded, page
<1> QED
  BY <1>1, <1>3, <1>4 DEF SessionNext

(* A run comes into the focus of the edit mode only by going back.         *)
LEMMA StepStray ==
    ASSUME ModeInv, [SessionNext]_sessionVars, ~StrayRun, StrayRun'
    PROVE  hash # route /\ UNCHANGED route
<1>1. activeRunId' # NoRun /\ activeMode' = "MODEL_EDIT" /\ hash' = route'
  BY DEF StrayRun
<1>2. ASSUME UNCHANGED <<activeRunId, activeMode, hash, route>> PROVE FALSE
  BY <1>2 DEF StrayRun
<1>3. CASE HashChange \/ Configure \/ ShowResults \/ Reload
  BY <1>1, <1>3 DEF HashChange, Configure, ShowResults, Reload,
     SetActiveMode
<1>4. CASE \E h \in Routes : Navigate(h)
  BY <1>1, <1>4 DEF Navigate, focus, StrayRun
<1>5. CASE UNCHANGED sessionVars
  BY <1>2, <1>5 DEF sessionVars, page, focus
<1>6. ASSUME NEW s \in Slots,
             \/ CreateCase(s) \/ CreateFirstCase(s) \/ Calculate(s)
             \/ \E c \in Cases : ActivateCase(s, c)
             \/ ServeCase(s) \/ ServeRun(s) \/ GiveUp(s)
             \/ CaseAnswered(s) \/ CaseFailed(s) \/ RunCreated(s)
             \/ RunExecuted(s) \/ RunFailed(s)
      PROVE  FALSE
  BY <1>2, <1>6 DEF CreateCase, CreateFirstCase, Calculate, ActivateCase,
     ServeCase, ServeRun, GiveUp, CaseAnswered, CaseFailed, RunCreated,
     RunExecuted, RunFailed, page, focus
<1>7. ASSUME NEW s \in Slots, CaseListed(s) PROVE FALSE
  BY <1>1, <1>2, <1>7 DEF CaseListed, SetActiveCase, focus
<1>8. ASSUME NEW s \in Slots, RunsLoaded(s) PROVE FALSE
  BY <1>1, <1>8 DEF RunsLoaded, ModeInv
<1> QED
  BY <1>3, <1>4, <1>5, <1>6, <1>7, <1>8 DEF SessionNext, Resume

(* In the edit mode no run comes into focus, unless the user went back     *)
(* before the page had followed a calculation.                             *)
THEOREM StrayRunOnlyByGoingBack == SessionSpec => NoStrayRun
<1>1. SessionInit => ModeInv
  BY DEF SessionInit, ModeInv
<1>2. ModeInv /\ [SessionNext]_sessionVars
         => [~StrayRun /\ StrayRun' =>
                hash # route /\ UNCHANGED route]_sessionVars
  BY StepStray
<1> QED
  BY <1>1, <1>2, InitInv, StepInv, StepMode, PTL
     DEF SessionSpec, NoStrayRun

(* The case of the run in focus stays: it was executed, so it is of a case *)
(* for good.                                                               *)
LEMMA StepFocus ==
    ASSUME OwnInv, [SessionNext]_sessionVars, OneFocus, ~OneFocus'
    PROVE  \E s \in Slots : /\ At(s, {"calculate"}, "runs")
                            /\ chains[s].case # activeCaseId
<1>1. activeRunId' # NoRun
  BY DEF OneFocus
<1>2. ASSUME UNCHANGED <<focus, runCase>> PROVE FALSE
  BY <1>2 DEF OneFocus, focus
<1>3. CASE HashChange \/ Configure \/ ShowResults \/ Reload
  <2>1. activeRunId' = activeRunId /\ UNCHANGED <<activeCaseId, runCase>>
    BY <1>1, <1>3 DEF HashChange, Configure, ShowResults, Reload,
       SetActiveMode, backend
  <2> QED
    BY <1>2, <2>1 DEF focus
<1>4. CASE UNCHANGED sessionVars \/ \E h \in Routes : Navigate(h)
  BY <1>2, <1>4 DEF sessionVars, Navigate, backend
<1>5. ASSUME NEW s \in Slots,
             \/ CreateCase(s) \/ CreateFirstCase(s) \/ Calculate(s)
             \/ \E c \in Cases : ActivateCase(s, c)
             \/ ServeCase(s) \/ GiveUp(s)
             \/ CaseAnswered(s) \/ CaseFailed(s) \/ RunCreated(s)
             \/ RunExecuted(s) \/ RunFailed(s)
      PROVE  FALSE
  BY <1>2, <1>5 DEF CreateCase, CreateFirstCase, Calculate, ActivateCase,
     ServeCase, GiveUp, CaseAnswered, CaseFailed, RunCreated, RunExecuted,
     RunFailed, backend, focus
<1>6. ASSUME NEW s \in Slots, ServeRun(s) PROVE FALSE
  <2>1. UNCHANGED focus
    BY <1>6 DEF ServeRun
  <2>2. activeRunId \in Runs /\ runState[activeRunId] \in Terminal
    BY <1>1, <2>1 DEF focus, OwnInv, SessionInv, SessionTypeOK,
       FocusedRunExecuted
  <2>3. runCase[activeRunId] # NoCase
    BY <2>2 DEF OwnInv, Executed
  <2>4. runCase'[activeRunId] = runCase[activeRunId]
    BY <1>6, <2>2, <2>3 DEF ServeRun, OwnInv, SessionInv, SessionTypeOK
  <2> QED
    BY <2>1, <2>4 DEF OneFocus, focus
<1>7. ASSUME NEW s \in Slots, CaseListed(s) PROVE FALSE
  BY <1>1, <1>2, <1>7 DEF CaseListed, SetActiveCase, backend
<1>8. ASSUME NEW s \in Slots, RunsLoaded(s)
      PROVE  /\ At(s, {"calculate"}, "runs")
             /\ chains[s].case # activeCaseId
  <2>1. /\ At(s, {"calculate"}, "runs") /\ activeRunId' = chains[s].run
        /\ UNCHANGED <<activeCaseId, runCase>>
    BY <1>8 DEF RunsLoaded, backend
  <2>2. runCase[chains[s].run] = chains[s].case
    BY <1>1, <2>1 DEF At, OwnInv, Owns
  <2> QED
    BY <2>1, <2>2 DEF OneFocus
<1> QED
  BY <1>3, <1>4, <1>5, <1>6, <1>7, <1>8 DEF SessionNext, Resume

(* Run and case in focus belong together, until a calculation that was     *)
(* started for another case ends.                                          *)
THEOREM FocusLostByOtherCase == SessionSpec => FocusLostOnlyByOtherCase
<1>1. OwnInv /\ [SessionNext]_sessionVars
         => [OneFocus /\ ~OneFocus' =>
               \E s \in Slots : /\ At(s, {"calculate"}, "runs")
                                /\ chains[s].case # activeCaseId]_sessionVars
  BY StepFocus
<1> QED
  BY <1>1, InitOwn, StepOwn, PTL DEF SessionSpec, FocusLostOnlyByOtherCase

(* A run has a final status only after it was executed, once.              *)
LEMMA StepStatus ==
    ASSUME OwnInv, [SessionNext]_sessionVars,
           StatusOfCurrentRun, ~StatusOfCurrentRun'
    PROVE  \E s \in Slots :
              /\ At(s, {"calculate"}, "execute") /\ chains[s].served
              /\ chains[s].run # currentRun
<1>1. runStatus' \in Terminal
  BY DEF StatusOfCurrentRun
<1>2. ASSUME UNCHANGED <<panel, runState>> PROVE FALSE
  BY <1>2 DEF StatusOfCurrentRun, panel
<1>3. CASE \/ UNCHANGED sessionVars \/ HashChange \/ Configure
           \/ ShowResults \/ \E h \in Routes : Navigate(h)
  BY <1>2, <1>3 DEF sessionVars, HashChange, Configure, ShowResults,
     Navigate, backend
<1>4. ASSUME NEW s \in Slots,
             \/ CreateCase(s) \/ CreateFirstCase(s) \/ Calculate(s)
             \/ \E c \in Cases : ActivateCase(s, c)
             \/ ServeCase(s) \/ GiveUp(s) \/ CaseAnswered(s)
             \/ CaseFailed(s) \/ CaseListed(s) \/ RunFailed(s)
             \/ RunsLoaded(s)
      PROVE  FALSE
  BY <1>2, <1>4 DEF CreateCase, CreateFirstCase, Calculate, ActivateCase,
     ServeCase, GiveUp, CaseAnswered, CaseFailed, CaseListed, RunFailed,
     RunsLoaded, backend
<1>5. ASSUME NEW s \in Slots, RunCreated(s) PROVE FALSE
  BY <1>1, <1>5 DEF RunCreated, Terminal
<1>6. CASE Reload
  BY <1>1, <1>6 DEF Reload, Terminal
<1>7. ASSUME NEW s \in Slots, ServeRun(s) PROVE FALSE
  <2>1. UNCHANGED panel /\ runStatus \in Terminal
    BY <1>1, <1>7 DEF ServeRun, panel
  <2>2. /\ currentRun # NoRun /\ currentRun \in Runs
        /\ runState[currentRun] \in Terminal
    BY <2>1 DEF StatusOfCurrentRun, OwnInv, SessionInv, SessionTypeOK
  <2>3. CASE chains[s].step = "create"
    BY <1>2, <1>7, <2>1, <2>3 DEF ServeRun, Waits
  <2>4. CASE chains[s].step = "execute"
    <3>1. PICK st \in Terminal :
             runState' = [runState EXCEPT ![chains[s].run] = st]
      BY <1>7, <2>4 DEF ServeRun, Waits
    <3>2. chains[s].run # NoRun => runState[chains[s].run] = "PENDING"
      BY <1>7, <2>4 DEF ServeRun, Waits, OwnInv, Owns
    <3>3. chains[s].run # currentRun
      BY <2>2, <3>2 DEF Terminal
    <3>4. runState'[currentRun] = runState[currentRun]
      BY <2>2, <3>1, <3>3 DEF OwnInv, SessionInv, SessionTypeOK
    <3> QED
      BY <2>1, <3>4 DEF StatusOfCurrentRun, panel
  <2> QED
    BY <1>7, <2>3, <2>4 DEF ServeRun, Waits
<1>8. ASSUME NEW s \in Slots, RunExecuted(s)
      PROVE  /\ At(s, {"calculate"}, "execute") /\ chains[s].served
             /\ chains[s].run # currentRun
  <2>1. /\ At(s, {"calculate"}, "execute") /\ chains[s].served
        /\ runStatus' = runState[chains[s].run]
        /\ UNCHANGED <<currentRun, runState>>
    BY <1>8 DEF RunExecuted, backend
  <2>2. chains[s].run \in Runs
    BY <2>1, ChainOf DEF At, KnowsRun, OwnInv
  <2> QED
    BY <2>1, <2>2, Markers DEF StatusOfCurrentRun
<1> QED
  BY <1>3, <1>4, <1>5, <1>6, <1>7, <1>8 DEF SessionNext, Resume

(* The final status on the run panel is that of its run, until a run that  *)
(* is no longer the current one ends.                                      *)
THEOREM StatusLostByOtherRun == SessionSpec => StatusLostOnlyByOtherRun
<1>1. OwnInv /\ [SessionNext]_sessionVars
         => [StatusOfCurrentRun /\ ~StatusOfCurrentRun' =>
               \E s \in Slots :
                  /\ At(s, {"calculate"}, "execute") /\ chains[s].served
                  /\ chains[s].run # currentRun]_sessionVars
  BY StepStatus
<1> QED
  BY <1>1, InitOwn, StepOwn, PTL DEF SessionSpec, StatusLostOnlyByOtherRun
=============================================================================
