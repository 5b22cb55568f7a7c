------------------------- MODULE ResultsView_proofs -------------------------
(* The results page of ResultsView for every number of runs and tables and *)
(* of requests in flight.                                                  *)
EXTENDS ResultsView, TLAPS

ResultsInv == ResultsTypeOK /\ OverlayMatchesTables /\ SpinnersOwned

(* A request that is sent, and an answer or failure that comes, keep the   *)
(* types of the counters and an owner for every spinner.                   *)
LEMMA SendKeeps ==
    ASSUME ResultsInv, NEW w \in Kinds, NEW r \in Runs, Send(w, r)
    PROVE  /\ loads' \in [Kinds -> [Runs -> 0..MaxLoads]]
           /\ isLoading' \in [Kinds -> BOOLEAN]
           /\ error' = FALSE
           /\ isLoading'[w]
           /\ \A v \in Kinds \ {w} : isLoading'[v] = isLoading[v]
           /\ SpinnersOwned'
<1>1. /\ loads \in [Kinds -> [Runs -> 0..MaxLoads]]
      /\ isLoading \in [Kinds -> BOOLEAN]
  BY DEF ResultsInv, ResultsTypeOK
<1>2. loads[w][r] \in 0..MaxLoads /\ loads[w][r] < MaxLoads
  BY <1>1 DEF Send
<1>3. loads[w][r] + 1 \in 0..MaxLoads /\ loads[w][r] + 1 > 0
  BY <1>2, ResultsAssumption
<1>4. loads' = [loads EXCEPT ![w][r] = loads[w][r] + 1]
  BY DEF Send
<1>5. loads' \in [Kinds -> [Runs -> 0..MaxLoads]]
  BY <1>1, <1>3, <1>4
<1>6. loads'[w][r] > 0 /\ \A v \in Kinds \ {w} : loads'[v] = loads[v]
  BY <1>1, <1>3, <1>4
<1>7. /\ isLoading' \in [Kinds -> BOOLEAN]
      /\ error' = FALSE
      /\ isLoading'[w]
      /\ \A v \in Kinds \ {w} : isLoading'[v] = isLoading[v]
  BY <1>1 DEF Send
<1>8. SpinnersOwned'
  <2> SUFFICES ASSUME NEW v \in Kinds, isLoading'[v]
               PROVE  \E q \in Runs : loads'[v][q] > 0
    BY DEF SpinnersOwned
  <2>1. CASE v = w
    BY <1>6, <2>1
  <2>2. CASE v # w
    BY <1>6, <1>7, <2>2 DEF ResultsInv, SpinnersOwned
  <2> QED
    BY <2>1, <2>2
<1> QED
  BY <1>5, <1>7, <1>8

LEMMA ReceiveKeeps ==
    ASSUME ResultsInv, NEW w \in Kinds, NEW r \in Runs, Receive(w, r)
    PROVE  /\ loads' \in [Kinds -> [Runs -> 0..MaxLoads]]
           /\ isLoading' \in [Kinds -> BOOLEAN]
           /\ loads'[w][r] < loads[w][r]
           /\ \A v \in Kinds \ {w} : isLoading'[v] = isLoading[v]
           /\ SpinnersOwned'
<1>1. /\ loads \in [Kinds -> [Runs -> 0..MaxLoads]]
      /\ isLoading \in [Kinds -> BOOLEAN]
  BY DEF ResultsInv, ResultsTypeOK
<1>2. loads[w][r] \in 0..MaxLoads /\ loads[w][r] > 0
  BY <1>1 DEF Receive
<1>3. loads[w][r] - 1 \in 0..MaxLoads /\ loads[w][r] - 1 < loads[w][r]
  BY <1>2, ResultsAssumption
<1>4. loads' = [loads EXCEPT ![w][r] = loads[w][r] - 1]
  BY DEF Receive
<1>5. loads' \in [Kinds -> [Runs -> 0..MaxLoads]]
  BY <1>1, <1>3, <1>4
<1>6. /\ loads'[w][r] < loads[w][r]
      /\ \A v \in Kinds \ {w} : loads'[v] = loads[v]
  BY <1>1, <1>3, <1>4
<1>7. /\ isLoading' \in [Kinds -> BOOLEAN]
      /\ ~isLoading'[w]
      /\ \A v \in Kinds \ {w} : isLoading'[v] = isLoading[v]
  BY <1>1 DEF Receive
<1>8. SpinnersOwned'
  BY <1>6, <1>7 DEF ResultsInv, SpinnersOwned
<1> QED
  BY <1>5, <1>6, <1>7, <1>8

-----------------------------------------------------------------------------
(* The invariant holds at the start.                                       *)
LEMMA InitInv == ResultsInit => ResultsInv
<1> SUFFICES ASSUME ResultsInit PROVE ResultsInv
  OBVIOUS
<1>1. 0 \in 0..MaxLoads
  BY ResultsAssumption
<1>2. ResultsTypeOK
  BY <1>1 DEF ResultsInit, ResultsTypeOK, MaybeRun
<1>3. OverlayMatchesTables
  BY DEF ResultsInit, OverlayMatchesTables, Things
<1>4. SpinnersOwned
  BY DEF ResultsInit, SpinnersOwned
<1> QED
  BY <1>2, <1>3, <1>4 DEF ResultsInv

(* selectRun forgets all tables and the overlay with them.                 *)
LEMMA SelectRunInv ==
    ASSUME ResultsInv, NEW r \in Runs, SelectRun(r)
    PROVE  ResultsInv'
<1>1. Index \in Kinds /\ Send(Index, r)
  BY DEF Kinds, SelectRun
<1>2. /\ results' = [w \in Things |-> NoRun] /\ sldOverlay' = NoOverlay
      /\ selectedRunId' = r /\ UNCHANGED <<page, resultsIndex>>
  BY DEF SelectRun
<1>3. ResultsTypeOK'
  BY <1>1, <1>2, SendKeeps DEF ResultsInv, ResultsTypeOK, MaybeRun
<1>4. OverlayMatchesTables'
  BY <1>2 DEF OverlayMatchesTables, Things
<1>5. SpinnersOwned'
  BY <1>1, SendKeeps
<1> QED
  BY <1>3, <1>4, <1>5 DEF ResultsInv

(* The page asks for something: only the counters and spinners change.     *)
LEMMA LoadInv ==
    ASSUME ResultsInv, NEW w \in Kinds, Load(w) \/ (w = Trace /\ LoadTrace)
    PROVE  ResultsInv'
<1>1. selectedRunId \in Runs /\ Send(w, selectedRunId)
  BY DEF Load, LoadTrace, ResultsInv, ResultsTypeOK, MaybeRun
<1>2. UNCHANGED <<page, selectedRunId, resultsIndex, results, sldOverlay>>
  BY DEF Load, LoadTrace
<1>3. /\ loads' \in [Kinds -> [Runs -> 0..MaxLoads]]
      /\ isLoading' \in [Kinds -> BOOLEAN]
      /\ error' = FALSE
      /\ SpinnersOwned'
  BY <1>1, SendKeeps
<1>4. ResultsTypeOK'
  BY <1>2, <1>3 DEF ResultsInv, ResultsTypeOK
<1>5. OverlayMatchesTables'
  BY <1>2 DEF ResultsInv, OverlayMatchesTables
<1> QED
  BY <1>3, <1>4, <1>5 DEF ResultsInv

(* A table comes and the overlay is derived from what is there.            *)
LEMMA TableLoadedInv ==
    ASSUME ResultsInv, NEW t \in Tables, NEW r \in Runs, TableLoaded(t, r)
    PROVE  ResultsInv'
<1>1. t \in Kinds /\ t \in Things /\ Tables \subseteq Things /\ Receive(t, r)
  BY DEF Kinds, Things, TableLoaded
<1> DEFINE rows == [u \in Tables |-> results'[u]]
<1>2. /\ results' = [results EXCEPT ![t] = r]
      /\ sldOverlay' = [run_id |-> r, result_status |-> resultsIndex,
                        rows |-> rows]
      /\ UNCHANGED <<page, selectedRunId, resultsIndex, error>>
  BY DEF TableLoaded, Derived
<1>3. results' \in [Things -> MaybeRun] /\ results'[t] = r /\ r # NoRun
  BY <1>1, <1>2, ResultsAssumption DEF ResultsInv, ResultsTypeOK, MaybeRun
<1>4. rows \in [Tables -> MaybeRun]
  BY <1>1, <1>3
<1>5. sldOverlay' \in Overlays /\ sldOverlay' # NoOverlay
  BY <1>2, <1>4, OverlayAssumption DEF Overlays, ResultsInv, ResultsTypeOK
<1>6. ResultsTypeOK'
  BY <1>1, <1>2, <1>3, <1>5, ReceiveKeeps DEF ResultsInv, ResultsTypeOK
<1>7. OverlayMatchesTables'
  <2>1. sldOverlay'.rows = rows /\ sldOverlay'.run_id = r
    BY <1>2
  <2> QED
    BY <1>3, <1>5, <2>1 DEF OverlayMatchesTables
<1>8. SpinnersOwned'
  BY <1>1, ReceiveKeeps
<1> QED
  BY <1>6, <1>7, <1>8 DEF ResultsInv

(* Any other answer, or a failure, leaves tables and overlay alone.        *)
LEMMA OtherAnswerInv ==
    ASSUME ResultsInv, NEW w \in Kinds, NEW r \in Runs,
           \/ w = Index /\ IndexLoaded(r)
           \/ w \in {Snapshot, Trace} /\ ExtraLoaded(w, r)
           \/ LoadFailed(w, r)
    PROVE  ResultsInv'
<1>1. Receive(w, r) /\ UNCHANGED <<page, selectedRunId, sldOverlay>>
  BY DEF IndexLoaded, ExtraLoaded, LoadFailed
<1>2. resultsIndex' \in MaybeRun /\ error' \in BOOLEAN
  BY DEF IndexLoaded, ExtraLoaded, LoadFailed, ResultsInv, ResultsTypeOK,
     MaybeRun
<1>3. /\ results' \in [Things -> MaybeRun]
      /\ \A t \in Tables : results'[t] = results[t]
  <2>1. CASE w \in {Snapshot, Trace} /\ ExtraLoaded(w, r)
    <3>1. w \in Things /\ w \notin Tables
      BY <2>1, ResultsAssumption DEF Things
    <3>2. results' = [results EXCEPT ![w] = r]
      BY <2>1 DEF ExtraLoaded
    <3> QED
      BY <3>1, <3>2 DEF ResultsInv, ResultsTypeOK, MaybeRun, Things
  <2>2. CASE IndexLoaded(r) \/ LoadFailed(w, r)
    BY <2>2 DEF IndexLoaded, LoadFailed, ResultsInv, ResultsTypeOK
  <2> QED
    BY <2>1, <2>2
<1>4. ResultsTypeOK'
  BY <1>1, <1>2, <1>3, ReceiveKeeps DEF ResultsInv, ResultsTypeOK
<1>5. OverlayMatchesTables'
  BY <1>1, <1>3 DEF ResultsInv, OverlayMatchesTables
<1>6. SpinnersOwned'
  BY <1>1, ReceiveKeeps
<1> QED
  BY <1>4, <1>5, <1>6 DEF ResultsInv

(* The invariant is inductive.                                             *)
LEMMA StepInv == ResultsInv /\ [ResultsNext]_resultsVars => ResultsInv'
<1> SUFFICES ASSUME ResultsInv, [ResultsNext]_resultsVars
             PROVE  ResultsInv'
  OBVIOUS
<1>1. CASE UNCHANGED resultsVars
          \/ \E p \in MaybeRun \cup {Closed} : Show(p)
  <2>1. UNCHANGED <<selectedRunId, resultsIndex, results, sldOverlay,
                    isLoading, error, loads>>
    BY <1>1 DEF resultsVars, Show
  <2>2. page' \in MaybeRun \cup {Closed}
    BY <1>1 DEF resultsVars, Show, ResultsInv, ResultsTypeOK
  <2> QED
    BY <2>1, <2>2 DEF ResultsInv, ResultsTypeOK, OverlayMatchesTables,
       SpinnersOwned
<1>2. ASSUME NEW r \in Runs, SelectRun(r) PROVE ResultsInv'
  BY <1>2, SelectRunInv
<1>3. ASSUME NEW w \in Tables \cup {Snapshot}, Load(w) PROVE ResultsInv'
  BY <1>3, LoadInv DEF Kinds, Things
<1>4. CASE LoadTrace
  BY <1>4, LoadInv DEF Kinds, Things
<1>5. ASSUME NEW w \in Kinds, NEW r \in Runs, Answer(w, r)
      PROVE  ResultsInv'
  BY <1>5, TableLoadedInv, OtherAnswerInv DEF Answer
<1> QED
  BY <1>1, <1>2, <1>3, <1>4, <1>5 DEF ResultsNext

(* The types are right in every state of the page.                         *)
THEOREM ResultsTypeCorrect == ResultsSpec => []ResultsTypeOK
<1>1. ResultsInv => ResultsTypeOK
  BY DEF ResultsInv
<1> QED
  BY InitInv, StepInv, <1>1, PTL DEF ResultsSpec

(* The overlay on the diagram has the rows of the tables in the store and  *)
(* names a run of theirs, in whatever order answers come.                  *)
THEOREM OverlayFollowsTables == ResultsSpec => []OverlayMatchesTables
<1>1. ResultsInv => OverlayMatchesTables
  BY DEF ResultsInv
<1> QED
  BY InitInv, StepInv, <1>1, PTL DEF ResultsSpec

(* A spinner turns only while a request for its thing is in flight.        *)
THEOREM SpinnersHaveOwners == ResultsSpec => []SpinnersOwned
<1>1. ResultsInv => SpinnersOwned
  BY DEF ResultsInv
<1> QED
  BY InitInv, StepInv, <1>1, PTL DEF ResultsSpec

-----------------------------------------------------------------------------
(* What leaves the selected run.                                           *)

(* Only the answer of another run mixes what is shown.                     *)
LEMMA StepMixes ==
    ASSUME ResultsInv, [ResultsNext]_resultsVars, OneRun, ~OneRun'
    PROVE  \E w \in Things, r \in Runs \ {selectedRunId} :
              loads[w][r] > 0 /\ loads'[w][r] < loads[w][r]
<1>1. ASSUME UNCHANGED <<selectedRunId, results, sldOverlay>> PROVE FALSE
  BY <1>1 DEF OneRun
<1>2. ASSUME NEW r \in Runs, SelectRun(r) PROVE FALSE
  BY <1>2 DEF SelectRun, OneRun
<1>3. ASSUME NEW w \in Things, NEW r \in Runs,
             \/ w \in Tables /\ TableLoaded(w, r)
             \/ w \in {Snapshot, Trace} /\ ExtraLoaded(w, r)
      PROVE  \E q \in Runs \ {selectedRunId} :
                loads[w][q] > 0 /\ loads'[w][q] < loads[w][q]
  <2>1. /\ Receive(w, r) /\ w \in Kinds
        /\ results' = [results EXCEPT ![w] = r]
        /\ UNCHANGED selectedRunId
        /\ sldOverlay' = sldOverlay \/ sldOverlay'.run_id = r
    BY <1>3 DEF TableLoaded, ExtraLoaded, Derived, Kinds
  <2>2. loads[w][r] > 0 /\ loads'[w][r] < loads[w][r]
    BY <2>1, ReceiveKeeps DEF Receive
  <2>3. r # selectedRunId
    <3> SUFFICES ASSUME r = selectedRunId PROVE FALSE
      OBVIOUS
    <3>1. \A v \in Things : results'[v] \in {NoRun, selectedRunId}
      BY <2>1 DEF OneRun, ResultsInv, ResultsTypeOK
    <3>2. sldOverlay' # NoOverlay => sldOverlay'.run_id = selectedRunId
      BY <2>1 DEF OneRun
    <3> QED
      BY <2>1, <3>1, <3>2 DEF OneRun
  <2> QED
    BY <2>2, <2>3
<1>4. ASSUME \/ UNCHANGED resultsVars
             \/ \E p \in MaybeRun \cup {Closed} : Show(p)
             \/ \E w \in Tables \cup {Snapshot} : Load(w)
             \/ LoadTrace
             \/ \E w \in Kinds, r \in Runs :
                   IndexLoaded(r) \/ LoadFailed(w, r)
      PROVE  FALSE
  BY <1>1, <1>4 DEF resultsVars, Show, Load, LoadTrace, IndexLoaded,
     LoadFailed
<1> QED
  BY <1>2, <1>3, <1>4 DEF ResultsNext, Answer, Things

(* All that is shown is of the selected run, until a request that was sent *)
(* for another run is answered.                                            *)
THEOREM MixedByLateAnswers == ResultsSpec => MixedOnlyByLateAnswer
<1>1. ResultsInv /\ [ResultsNext]_resultsVars
         => [OneRun /\ ~OneRun' =>
               \E w \in Things, r \in Runs \ {selectedRunId} :
                  loads[w][r] > 0 /\ loads'[w][r] < loads[w][r]]_resultsVars
  BY StepMixes
<1> QED
  BY InitInv, StepInv, <1>1, PTL DEF ResultsSpec, MixedOnlyByLateAnswer

(* A header goes wrong with a late index, or after an error.               *)
LEMMA StepHeader ==
    ASSUME ResultsInv, [ResultsNext]_resultsVars,
           HeaderOfRun, ~HeaderOfRun', ~error
    PROVE  \E r \in Runs \ {selectedRunId} :
              loads'[Index][r] < loads[Index][r]
<1>1. HeaderShown' /\ resultsIndex' # selectedRunId'
  BY DEF HeaderOfRun
<1>2. ASSUME UNCHANGED <<selectedRunId, resultsIndex>>,
             isLoading'[Index] = isLoading[Index]
      PROVE  FALSE
  BY <1>1, <1>2 DEF HeaderOfRun, HeaderShown
<1>3. ASSUME NEW r \in Runs, SelectRun(r) PROVE FALSE
  <2>1. Index \in Kinds /\ isLoading'[Index]
    BY <1>3, SendKeeps DEF SelectRun, Kinds
  <2> QED
    BY <1>1, <2>1 DEF HeaderShown
<1>4. ASSUME NEW w \in Things, Load(w) \/ (w = Trace /\ LoadTrace)
      PROVE  FALSE
  <2>1. selectedRunId \in Runs /\ Send(w, selectedRunId)
    BY <1>4 DEF Load, LoadTrace, ResultsInv, ResultsTypeOK, MaybeRun
  <2>2. w \in Kinds /\ Index \in Kinds \ {w}
    BY ResultsAssumption DEF Kinds, Things
  <2>3. isLoading'[Index] = isLoading[Index]
    BY <2>1, <2>2, SendKeeps
  <2> QED
    BY <1>2, <1>4, <2>3 DEF Load, LoadTrace
<1>5. ASSUME NEW w \in Things, NEW r \in Runs,
             TableLoaded(w, r) \/ ExtraLoaded(w, r)
      PROVE  FALSE
  <2>1. w \in Kinds /\ Index \in Kinds \ {w}
    BY ResultsAssumption DEF Kinds, Things
  <2>2. isLoading'[Index] = isLoading[Index]
    BY <1>5, <2>1, ReceiveKeeps DEF TableLoaded, ExtraLoaded
  <2> QED
    BY <1>2, <1>5, <2>2 DEF TableLoaded, ExtraLoaded
<1>6. ASSUME NEW r \in Runs, IndexLoaded(r)
      PROVE  r # selectedRunId /\ loads'[Index][r] < loads[Index][r]
  <2>1. Index \in Kinds
    BY DEF Kinds
  <2> QED
    BY <1>1, <1>6, <2>1, ReceiveKeeps DEF IndexLoaded
<1>7. ASSUME NEW w \in Kinds, NEW r \in Runs, LoadFailed(w, r) PROVE FALSE
  BY <1>1, <1>7 DEF LoadFailed, HeaderShown
<1>8. ASSUME UNCHANGED resultsVars
                \/ \E p \in MaybeRun \cup {Closed} : Show(p)
      PROVE  FALSE
  BY <1>2, <1>8 DEF resultsVars, Show
<1> QED
  BY <1>3, <1>4, <1>5, <1>6, <1>7, <1>8 DEF ResultsNext, Answer, Things

(* The header on screen is that of the selected run, until an index comes  *)
(* late or an error is wiped away.                                         *)
THEOREM HeaderWrongOnlyThen == ResultsSpec => WrongHeaderOnlyLateOrFailed
<1>1. ResultsInv /\ [ResultsNext]_resultsVars
         => [HeaderOfRun /\ ~HeaderOfRun' =>
               \/ error
               \/ \E r \in Runs \ {selectedRunId} :
                     loads'[Index][r] < loads[Index][r]]_resultsVars
  BY StepHeader
<1> QED
  BY InitInv, StepInv, <1>1, PTL
     DEF ResultsSpec, WrongHeaderOnlyLateOrFailed
=============================================================================
