---------------------------- MODULE ResultsView ----------------------------
(***************************************************************************)
(* The results page (ui/results-inspector/ResultsInspectorPage.tsx) and    *)
(* its store (store.ts).  The page is given a run, selects it and loads    *)
(* what it lacks; answers come in any order, also those for the run that   *)
(* was selected before.  The diagram shows an overlay derived from the     *)
(* tables.  Of a table, an index or a trace the model keeps the run it is  *)
(* of; rows, tabs and filters are left out.                                *)
(***************************************************************************)
EXTENDS Naturals

CONSTANTS
    Runs,
    NoRun,
    Closed,         \* the results page is not on screen
    Tables,         \* the tables the overlay is derived from
    Snapshot,       \* the snapshot of the run
    Trace,          \* the trace of the run
    Index,          \* the index of its results
    NoOverlay,
    MaxLoads        \* bound: requests in flight for one thing of one run

ASSUME ResultsAssumption ==
    /\ {NoRun, Closed} \cap Runs = {} /\ NoRun # Closed
    /\ {Snapshot, Trace, Index} \cap Tables = {}
    /\ Snapshot # Trace /\ Snapshot # Index /\ Trace # Index
    /\ MaxLoads \in Nat \ {0}

VARIABLES
    page,           \* the run the page is given, NoRun, or Closed
    selectedRunId,
    resultsIndex,   \* the run the index is of, or NoRun
    results,        \* per table, snapshot or trace its run, or NoRun
    sldOverlay,     \* NoOverlay, or the overlay that was derived
    isLoading,      \* the spinners
    error,          \* the page shows an error and nothing else
    loads           \* requests in flight, per thing and run

Things == Tables \cup {Snapshot, Trace}
Kinds == Things \cup {Index}
resultsVars == <<page, selectedRunId, resultsIndex, results, sldOverlay,
                 isLoading, error, loads>>

MaybeRun == Runs \cup {NoRun}
Overlays == [run_id : Runs, result_status : MaybeRun,
             rows : [Tables -> MaybeRun]]
ASSUME OverlayAssumption == NoOverlay \notin Overlays

ResultsTypeOK ==
    /\ page \in MaybeRun \cup {Closed}
    /\ selectedRunId \in MaybeRun
    /\ resultsIndex \in MaybeRun
    /\ results \in [Things -> MaybeRun]
    /\ sldOverlay \in Overlays \cup {NoOverlay}
    /\ isLoading \in [Kinds -> BOOLEAN]
    /\ error \in BOOLEAN
    /\ loads \in [Kinds -> [Runs -> 0..MaxLoads]]

ResultsInit ==
    /\ page = Closed
    /\ selectedRunId = NoRun
    /\ resultsIndex = NoRun
    /\ results = [w \in Things |-> NoRun]
    /\ sldOverlay = NoOverlay
    /\ isLoading = [w \in Kinds |-> FALSE]
    /\ error = FALSE
    /\ loads = [w \in Kinds |-> [r \in Runs |-> 0]]

-----------------------------------------------------------------------------
(* The store.                                                              *)

(* A request is sent: its spinner turns and an old error goes away.        *)
Send(w, r) ==
    /\ loads[w][r] < MaxLoads
    /\ loads' = [loads EXCEPT ![w][r] = @ + 1]
    /\ isLoading' = [isLoading EXCEPT ![w] = TRUE]
    /\ error' = FALSE

(* The mutant leaves the spinner.                                          *)
Receive_Spins(w, r) ==
    /\ loads[w][r] > 0
    /\ loads' = [loads EXCEPT ![w][r] = @ - 1]
    /\ UNCHANGED isLoading
Receive(w, r) ==
    /\ loads[w][r] > 0
    /\ loads' = [loads EXCEPT ![w][r] = @ - 1]
    /\ isLoading' = [isLoading EXCEPT ![w] = FALSE]

(* buildDerivedSldOverlay.  The mutant takes no run.                       *)
Derived_NoRun(r, status, rows) ==
    [run_id |-> NoRun, result_status |-> status, rows |-> rows]
Derived(r, status, rows) ==
    [run_id |-> r, result_status |-> status, rows |-> rows]

(* selectRun.  One mutant keeps the overlay, one keeps the results.        *)
SelectRun_KeepsOverlay(r) ==
    /\ page = r /\ r # selectedRunId
    /\ selectedRunId' = r
    /\ results' = [w \in Things |-> NoRun]
    /\ Send(Index, r)
    /\ UNCHANGED <<page, resultsIndex, sldOverlay>>
SelectRun_KeepsResults(r) ==
    /\ page = r /\ r # selectedRunId
    /\ selectedRunId' = r
    /\ sldOverlay' = NoOverlay
    /\ Send(Index, r)
    /\ UNCHANGED <<page, resultsIndex, results>>
SelectRun(r) ==
    /\ page = r /\ r # selectedRunId
    /\ selectedRunId' = r
    /\ results' = [w \in Things |-> NoRun]
    /\ sldOverlay' = NoOverlay
    /\ Send(Index, r)
    /\ UNCHANGED <<page, resultsIndex>>

(* The mutant of IndexLoaded leaves a wrong header when only the selected  *)
(* run has answered.                                                       *)
IndexLoaded_KeepsFirst(r) ==
    /\ Receive(Index, r)
    /\ resultsIndex' = IF resultsIndex = NoRun THEN r ELSE resultsIndex
    /\ UNCHANGED <<page, selectedRunId, results, sldOverlay, error>>
IndexLoaded(r) ==
    /\ Receive(Index, r)
    /\ resultsIndex' = r
    /\ UNCHANGED <<page, selectedRunId, results, sldOverlay, error>>

(* The run of the request labels the overlay; the status and the other     *)
(* tables are those the store holds when the answer comes.                 *)
TableLoaded(t, r) ==
    /\ Receive(t, r)
    /\ results' = [results EXCEPT ![t] = r]
    /\ sldOverlay' =
          Derived(r, resultsIndex, [u \in Tables |-> results'[u]])
    /\ UNCHANGED <<page, selectedRunId, resultsIndex, error>>

ExtraLoaded(w, r) ==
    /\ Receive(w, r)
    /\ results' = [results EXCEPT ![w] = r]
    /\ UNCHANGED <<page, selectedRunId, resultsIndex, sldOverlay, error>>

LoadFailed(w, r) ==
    /\ Receive(w, r)
    /\ error' = TRUE
    /\ UNCHANGED <<page, selectedRunId, resultsIndex, results, sldOverlay>>

-----------------------------------------------------------------------------
(* The page and its effects.                                               *)

(* Another address, a run that ended, or another page.                     *)
Show(p) ==
    /\ page' = p
    /\ UNCHANGED <<selectedRunId, resultsIndex, results, sldOverlay,
                   isLoading, error, loads>>

(* The effects ask for what is missing once there is an index, of any run, *)
(* and ask again when something else has come.                             *)
Load(w) ==
    /\ page # Closed /\ selectedRunId # NoRun
    /\ resultsIndex # NoRun
    /\ results[w] = NoRun
    /\ Send(w, selectedRunId)
    /\ UNCHANGED <<page, selectedRunId, resultsIndex, results, sldOverlay>>

(* The effect of the trace needs no index.                                 *)
LoadTrace ==
    /\ page # Closed /\ selectedRunId # NoRun
    /\ results[Trace] = NoRun
    /\ ~isLoading[Trace]
    /\ Send(Trace, selectedRunId)
    /\ UNCHANGED <<page, selectedRunId, resultsIndex, results, sldOverlay>>

Answer(w, r) ==
    \/ w = Index /\ IndexLoaded(r)
    \/ w \in Tables /\ TableLoaded(w, r)
    \/ w \in {Snapshot, Trace} /\ ExtraLoaded(w, r)
    \/ LoadFailed(w, r)

ResultsNext ==
    \/ \E p \in MaybeRun \cup {Closed} : Show(p)
    \/ \E r \in Runs : SelectRun(r)
    \/ \E w \in Tables \cup {Snapshot} : Load(w)
    \/ LoadTrace
    \/ \E w \in Kinds, r \in Runs : Answer(w, r)

ResultsSpec == ResultsInit /\ [][ResultsNext]_resultsVars

-----------------------------------------------------------------------------
(* Correctness.                                                            *)

(* The overlay on the diagram never lags behind the tables beside it: it   *)
(* has the rows of the tables in the store, there is none without a table, *)
(* and the run it names is one of theirs.                                  *)
OverlayMatchesTables ==
    /\ sldOverlay = NoOverlay <=> \A t \in Tables : results[t] = NoRun
    /\ sldOverlay # NoOverlay =>
          /\ sldOverlay.rows = [t \in Tables |-> results[t]]
          /\ \E t \in Tables : results[t] = sldOverlay.run_id

(* A spinner turns only while a request for its thing is in flight, so it  *)
(* stops with the next answer or failure, of whatever run.                 *)
SpinnersOwned ==
    \A w \in Kinds : isLoading[w] => \E r \in Runs : loads[w][r] > 0

(* All that is shown is of the selected run, until a request that was sent *)
(* for another run is answered.                                            *)
OneRun ==
    /\ \A w \in Things : results[w] \in {NoRun, selectedRunId}
    /\ sldOverlay # NoOverlay => sldOverlay.run_id = selectedRunId
MixedOnlyByLateAnswer ==
    [][OneRun /\ ~OneRun' =>
          \E w \in Things, r \in Runs \ {selectedRunId} :
             loads[w][r] > 0 /\ loads'[w][r] < loads[w][r]]_resultsVars

(* The header on screen is that of the selected run, until the index of    *)
(* another run comes late, or the request for the index fails and another  *)
(* request wipes the error away.                                           *)
HeaderShown == ~error /\ ~isLoading[Index] /\ resultsIndex # NoRun
HeaderOfRun == HeaderShown => resultsIndex = selectedRunId
WrongHeaderOnlyLateOrFailed ==
    [][HeaderOfRun /\ ~HeaderOfRun' =>
          \/ error
          \/ \E r \in Runs \ {selectedRunId} :
                loads'[Index][r] < loads[Index][r]]_resultsVars

(* docs/ui/SLD_SHORT_CIRCUIT_BUS_CENTRIC.md:489 forbids results of several *)
(* cases in one overlay, and store.ts:185 clears what is cached of the run *)
(* before.  A table that comes late, of a run of another case, is merged   *)
(* into the overlay with the tables of the run selected now.               *)
OverlayOfOneRun ==
    sldOverlay # NoOverlay =>
        \A t \in Tables : sldOverlay.rows[t] \in {NoRun, sldOverlay.run_id}
=============================================================================
