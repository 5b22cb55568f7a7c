# MV-Design-PRO in TLA+

MV-Design-PRO is a design tool for medium-voltage networks: a FastAPI backend
(`mv-design-pro/backend`) keeps an Energy Network Model (ENM) per study case, a
React frontend (`mv-design-pro/frontend`) edits it through *domain operations*
and asks for short-circuit and power-flow analyses.  These modules specify the
part of it that several actors touch at once, check it with TLC and prove its
central properties with TLAPS.  Paths below are relative to `mv-design-pro/`
unless they start with a directory of the backend (`enm/`, `api/`,
`application/`, `domain/`: under `backend/src/`) or of the frontend (`ui/`: under
`frontend/src/`).

## 1. The system

### 1.1 Components, their state and operations

| Component | State | Operations | What makes it correct |
|---|---|---|---|
| ENM store (`enm/store.py`, `enm/hash.py`) | one dictionary in memory: case -> model with revision, content, header hash | `get_enm` (creates), `set_enm`, reset | header hash names exactly the stored model; revision grows; no update lost |
| Domain-ops endpoint (`api/enm.py`) | none of its own | base-hash check, catalog policy, handler, persistence | compare and swap: an edit applies to the model its author saw, or not at all |
| Operation handlers (`enm/domain_operations.py`, `_v2`, `topology_ops.py`) | none: functions on a model | 14 canonical operations and their V2 extension | references between elements stay valid; an error changes nothing |
| Frontend snapshot store (`ui/topology/snapshotStore.ts`, `domainApi.ts`) | snapshot on screen, loading, error | execute, refresh, reset, and the continuations of their promises | shows the active case; never contradicts the backend; spinner stops |
| Canonical runs (`enm/canonical_analysis.py`, `api/execution_runs.py`, `api/power_flow_runs.py`) | table of runs, index by case | create, execute, both at once, queries | result belongs to the run's snapshot; status only moves forward |
| Study cases (`domain/study_case.py`, `application/study_case`, case repository) | SQL rows: active flag, result status, configuration | create, clone, activate, configure, mark fresh or outdated | one active case per project; no outdated result called fresh |
| Execution engine and batches (`application/execution_engine`, `batch_execution_service.py`) | runs and batches in memory | create, start, complete, fail; run a batch step by step | legal life cycle; a batch accounts for every run it made |
| Analysis-run service and dispatch (`application/analysis_run`, `analysis_dispatch`) | SQL rows | create, execute, invalidate | as for the canonical runs |
| Snapshots and action envelopes (`application/snapshots`, `network_model/core`) | chain of immutable snapshots | apply an action, append | a chain without gaps |
| Fault scenarios, archives, catalog governance, wizard, proof documents, reports, import | rows or files | storage, transformation | mostly input/output and pure functions |
| Application state and case handlers (`ui/app-state/store.ts`, `App.tsx`, `ui/case-manager`, `SldEditorPage.tsx`) | case, run and mode in focus; address and route; chains of awaited requests | create, activate, calculate, navigate, reload | one focus: the run on screen belongs to the case on screen and was executed |
| Run store (`ui/study-cases/runStore.ts`) | current run, its status, busy flags | create and execute a run, load the runs | the status shown is that of the run shown; no flag stays set |
| Results inspector (`ui/results-inspector`) | selected run, index, tables, overlay, spinners | select a run, load, receive late | what is shown is of one run; the overlay follows the tables |
| Undo history (`ui/history`) | undo and redo stack, open transaction | push, undo, redo, transactions, clear | undo restores exactly the previous document; the stacks stay bounded |
| Power-flow and protection inspectors, selection, editor and layout stores | local state | user actions, continuations of requests | as for the results inspector |
| Solvers (`network_model/solvers`) | none | floating-point algorithms | numerical accuracy |

### 1.2 How they interact

A tab posts a domain operation with the hash of the snapshot it shows.  The
endpoint is an `async` function without a single `await`, so the event loop runs
it from start to end: two requests never interleave there.  It calls `get_enm`,
compares the hash, computes a new model and calls `set_enm`.  The endpoints that
create and execute runs are plain functions: FastAPI runs them in threads of a
pool, at the same time as each other and as the event loop.  `create_run` calls
`get_enm` too; that is how a thread and the event loop meet in `_enm_store`.
Only `domain_ops` writes edits in production: the other four routes that call
`set_enm` are removed from the production router (`api/enm.py:708-727`).

The study cases live in a SQL database, SQLite by default (`api/main.py:53`) and
PostgreSQL under `docker-compose.yml`.  Their endpoints run in the thread pool as
well, each with a unit of work of its own: the repository reads and writes
through an ORM session and commits; an exception rolls back.  They meet the
other components through identifiers only.

### 1.3 What is hard

* the membership test and the insertion of `get_enm`, with a thread switch between them;
* a base hash compared with one object while another is stored;
* answers lost, repeated, or arriving in another order than their requests, and a
  user who changes the case meanwhile;
* restarts, which lose the store while clients keep hashes of the old one;
* runs as shared mutable objects that several threads execute;
* transactions that deactivate some rows and activate another, beside others that
  read a row early and write it late;
* chains of awaited requests that end in a focus nobody has any more, and flags
  that the next answer of some chain must clear;
* tables of one run that arrive under another;
* a model edited by operations that each keep lists, references and computed
  identifiers consistent by hand, over sequences nobody wrote a test for;
* undo and redo that capture a command before an await and move whatever is on
  top of the stack after it.

`PROJECT.json` lists such hazards at their lines, with the properties that cover
them or the reason why none does yet.  Two more of that second kind:
`list_runs_for_project` (`canonical_analysis.py:115`) iterates over a dictionary other
threads insert into, and `mark_case_fresh` (`case_repository.py:345`), which no route
calls, sets `FRESH` whatever happened to the model meanwhile.

In the frontend every store is a module-level object and every handler an
`async` function: between two awaits it runs alone, and at each await any other
handler, user action or answer may come in.  No handler aborts its requests
when its reason has gone.  `App.tsx` owns the address (`location.hash`), the route on
screen follows it with the next event, the mode follows the route in an effect.
The app state is what the pages share: case, run and mode in focus.  The case
manager and the editor page write the case, `handleCalculate` the run, the
results page reads the run and fills the results store from it.

## 2. The modules

| Module | Models |
|---|---|
| `EnmModel` | the model of a case, its hash, the two halves of `set_enm`, the base check; a domain operation is a function `Effect` on abstract contents |
| `EnmStore` | the shared store: event loop, pool threads, one action per access to the dictionary, restarts |
| `EnmRegister` | what the endpoint promises: a versioned register per case, compare and swap, at most once |
| `SnapshotSync` | tabs, HTTP, the endpoint as one atomic step; refines `EnmRegister` |
| `CanonicalRuns` | creation and execution of runs, composed with `EnmStore` (it extends it and interleaves its actions) |
| `StudyCases` | the table of study cases under concurrent transactions: the active flag and the result status |
| `CaseSession` | case, run and mode in focus in one tab, the run store and the handlers that drive them as chains of requests |
| `ResultsView` | the results page and its store: one request per table, answers in any order, the derived overlay |
| `LinearHistory` | what undo and redo promise: one line of documents |
| `UndoHistory` | the undo history with its asynchronous calls and transactions; refines `LinearHistory` for callers that wait |
| `Topology` | the network of one case and the domain operations that build, split, switch, update and delete in it |
| `MC...` | finite contents and operations, or symmetry, for TLC |
| `EnmStore_proofs`, `SnapshotSync_proofs`, `CanonicalRuns_proofs`, `StudyCases_proofs`, `CaseSession_proofs`, `ResultsView_proofs`, `UndoHistory_proofs`, `Topology_proofs` | theorems about the module of that name; the lemmas about `EnmModel` are in the first two |

`EnmStore` and `CanonicalRuns` are one composition, `SnapshotSync` is the same endpoint
seen from the browser, one step per request.  The frontend modules meet the
backend through requests only: `CaseSession` keeps of it the cases and runs that
exist, `ResultsView` which run an answer is of.  `Topology` opens what the others keep
abstract: its state is a content of `EnmModel`, its actions are operations on which
`Effect` is defined.  An operation that is refused leaves the content alone, as
`Execute` has it.

### 2.1 EnmModel

A content stands for everything in a model but its header.  `HashOf` is a
perfect SHA-256: the triple of what `compute_enm_hash` keeps, that is the name in the
header, the revision and the content; element identifiers and time stamps are
excluded by the code and have no counterpart.  The name is all of the case that
is hashed, and `get_enm` makes it of the first eight characters of the identifier:
`HeaderName` says which name a case has.  In the runs all cases share one, so that a hash
of one case may be that of another.
`Execute` is `Effect[content, operation]`; `OpError` stands for every refusal: an
error of the handler, an exception, the catalog policy, a snapshot that
fails validation.  `SameAsStored` and `NextEnm` are the two halves of `set_enm`,
`NoHash` is the empty `snapshot_base_hash`.  The one assumption about operations
is that `refresh_snapshot` changes nothing.

### 2.2 EnmStore

`pc[p]` is the line a process stands at: `get` (before the membership test),
`insert`, `fetch` (before the return), `got` (in its caller), `set` and `put` (in
`set_enm`).  The actions `GetEnmTest`, `GetEnmInsert`, `GetEnmReturn` are the three
accesses of `get_enm`; `DomainOpsFetch` is the return of `get_enm` to `domain_ops` with
the checks and the handler, which touch no shared state; `SetEnmCompare` and
`SetEnmStore` are the read and the write of `set_enm`.  The return and the hash check
are one action because the object that is returned is never modified in place.
`StartRead` and `EndRead` are a handler in a thread as the store sees it.
`Restart` empties the store and ends every handler.  `seen`
collects the hashes clients were given; they may come back at any time, also
after a restart.

### 2.3 SnapshotSync and EnmRegister

`ExecuteDomainOperation` and `refreshFromBackend` are one action (the refresh is
one of `Ops`), as both send the hash on screen; `OpenCase` is the effect of
`SldEditorPage`: reset, then a refresh without base.  `Refuse`, `Confirm` and `Commit`
are the three ways through `domain_ops`: 409, 422 or an error; unchanged content;
a new revision.  Requests and responses are sets, so the network reorders;
`LoseRequest` and `LoseResponse` turn into the rejected promise a browser reports.
`requests` carry a number, which tells two identical requests apart and is not
part of what the backend sees.  `applied` is a history variable for
`EnmRegister`: the register allows a request to enter it once, and only together
with exactly one new revision of the model.

### 2.4 CanonicalRuns

`step[p]` is the position in a run handler.  `_runs` and `_case_runs` are written by
`CreateRun` and `AppendRun`; the status test, the assignment of `RUNNING`, the
result, the traces and the final status are one action each.  `PostRunNow` is the
combined endpoint in the event loop, which calls `get_enm` twice (`Precheck`,
`CreateRun`).  The two traces are assigned one after the other (`WriteTrace`,
`WriteReport`), so that a run which fails in between keeps the first.  A result is
represented by the content it was computed from, so that "the right result" can be
stated.  Validator, solver and trace builders are deterministic; `Valid`,
`Solvable`, `Traceable` and `Reportable` say where they succeed.  The two analysis
types differ only in what they compute.

### 2.5 StudyCases

`rows` is the committed table; `step[p]` is the statement a thread stands at, `job[p]`
its request with the row it has read, and `cleared[p]` the rows it has deactivated
and not committed.  A request whose transaction is one statement (`CreateCase`,
`CloneCase`, `MarkAllOutdated`, `DeleteCase`) is one action.  `set_active_case` is
`SetActiveCase` and `Activate`, or `ActivateMissing` when the case is gone; a creation
with `set_active` is `CreateActive` and `Insert`.  `update_case` reads a row
(`GetForUpdate`), and `update_study_case` reads it again (`Reread`), deactivates the
others if the case was deactivated in between (`DeactivateOthers`) and writes at the
commit (`Flush`).  The ORM writes the columns that differ from its own second
read, so what the service had read earlier is written back where it differs:
that is what `Changed` and `Written` say.  `Fail` is an exception anywhere, a lock that
takes too long for example.

`Exclusive` is SQLite: a thread that has executed a write keeps every other write
waiting until it commits, while reads never wait.  Its negation is PostgreSQL at
its default isolation: a write waits for the rows another transaction has
written.  A statement that waits is modelled as not executed yet, so what it sees
is what is committed when it gets its turn.

A request to activate a case may name any project, as the code does not
compare the two.  `crossed` is a history variable: the projects in which the last
activation was one of a request that named another project.  `Commit`
enters a project there, and takes the project of the request out.

Identifiers are never reused (`DeletedRow`).  Names, configurations, result
references and time stamps are not in `Rows`; a change of them is an `update_case`
that writes neither flag nor status.  `mark_case_fresh` is modelled although no route
calls it today.  `update_protection_config` is not: it calls `save_study_case`, which
the repository does not have (`application/study_case/service.py:544`), so it always
raises and rolls back.

### 2.6 CaseSession

A handler is a *chain*: its kind, the case and the run it is about, the request
it waits for, and whether the backend has served that request.  `Start` is the part
before the first await, `ServeCase` and `ServeRun` are the backend, and the actions of
`Resume` are the parts after an await: `CaseAnswered`, `CaseListed` (the case in focus is
set after the list was loaded again), `RunCreated`, `RunExecuted`, `RunsLoaded` (the run
in focus is set, and the address goes to the results), and the two failures.  A
request may fail before or after it was served.  `GiveUp` is the timeout of 15 s
after which the editor page forgets its first case while the store goes on.

`HashChange` is the `hashchange` event with the effect of `App` that sets the mode.
The modes it sets are the three that `App` derives: results, case configuration, and the editor
for every other address.  Setting the mode or the case clears the run in focus as
`app-state/store.ts` does.  `Reload` keeps the case in focus and nothing else, as
the persisted part of the app state; requests that were sent still reach the
backend, but no chain waits for them, which the model shows by dropping the chain.

Guards are those of the code, also where they are weak: a double click
activates while another activation runs, the Enter key creates while a creation
runs, the menu calculates without asking `useCanCalculate`.  The checks of
`hooks.ts` before a calculation are left out, so the model allows more.  The
lists of cases and runs that the stores cache and the `activeCase` of the
study-case store, which no page reads, are left out.  The model assumes that
this store knows its project; in the code `setProjectId` has no caller, so today
`activateCase` always throws and the list is never loaded.

### 2.7 ResultsView

`results[w]` is the run whose table (or snapshot, or trace) the store holds.
`SelectRun` is `selectRun` up to its await: it clears what is cached, but not the
index.  `IndexLoaded`, `TableLoaded`, `ExtraLoaded` and `LoadFailed` are the
continuations; none of them asks whether its run is still selected.  `TableLoaded`
derives the overlay: labelled with the run of the request, filled with the
tables the store holds by then.  `Show` changes the run the page is given or closes
it, `Load` and `LoadTrace` are its effects, with their guards.  `MaxLoads` bounds the
requests in flight for one thing of one run.

Two facts to read off the actions.  When the first index fails and a trace arrives
later, the error is wiped away and the page waits for an index nobody asks
for.  And the overlay stays when the case in focus changes: only `selectRun`
clears it.  The stores of the power-flow and protection results are written
after the same pattern.

### 2.8 UndoHistory and LinearHistory

A command is the list of fields it writes, with old and new values; a transaction
becomes the concatenation of its commands, as the composite of `commitTransaction`
does.  A composite is reverted command by command from the last, but a batch edit
reverts its own parts forwards: `RevertOrders` are the orders in which the writes to
one field come last first, and the others as they may.  `Begin` is a call up to its
first await and captures the command; `Write` is one `applyFn`; `End` is the code
after the last await, which moves *whatever is on top of the stack by then*;
`Reject` is an `applyFn` that throws, after which nothing takes back what was
written.  `commitTransaction` is not awaited by `beginTransaction`, and `clear` does
not stop a call in flight.

`disturbed` is a history variable: some caller did not wait for the previous call,
pushed a command made for another document, or a call failed half-way.  `MaxStacked`
bounds the stacks once that has happened; until then the limit of the code does.
Commands that are pushed inside a transaction become stale when the user
undoes meanwhile; the refinement treats this as a broken rule as well.  Today
nothing in the running application pushes to the history, while the undo and
redo buttons are live; the property grid is written to push.  `merge` has no
caller.

### 2.9 Topology

The variables are the collections of a model that carry its topology, each as the
handlers need it: `buses`, `substations`, `bays` and `corridors` are lists, because the
code asks for their first element or may store one identifier twice; `branches`,
`transformers`, `sources` and `branchPoints` are functions of the identifier.  An identifier is
the tuple of what the code hashes (`_compute_seed`), so that the same operation on the
same elements yields the same identifier, which the next operation may find taken
(`Free`; `create_node` and `create_branch` refuse it) or may make again after a deletion.

Each handler is an action with every change it makes.  `AddGridSource` hashes
`catalog_ref` and `voltage_kv` (`Supplies`) into four identifiers, so that a source
which is deleted and added again may bring a second corridor.  `ContinueTrunk`,
`ConnectRing` and the three forms of `start_branch_segment_sn` (a bus, a station, a
port of a branch point, as `_resolve_branch_from_ref` tells them apart) add lines;
`TrunkEnd` is `_auto_detect_trunk_end`.  `InsertStation`, `InsertBranchPoint` and
`InsertSectionSwitch` split a segment: its halves get its identifier with a suffix,
take its place in a corridor, and are closed.  A branch point edits the first
corridor that lists the segment (`Lister`); a station and a section switch take the
identifier of that one and then the first corridor with this identifier
(`NamedLister`).  The low-voltage bus and the transformer of a station go to the
first substation that has its identifier (`WithStation`), which may be an older one
than the new entry.  `InsertSectionSwitch` keeps that the handler ignores which of
its three branches were refused.  `DeleteElement` is the cascade of
`delete_element`, `DeadBranches` to `CleanPoint` are its loops.

`update_element_parameters` replaces any key but `ref_id`, `id` and `type`, and checks the
keys of branches, transformers, branch points and generators only.  `SetStatus`, `SetLength`,
`SetPorts` and `SetOccupied` are what its lists of allowed keys leave of the topology
there (a length may be set to none, which makes the next split refuse a half);
`SetCorridorType` and `SetNoPoint` write a corridor.  `RewriteSource`, `RewriteStationBuses`,
`RewriteStationTransformers`, `RewriteBay` and `RewriteSegments` write references that nothing
checks, to elements of the model or to none (`Foreign`).  The history variable
`rewritten` holds the collections in which this has happened: a promise about the references
of such a collection ends there, and every other promise goes on.  A request that writes
several keys is as many steps.  An update that writes into a list something that is
no reference fails the validation of the model and changes nothing.

The port of a ZKSN is taken as its number; its identifier only names it in requests.
Left out are the station's SN bays but one, its coupler and the further low-voltage
feeders, which are bays like those modelled, and the through ports of a branch
point.

`Minus` is a Python list without what the cascade deletes, `WithoutRef` the `del` of the first
element that has the identifier (a second one with the same identifier stays),
`Without` what `delete_branch` keeps, and `NoRef` is None.  They are recursive
functions and constructors, not RECURSIVE operators, so that the proofs can use
them.

The ports of a branch point name buses as well, and `delete_element` does not look at them:
a port may name a bus that is gone, and `EndsExist` says nothing of ports.

## 3. The runs

| Run | Instance | Result |
|---|---|---|
| `runs` | 1 case, 2 threads and the loop, contents 0..3, revisions up to 3, 1 restart, 1 run, fairness | `RunsTypeOK`, `HeaderHashCurrent`, `ResultOfOwnSnapshot`, `FinishedIsComplete`, `RunsListed`, `AuthorSawBase`, `SettledNeverLosesUpdates`, `RunSettles` hold |
| `enm_store_revision` | 1 case, 1 thread | `RevisionMonotone` fails: finding 1 |
| `runs_status` | 1 run, 2 threads | `TerminalIsFinal` fails: finding 3 |
| `sync` | 2 cases, 2 tabs, 3 requests, 1 restart, fairness | `SyncTypeOK`, `SnapshotsLag`, `GuardedRetryAppliedOnce`, `RefinesRegister`, `SpinnerStops` hold |
| `sync_focus` | 2 cases, 3 requests | `SnapshotOfActiveCase` fails: finding 2 |
| `study_cases` | 3 cases, 2 projects, 2 threads (symmetric), one writer, any project in a request | `CasesTypeOK`, `OneActive`, `ActiveCaseKept` hold |
| `study_cases_row_locks` | 2 cases, 1 project, 2 threads, row locks | `OneActive` fails: finding 4 |
| `session` | 2 cases, 2 runs, 2 chains (all symmetric) | `SessionTypeOK`, `FocusedRunExecuted`, `FlagsOwned`, `NoStrayRun`, `FocusLostOnlyByOtherCase`, `StatusLostOnlyByOtherRun` hold |
| `results` | 2 runs, 2 tables (symmetric), 1 request per thing and run | `ResultsTypeOK`, `OverlayMatchesTables`, `SpinnersOwned`, `MixedOnlyByLateAnswer`, `WrongHeaderOnlyLateOrFailed` hold |
| `results_mix` | the same | `OverlayOfOneRun` fails: finding 5 |
| `history` | 2 fields, 2 values, limit 2, 2 calls, 2 parts | `HistoryTypeOK`, `StacksFit`, `StacksBounded`, `RefinesLinearHistory` hold |
| `topology` | 6 operations, an update for two, 6 buses, 2 supplies, 1 closing segment, cables of one length, 2 positions, lists of 2 | `NetworkIntact`, `TrunkStaysChain`, `RefsLostOnlyBySplit` hold |

Bounds.  A content is a number of trunk segments: `extend` and `delete` make
contents come back under another revision, which is what the hash has to tell apart,
and each is an error at one end.  Three revisions are enough for a write based on a
model that was replaced twice; two threads are enough for a race between threads,
and with the loop for a race of three.  Three requests let a tab open a case, make
an edit, lose the answer and repeat it, or let the other tab edit in between; that a
model also comes back to an earlier content takes a fourth one and is left to the
theorems, which bound neither.  Two restarts would only repeat what one does,
because every hash of an earlier incarnation stays in `seen`.  Three cases let one
be active, one be activated and one be created or deleted beside them, and the
second project shows that nothing leaks into it; identifiers run out, but updates
and activations go on for ever.  Two cases and two chains are enough for a chain
that ends under the case of the other; two runs for an answer of the run selected
before; two tables for an overlay of two runs.  A limit of two lets the history drop
its oldest command and go on, and one field that is only ever set goes back by undo
alone. The run `runs` has one run and two threads that execute it; several runs at
once are covered by the theorems.  Six operations build a source, two segments and a
station or a branch point, delete what they hang on, and make it again; six buses
hold a station and a trunk beside it.  One of the two positions is the far end of a
segment, where a half has no length. With one medium a branch point is a ZKSN, here
with one port; a branch pole differs in its suffix and in the ports that may be
used.  A station is built bare, with a transformer and a branch field, or with a
transformer and a feeder.  Two supplies let the source come back with other
identifiers, and beside it a second corridor; they are symmetric.  Requests name no
trunk, which is then the first corridor.  An update costs two of the six operations:
four that build are left beside one update and two beside two, enough for a trunk of
segments that is rewritten, split and deleted; the lists it writes have up to two
elements. The theorems have none of these bounds.  Deadlock is not checked where the
number of requests or operations is bounded (`SnapshotSync`, `Topology`): when all
were sent and answered the tabs rest.  It is checked in every other run.

Fairness.  `FairSyncSpec`: for each request, that the server answers it and that
its promise settles (the endpoint has no blocking call; `fetch` always settles).
No user action, loss or restart is fair.  `FairRunsSpec`: each process whose
handler started goes on, as the operating system schedules every thread; no
request and no restart is fair.  `CaseSession`, `ResultsView` and `UndoHistory` state no
fairness: their liveness hazards are stated as safety, every flag or spinner
that is set has a request in flight whose answer or failure clears it
(`FlagsOwned`, `SpinnersOwned`).

### Findings

1. `get_enm` (`enm/store.py:13-21`) can replace an edited model by the default
   one: the revision falls back to 1 and the edit is lost, although
   `docs/spec/ENERGY_NETWORK_MODEL.md:37` calls it monotonically growing.
   `SettledNeverLosesUpdates` says how far the damage goes: only cases that a thread
   is creating at that moment.
2. A late answer for the previous case replaces the snapshot of the active one
   (`snapshotStore.ts:172`).  `SnapshotsLag` shows that the tab still
   never shows a state the backend did not have.  An edit goes to the case its
   request names, and the base hash stops it only if name, revision or
   content differ.
3. A final run can be set back to `RUNNING` by a second execution
   (`canonical_analysis.py:176-179`).  `FinishedIsComplete` and `ResultOfOwnSnapshot`
   show that its result survives.
4. Under PostgreSQL two requests that create an active case commit both
   (`case_repository.py:149`): each deactivates the cases it finds, and no unique index
   backs the invariant of `domain/study_case.py:183`.  From then on
   `get_active_study_case` raises, because `scalar_one_or_none` finds two rows.
5. A table of the run selected before, arriving late, is merged into one overlay
   with the tables of the run selected now (`results-inspector/store.ts:256`), also
   when they are of different cases, which
   `docs/ui/SLD_SHORT_CIRCUIT_BUS_CENTRIC.md:489` forbids.  `MixedOnlyByLateAnswer` shows
   that this is the only way: a comparison with `selectedRunId` after the await
   would be a complete repair.

Further facts the model shows without a run of their own.  `idempotency_key` is
never read (`api/enm.py:631`) although `docs/ui/KONTRAKT_OPERACJI_ENM_OP.md:40` promises
single execution; `GuardedRetryAppliedOnce` shows that the base hash stands in for
it, except for requests sent before the first snapshot.  A refresh carries the
stale hash (`snapshotStore.ts:202`) and is refused exactly when it is needed.  A
calculation that was started for one case puts its run into focus beside another
case (`FocusLostOnlyByOtherCase` states when), and of two calculations that overlap
the one that ends last writes its status over that of the run on the panel
(`StatusLostOnlyByOtherRun`).  `redo` appends to the undo stack without looking at the
limit; `StacksBounded` holds all the same for callers that wait, because what
can be redone was undone before.  Deleting the active case never clears the case
in focus.

Some about `Topology`, each found by TLC as a counterexample to a stronger property.
Splitting the segment that is the normal open point closes both halves and leaves
`no_point_ref` at a segment that is gone (`docs/spec/SPEC_CHAPTER_04_LINES_CABLES_SN.md`
wants it to name the open element).  `set_normal_open_point` never closes the previous
open point, although rule 5 of `docs/domain/ENM_OP_CONTRACTS_CANONICAL_FULL.md:979` says so.
Deleting the bus of the grid source takes the source with it but neither its
substation nor the corridor, because `delete_element` asks a substation for `bus_ref`
while the schema has `bus_refs`; the source can then be added again under the same
identifiers, and both lists hold an entry twice.  A section switch at an end of a
segment, or one inserted again where an earlier one left its halves, loses a part
without an error while the corridor lists it; the trunk is then continued from the
first bus of the model.  A branch that starts at a station without a branch field
starts at its low-voltage bus.  The bus of an occupied port can still be used as
`<bus>.BRANCH`, which does not look at `branch_occupied`.

And two about `StudyCases`.  The exception in
`ActiveCaseKept` (`WritesBackInactive`) is needed: a rename that read a case before it
was activated writes `is_active = False` back and leaves the project without an
active case.  And activating a case under the identifier of another project
deactivates that project's cases and makes the case a second active one of its
own, which takes one thread: the exception for `crossed` in `OneActive` and
`ActivatesElsewhere` in `ActiveCaseKept` say exactly that.  The next activation in the
project ends it.

## 4. The proofs

The theorems hold for every set of cases, contents, operations, threads, tabs and
run identifiers, for every number of chains, calls, tables and fields, and for every
length and position of a segment; `MaxRevision`, `MaxEpoch`, `MaxRequests`,
`MaxRestarts`, `MaxLoads`, `MaxParts`, `MaxStacked`, `MaxListed`, `MaxBuses`,
`MaxRings` and `MaxOps` are arbitrary in them, so no bound of section 3 is left.

| Theorem | States |
|---|---|
| `StoreTypeCorrect` | `StoreSpec => []StoreTypeOK` |
| `HeaderHashCorrect` | `StoreSpec => []HeaderHashCurrent` |
| `GuardedWritesCorrect` | `StoreSpec => AuthorSawBase` |
| `NoLostUpdates` | `StoreSpec => SettledNeverLosesUpdates` |
| `SyncTypeCorrect` | `SyncSpec => []SyncTypeOK` |
| `SyncImplementsRegister` | `SyncSpec => RefinesRegister` |
| `SnapshotsLagTheorem` | `SyncSpec => []SnapshotsLag` |
| `GuardedRetryTheorem` | `SyncSpec => []GuardedRetryAppliedOnce` |
| `RunsTypeCorrect` | `RunsSpec => []RunsTypeOK` |
| `ResultsOfOwnSnapshot` | `RunsSpec => []ResultOfOwnSnapshot` |
| `FinishedRunsComplete` | `RunsSpec => []FinishedIsComplete` |
| `RunsAreListed` | `RunsSpec => []RunsListed` |
| `RunsLoseNoUpdates` | `RunsSpec => SettledNeverLosesUpdates` |
| `CasesTypeCorrect` | `CasesSpec => []CasesTypeOK` |
| `AtMostOneActive` | `CasesSpec => []OneActive`, if `Exclusive` |
| `ActiveCasesAreKept` | `CasesSpec => ActiveCaseKept`, if `Exclusive` |
| `SessionTypeCorrect` | `SessionSpec => []SessionTypeOK` |
| `FocusedRunIsExecuted` | `SessionSpec => []FocusedRunExecuted` |
| `FlagsHaveOwners` | `SessionSpec => []FlagsOwned` |
| `StrayRunOnlyByGoingBack` | `SessionSpec => NoStrayRun` |
| `FocusLostByOtherCase` | `SessionSpec => FocusLostOnlyByOtherCase` |
| `StatusLostByOtherRun` | `SessionSpec => StatusLostOnlyByOtherRun` |
| `ResultsTypeCorrect` | `ResultsSpec => []ResultsTypeOK` |
| `OverlayFollowsTables` | `ResultsSpec => []OverlayMatchesTables` |
| `SpinnersHaveOwners` | `ResultsSpec => []SpinnersOwned` |
| `MixedByLateAnswers` | `ResultsSpec => MixedOnlyByLateAnswer` |
| `HeaderWrongOnlyThen` | `ResultsSpec => WrongHeaderOnlyLateOrFailed` |
| `HistoryTypeCorrect` | `HistorySpec => []HistoryTypeOK` |
| `StacksStayBounded` | `HistorySpec => []StacksBounded` |
| `StacksAlwaysFit` | `HistorySpec => []StacksFit` |
| `HistoryIsLinear` | `HistorySpec => RefinesLinearHistory` |
| `NetworkStaysIntact` | `TopologySpec => []NetworkIntact` |
| `ReferencesAreKept` | `TopologySpec => RefsLostOnlyBySplit` |
| `TrunksStayChains` | `TopologySpec => TrunkStaysChain` |

They rest on named assumptions about the constants and on nothing else:
`ModelAssumption` (an operation maps a content to a content or an error, and
`refresh_snapshot` changes nothing), `NoEnmAssumption`, `NoRunAssumption` and
`SyncAssumption` (the markers of absence are no values), `CasesAssumption` (nor are
those of `StudyCases`, and its switch is a Boolean), `StoreAssumption` (the loop is
no worker), `RunsAssumption` (contents that are valid, or solved or traced without
an error, are contents), `SessionAssumption`, `IdleAssumption`, `OverlayAssumption`
and `MarkersAssumption` (markers of absence again), `ResultsAssumption` (the things
the results page loads are different things, and at least one request may be in
flight), `HistoryAssumption` (limits are numbers, and the limit of the history is
positive), `TopologyAssumption` (a segment is a cable or an overhead line, its two
ends are different positions, a section switch is open or closed, a station is built
of the three parts that are modelled, bounds are numbers).  TLC evaluates each of
them in the runs.

### 4.1 EnmStore

The inductive invariant `StoreInv` adds to the type invariant and to
`HeaderHashCurrent` what the local variables of a handler mean (`FramesOK`): a
process that is about to return from `get_enm` finds a model; between the base
check and the end of `set_enm` the loop holds a model whose hash is current,
that its request accepts and its operation can be applied to; in `put` the draft
has the content this operation yields.  `HeaderHashCurrent` alone is not
inductive: nothing in it says that `set_enm` gets a content and not an error.
`AuthorSawBase` then follows because a revision and a content can be read back
from a hash; a case cannot.  `SettledNeverLosesUpdates` is a case analysis over the
actions; the interesting one is `SetEnmStore`, whose draft is `NextEnm` of the
current model as long as the case was settled.

The step lemmas are not proved of `StoreNext` but of `OpenNext`, in which
handlers of other components may call `get_enm` from any process, the event loop
included, and return when they like.  `StoreNext` is a special case of it, and
so is, as far as the store can see, every step of `CanonicalRuns`.

### 4.2 SnapshotSync

`SyncInv` is the type invariant, the truth of the header hashes, and the fact
that request numbers are given once and a request on its way was never applied.
It is all the refinement needs: `Refuse` and `Confirm` create a model or do
nothing to the register, `Commit` is its `Apply` (after the creation `get_enm` performs
inside the same step), `Restart` its `Forget`, and every step of a tab or of the
network is a stutter.  `SnapshotsLag` follows from one more observation, `Grows`:
until a restart a step leaves a model alone, creates it, or moves it to
the next revision; so what lagged goes on lagging, and an answer carries the
model stored in the step that sends it.  `GuardedRetryAppliedOnce` is not
inductive.  `BasesPast` strengthens it: the base revision of everything applied
is smaller than the stored one, whereas a request is applied only when its base
revision is the stored one.

### 4.3 CanonicalRuns

`RunsInv` has three parts on top of the types and of `StoreInv`.  `RunOK` says of a
run that what it holds comes from its own snapshot and that its final
status has its reason (a `FAILED` run has a snapshot that cannot be solved or traced).
`Progress` says what a thread at a given step knows about its run: before
`finish`, for example, that both the result and the trace are there.  Other threads may
change the run meanwhile, so `Progress` must survive them: every assignment lets
the run evolve (`Evolves`: the snapshot stays, and what is there is not taken
away), and `ProgressStable` shows that this is enough.  That the validator, the solver and
the trace builder are deterministic is used here: a second execution cannot fail
where the first one succeeded.  `RunsStepIsOpen` maps every step of the
composition to a step of the open store, and `RunsLoseNoUpdates` is the theorem
about the store again.

`RunsListed` says that the index of a case lists each of its runs once.  A run is
stored before it is appended to the index, so `ListInv` speaks of the runs that are
*to be listed*: stored, and not in the hands of a thread that is about to append them.
`IndexOK` says that exactly those occur, each at one place; `AppendersDiffer`
that no two threads are about to append the same run, which would list it
twice.  Identifiers are fresh when a run is created, hence a thread never starts to
append what another one is appending.  Every other step leaves index, runs and
appenders alone (`UnmovedListInv`).

### 4.4 StudyCases

`CasesInv` adds to the types what a busy thread's request looks like; it is
inductive with either kind of locking.  `ActiveInv` adds the reason for one active
case: two threads are never between their first and last write, and such a thread
has deactivated every row of its project (`cleared[p] = RowsOf(...)`), which stays
so because nobody else can insert or activate meanwhile.  This is what row locks do
not give.  `RequestOK` also says that the case of an update belongs to the project
of its request for good, and that a plain write-back can clear the active flag but
never set it.  `ActivationCommits` is the heart: the commit of a new active case
leaves it the only one of its project, unless the request named another one, and
then the project is in `crossed`.  `Insert`, `Activate` and the second path of
`Flush` are instances of it, and every other step activates nothing.

### 4.5 CaseSession

Three invariants, each for its theorems.  `SessionInv` adds to the types what a chain
knows of its run (`KnowsRun`): it has one once the request that creates it was
served, and the run is final once the request that executes it was served; this
is what makes `FocusedRunExecuted` inductive.  `FlagsInv` is `FlagsOwned` with the types:
a chain that ends or goes on clears what it owned or hands it to its next step,
and a flag of another chain keeps its owner (`OtherOwner`, `SameFlags`).  `OwnInv`
says that a run belongs to the case of its chain and to no other chain, and
that a run which has not been executed is `PENDING`; without it neither
`FocusLostOnlyByOtherCase` nor `StatusLostOnlyByOtherRun` could be concluded, because a
chain might come back to a run that is on screen already.  `ModeInv` (the
edit mode belongs to the route of the editor) is the reason for `NoStrayRun`.

### 4.6 ResultsView

`ResultsInv` is the conjunction of the types, `OverlayMatchesTables` and `SpinnersOwned`;
it is inductive as it stands.  `SendKeeps` and `ReceiveKeeps` treat the counters once
for all kinds of requests.  The two action properties follow from one look at
each answer: a step that makes the page show another run's data received an
answer for that run.

### 4.7 UndoHistory

`StacksBounded` needs `OneCall`: as long as nobody has broken the rules, at most one
call is in flight, and the command it moves is still on its stack.  Then `undo`
takes off one stack what it puts on the other, `redo` likewise, and only `push`
grows them, which cuts the undo stack and empties the redo stack.

`StacksFit` speaks of what a whole stack does to the document.  A command is two
patches, what it writes and what it takes back; `Under(w, n, d, i)` is the
document `d` under the patches `w[n]` to `w[i]`.  It is defined by the lowest patch that
holds a field, without recursion, so that one equation per field (`UnderAt`) replaces
an induction over the stack.  `FitInv` holds while the rules are kept: every command
of the undo stack finds, under the commands above it, what it would have
written; the redo stack likewise with the sides exchanged (`Fit`); and a
call in flight (`FlightOK`) moves the top of its stack and has written the last value of
each field so far, because a command may write a field several times.  `Settled` is the document
between calls.  A step is then of one of two kinds (`StepKinds`): `Quiet`, which
changes neither stacks nor `Settled`, or a move of one command.  `HistoryIsLinear`
reads the same as a refinement: a quiet step is a stutter of `LinearHistory`, a push
its `Edit`, which cuts the line and may drop its oldest document, an undo
or a redo one step along the line (`LineStepRefines`), whose documents are those the two
stacks lead to (`LineOf`).

### 4.8 Topology

`TopologyInv` says that the network intact is one of identifiers that were really
made, which the handlers rely on without saying so.  `NetworkIntact` alone is not
inductive, for three reasons.

* *Rank.*  `create_branch` refuses a branch from a bus to itself, and no branch has
  equal ends.  `InsertSectionSwitch` goes on when its second node is refused,
  because that identifier exists already.  Then the new right half goes from that
  node to the far bus of the segment, and would be a loop if the two were the same.
  They are not, because the node is hashed from the segment, which must be older.
  `LinesInv` therefore numbers identifiers so that what is hashed comes before its
  hash (`Ranks`), and keeps for the far bus of a branch, when it is such a second
  node, that the segment it was hashed from ranks below the branch (`FarEnds`). It
  is `\E rank : LinesHave(rank)`: the rank is no variable, every handler that makes
  identifiers extends it.  No update writes the ends of a branch, so `LinesInv`
  holds whatever updates write.
* *Deletion.*  `TransformersHave`, `StationsHave`, `BaysHave` and `PointsHave` say
  which buses belong to an identifier, so that the cascade takes everything that
  hangs on a bus.  A transformer's buses and its station are hashed from the same
  split, so that a station loses its transformers with its buses although the list
  of stations may hold one identifier twice. `StationsOK`, `BaysOK` and
  `SourcesHave` keep the part about references only as long as no update has written
  any; the shapes of the lists are kept in any case.
* *Lists.*  A corridor can hold an identifier twice, two corridors can hold the same
  segment or have the same identifier, and a split edits one entry of one corridor.
  `SegmentsHave`, kept until an update writes a list, is the reason why nothing else
  goes on naming a segment that was split.  Every segment is descended, by splits,
  from one that a request put into a trunk, and the identifier of that one hashes
  the trunk the request named: `Rooted` says that the corridor that lists a segment
  is the one its root names, or the first one, if it names none.  `Firsts` adds that
  of two corridors with one identifier only the first lists anything, and `Listed`
  that a list names existing segments, each once, except for parts of a section
  switch.

The lemmas about `Minus`, `WithoutRef`, `Added`, `SelectInSeq` and the replacement
in a list come first. What a recursive function such as `Minus` computes is proved
by the least index at which it would not (`LeastOf`), as induction over data is out
of reach.  `Steps` groups the disjuncts of `TopologyNext` by the collections they
touch, and `Frame` says of each group which collections it leaves alone, so that the
lemma about a collection (`LinesNext`, `StationsNext`, ...) looks at the handlers
that write it and at no other.

`RefsLostOnlyBySplit` is an action property.  Every handler but `delete_element` keeps all
branches or adds buses with what it removes (`Grows`), and `delete_element` clears every
reference to what it removed (`DeletionClears`).

`TrunkStaysChain` is an action property too.  A chain lists each segment once, and
its segments exist.  A split replaces the one entry by a chain of parts between the
same buses (`ChainSpliced`, with `HalvesChain` and `SwitchChain` for the parts); a
refused part leaves fewer branches than the `PartRefused` of the property asks for;
a trunk that is continued at the end the code finds gets a segment that leaves that
end (`ChainLonger`), whose identifier was free and therefore listed nowhere in a
chain.  Of a segment that is split one must know that no other corridor lists it, as
the handler leaves the others alone: that is `Rooted` again, and the reason for the
last exception of the property.

TLC cannot evaluate `TopologyInv`, which quantifies over functions on identifiers
without bound; it checks the three properties, in the run `topology`.

### 4.9 Only model-checked

Every safety property a passing run checks is stated by a theorem.  Liveness under
fairness (`SpinnerStops`, `RunSettles`) is outside what the prover supports.  The runs
that end in a violation are refutations.

## 5. Not modelled

Solvers (floating point), documents and reports (pure functions of their
input), catalogs (read-only data), archives and import (file formats).
`PROJECT.json` gives the reason for each component.  Of the domain operations,
catalogs and electrical parameters, the devices added to a finished network
and the operations of `domain_operations_v2.py` are left out of `Topology`.

Most of the repository by size is the frontend's TypeScript, and most of that is
drawing: the layout pipeline of the single-line diagram, its symbols and styles,
the canvas, the forms of the wizard, tables and their formatting, translations,
types and fixtures.  Those files compute pictures from a snapshot; they keep no
state that outlives a render and decide nothing another actor sees.  The stores
and handlers that do are a small part of the lines, so that the modules cover a
small share of the text although they cover the paths on which cases,
snapshots, runs and results travel.  Of the remaining stores the power-flow and
protection results repeat `ResultsView`, and selection, visibility and camera
state is set by one user action at a time.

## 6. Plan

1. `Topology`, continued: the devices of a station, the open-point rules of the contract
   as a run of their own, and both media at once.
2. `ExecutionEngine` and `Batches`: the legacy engine, its life cycle and the batches that
   drive it; a batch accounts for its runs whichever step fails.
3. `StudyCases`, continued: the binding of cases to snapshots, the lifecycle and
   invalidation services, and `FRESH` only for the current model.
4. `sldProjectModeStore` and the power-flow and protection inspectors.
5. `Snapshots`, the analysis-run service, fault scenarios and the wizard.

Theorems next: lemmas about the handlers of `Topology` that discharge
`ModelAssumption` for the concrete `Effect`; `ActiveCaseKept` under row locks.
