------------------------------ MODULE Workflow ------------------------------
(***************************************************************************)
(* The playground's control plane: the drivers of app/main.mjs and the     *)
(* RunControllers of app/run-controllers.mjs around the reducer of         *)
(* WorkflowState.                                                          *)
(*                                                                         *)
(* The page is one event loop.  An action is one synchronous block of it:  *)
(* a user event handler up to its first await, or the code between the     *)
(* settlement of an awaited promise and the next await.  A driver that is  *)
(* suspended at an await is a record in tasks; everything it captured      *)
(* before the await is in the record, everything it reads afterwards is    *)
(* read from the state of that later step.  dispatch() reduces, lets the   *)
(* controllers abort what is no longer current and renders; a block may    *)
(* dispatch several times, so Block takes every state it passes through.   *)
(*                                                                         *)
(* The compiler and the engine are outside: a call to them settles at any  *)
(* time, with a result or an error.  Once the signal of a call is aborted  *)
(* it can still deliver a result that had settled before the abort.        *)
(***************************************************************************)
EXTENDS WorkflowState, FiniteSets

CONSTANTS
  MaxTasks,     \* bound: drivers suspended at the same time
  MaxRevision,  \* bound: values of the page's revision counter
  MaxRequests   \* bound: request ids issued

\* A collection has a first pair, and it is selected when the collection lands.
ASSUME FirstPairAssumption == 0 \in Indices

VARIABLES
  state,        \* the reducer's state
  form,         \* the dataset and parameter-source radios, the sampler form
  tasks,        \* suspended drivers
  active,       \* RunControllers.#active, by kind
  revision,     \* the page's revision counter
  requests      \* number of request ids issued so far

vars == <<state, form, tasks, active, revision, requests>>

Kinds == {"compile", "generation", "conditioning"}
\* The radio "prior" differs from "fixed" only in the sourceKind it records,
\* and nothing but "posterior" is ever asked of that.
ParamSources == {"fixed", "other-prior", "posterior"}

(***************************************************************************)
(* dispatch(): RunControllers.reconcile and the parts of render() that     *)
(* change the form.                                                        *)
(***************************************************************************)
Matches(kind, id, s) ==
  \/ kind = "compile" /\ s.compile.status = "compiling" /\ s.compile.requestId = id
  \/ kind = "generation" /\ GenerationRuns(s, id)
  \/ /\ kind = "conditioning"
     /\ s.run.status = "running" /\ s.run.requestId = id
     /\ ConditioningRuns(s, id)

\* A block that passes through the states path, with act the controllers
\* registered before its first dispatch.
Survivors(act, path) ==
  [k \in Kinds |-> IF act[k] # None /\ \A s \in path : Matches(k, act[k], s)
                   THEN act[k] ELSE None]
\* Mutant: a controller is forgotten without being aborted.
DroppedSilently(act, path) == {}
Dropped(act, path) ==
  {act[k] : k \in {k \in Kinds : Survivors(act, path)[k] # act[k]}}
AbortAll(ts, ids) ==
  {IF t.id \in ids THEN [t EXCEPT !.aborted = TRUE] ELSE t : t \in ts}

\* render() unchecks a radio it has to disable.
Rendered(f, path) ==
  [f EXCEPT
     !.dataset = IF \E s \in path : s.generation.selected = None THEN "observed" ELSE @,
     !.params = IF \/ @ = "posterior" /\ \E s \in path : ~PosteriorAvailable(s)
                   \/ @ = "other-prior" /\ \E s \in path : s.compile.status # "compiled"
                THEN "fixed" ELSE @]

\* dispatch() through path, ending in s, on the tasks ts and controllers act.
Block(s, path, f, ts, act) ==
  /\ state' = s
  /\ form' = Rendered(f, path)
  /\ active' = Survivors(act, path)
  /\ tasks' = AbortAll(ts, Dropped(act, path))

\* RunControllers.begin: the controller of the kind is aborted and replaced.
Begin(act, kind, id) == [act EXCEPT ![kind] = id]
Superseded(act, kind, id) == {act[kind]} \ {None, id}
\* RunControllers.finish.
Finish(act, kind, id) == IF act[kind] = id THEN [act EXCEPT ![kind] = None] ELSE act

Rev == revision + 1
Bump(n) == revision + n <= MaxRevision /\ revision' = revision + n
\* A new driver gets the next id; some of them ask for it only after their
\* first await, which nothing can observe.
NewId == requests + 1
Issue == requests < MaxRequests /\ Cardinality(tasks) < MaxTasks /\ requests' = NewId

(***************************************************************************)
(* What the buttons require (render).                                      *)
(***************************************************************************)
CompileEnabled ==
  /\ state.compile.status # "compiling"
  /\ state.run.status # "running"
  /\ state.generation.attempt.status # "running"
RunsEnabled ==
  /\ state.compile.status = "compiled"
  /\ state.run.status # "running"
  /\ state.generation.attempt.status # "running"
CancelEnabled ==
  \/ state.compile.status = "compiling"
  \/ state.generation.attempt.status = "running"
  \/ state.run.status = "running"

Init ==
  /\ \E d \in Documents : state = InitialState(d)
  /\ form \in [dataset : {"observed"}, params : {"fixed"}, settings : Settings]
  /\ tasks = {}
  /\ active = [k \in Kinds |-> None]
  /\ revision = 0
  /\ requests = 0

(***************************************************************************)
(* Edits.                                                                  *)
(***************************************************************************)
\* An edit handler that dispatches one event and captures nothing.
Edit(s) ==
  /\ Block(s, {s}, form, tasks, active)
  /\ Bump(1)
  /\ UNCHANGED requests

EditSource == Edit(SourceEdited(state, Rev))

\* setProject: source and documents are replaced.  A shared project may bring
\* sampler and generation settings as well; an example brings neither.
LoadProject ==
  \E d \in Documents, v \in Settings, sampler, generation \in BOOLEAN :
    LET s1 == SourceEdited(state, Rev)
        s2 == DocumentsEdited(s1, d, Rev + 1)
        s3 == IF sampler THEN InferenceSettingsEdited(s2, Rev + 2) ELSE s2
        s4 == IF generation THEN GenerationSettingsEdited(s3, Rev + 3) ELSE s3
        f == IF sampler THEN [form EXCEPT !.settings = v] ELSE form
    IN /\ Block(s4, {s1, s2, s3, s4}, f, tasks, active)
       /\ Bump(4)
       /\ UNCHANGED requests

EditObserved ==
  \E d \in Documents : Edit(ObservedInputEdited(state, d, Rev))

EditGenerationInputs == Edit(GenerationInputEdited(state, Rev))

EditGenerationSettings == Edit(GenerationSettingsEdited(state, Rev))

ChooseParameterSource ==
  \E p \in ParamSources \ {form.params} :
    LET s == GenerationInputEdited(state, Rev) IN
    /\ p = "posterior" => PosteriorAvailable(state)
    /\ p = "other-prior" => state.compile.status = "compiled"
    /\ Block(s, {s}, [form EXCEPT !.params = p], tasks, active)
    /\ Bump(1)
    /\ UNCHANGED requests

SelectPair ==
  /\ state.generation.collection # None
  /\ state.generation.selected # None
  /\ \E i \in Indices \ {state.generation.selected.index} :
       Edit(SelectionEdited(state, [gen |-> state.generation.collection.gen, index |-> i], Rev))

ChooseDataset ==
  \E d \in DatasetSources \ {form.dataset} :
    LET s == DatasetSourceEdited(state, d, Rev) IN
    /\ d = "generated" => state.generation.selected # None
    /\ Block(s, {s}, [form EXCEPT !.dataset = d], tasks, active)
    /\ Bump(1)
    /\ UNCHANGED requests

EditInferenceSettings ==
  \E v \in Settings :
    LET s == InferenceSettingsEdited(state, Rev) IN
    /\ Block(s, {s}, [form EXCEPT !.settings = v], tasks, active)
    /\ Bump(1)
    /\ UNCHANGED requests

\* cancelActiveRun: the events are computed from one state and dispatched in
\* this order.
CancellationPath(s) ==
  LET s1 == IF s.run.status = "running" THEN RunFailed(s, s.run.requestId, s.run.revision) ELSE s
      s2 == ConditioningFailed(s1, s.conditioning.attempt.requestId)
      s3 == GenerationFailed(s2, s.generation.attempt.requestId)
      s4 == CompileFailed(s3, s.compile.requestId, s.compile.revision)
  IN <<s1, s2, s3, s4>>
Cancel ==
  /\ CancelEnabled
  /\ LET path == CancellationPath(state)
     IN Block(path[4], {path[i] : i \in 1..4}, form, tasks, active)
  /\ UNCHANGED <<revision, requests>>

(***************************************************************************)
(* Starting, resuming and ending a driver.                                 *)
(***************************************************************************)
\* u takes its place among the suspended drivers, and the controller begun for
\* it aborts the one it replaces.
Launched(u) ==
  AbortAll({t \in tasks : t.id # u.id}, Superseded(active, u.kind, u.id)) \cup {u}
At(t, kind, pc) == t.kind = kind /\ t.pc = pc
Resumed(t, u) == (tasks \ {t}) \cup {u}

\* The driver returns and dispatches nothing.
End(t) ==
  /\ tasks' = tasks \ {t}
  /\ UNCHANGED <<state, form, active, revision, requests>>

\* The driver dispatches through path, ending in s, and returns through its
\* finally clause.
Complete(t, s, path) ==
  Block(s, path, form, tasks \ {t}, Finish(active, t.kind, t.id)) /\ UNCHANGED requests

(***************************************************************************)
(* compileModel.                                                           *)
(***************************************************************************)
CompileClick ==
  LET t == [kind |-> "compile", id |-> NewId, pc |-> "running", aborted |-> FALSE,
            sourceRevision |-> state.sourceRevision, priorIrHash |-> LastHash(state)]
      s == CompileStarted(state, t.id, t.sourceRevision)
  IN /\ CompileEnabled
     /\ Issue
     /\ Block(s, {s}, form, Launched(t), Begin(active, "compile", t.id))
     /\ UNCHANGED revision

CompileStale(t) ==
  \/ state.compile.status # "compiling"
  \/ state.compile.requestId # t.id
  \/ state.sourceRevision # t.sourceRevision

\* The path of a successful compile that produced hash.  Other bytes than the
\* last success first invalidate as a source edit would.
\* Mutant: it does not.
AdoptInPlace(t, hash, authored) ==
  LET s1 == IF authored THEN GenerationInputEdited(state, Rev + 1) ELSE state
  IN <<s1, s1, CompileSucceeded(s1, t.id, t.sourceRevision, hash)>>
Adopt(t, hash, authored) ==
  LET fresh == t.priorIrHash \notin {None, hash}
      rev == IF fresh THEN Rev ELSE t.sourceRevision
      s1 == IF fresh THEN CompileStarted(SourceEdited(state, rev), t.id, rev) ELSE state
      \* configureAuthoring may rewrite the design or the truth document.
      s2 == IF authored THEN GenerationInputEdited(s1, Rev + 1) ELSE s1
  IN <<IF fresh THEN SourceEdited(state, rev) ELSE s1, s2,
       CompileSucceeded(s2, t.id, rev, hash)>>

CompileOk(t) ==
  /\ At(t, "compile", "running")
  /\ \/ /\ CompileStale(t)
        /\ tasks' = tasks \ {t}
        /\ active' = Finish(active, t.kind, t.id)
        /\ UNCHANGED <<state, form, revision, requests>>
     \/ /\ ~CompileStale(t)
        /\ \E hash \in IrHashes, authored \in BOOLEAN :
             LET path == Adopt(t, hash, authored)
             IN Complete(t, path[3], {path[i] : i \in 1..3})
        /\ Bump(2)

\* The compiler reports a failure, or the call throws.
CompileError(t) ==
  LET s == CompileFailed(state, t.id, t.sourceRevision) IN
  /\ At(t, "compile", "running")
  /\ Complete(t, s, {s})
  /\ UNCHANGED revision

(***************************************************************************)
(* generateCollection.                                                     *)
(***************************************************************************)
SourceKindOf(params) ==
  IF params = "other-prior" THEN "model-prior" ELSE params

GenerationTask(pc) ==
  [kind |-> "generation", id |-> NewId, pc |-> pc, aborted |-> FALSE,
   guard |-> GenerationGuard(state, SourceKindOf(form.params)),
   irHash |-> state.compile.irHash]

\* A fixed or posterior plan is hashed before the attempt starts.
GenerateClick ==
  /\ RunsEnabled
  /\ form.params # "other-prior"
  /\ form.params = "posterior" => PosteriorAvailable(state) /\ state.conditioning.fit # None
  /\ Issue
  /\ tasks' = tasks \cup {GenerationTask("keying")}
  /\ UNCHANGED <<state, form, active, revision>>

\* A composed prior is compiled by an attempt that has already started.
ComposeClick ==
  LET t == GenerationTask("composing")
      s == GenerationStarted(state, t.id, t.guard)
  IN /\ RunsEnabled
     /\ form.params = "other-prior"
     /\ Issue
     /\ Block(s, {s}, form, Launched(t), Begin(active, "generation", t.id))
     /\ UNCHANGED revision

GenerationKeyed(t) ==
  LET s == GenerationStarted(state, t.id, t.guard)
      u == [t EXCEPT !.pc = "running"]
  IN /\ At(t, "generation", "keying")
     /\ IF GenerationRuns(s, t.id)
        THEN Block(s, {s}, form, Launched(u), Begin(active, "generation", t.id))
        ELSE Block(s, {s}, form, tasks \ {t}, active)
     /\ UNCHANGED <<revision, requests>>

ScenarioComposed(t) ==
  /\ At(t, "generation", "composing")
  /\ IF state.generation.attempt.requestId = t.id
     THEN /\ tasks' = Resumed(t, [t EXCEPT !.pc = "running"])
          /\ UNCHANGED <<state, form, active, revision, requests>>
     ELSE End(t)

CollectionOf(t) ==
  [gen |-> t.id, irHash |-> t.irHash, sourceKind |-> t.guard.sourceKind,
   sourceFitLineageKey |-> t.guard.fitLineageKey]

GenerationOk(t) ==
  LET s == GenerationSucceeded(state, t.id, CollectionOf(t),
                               [gen |-> t.id, index |-> 0], Rev)
  IN /\ At(t, "generation", "running")
     /\ Complete(t, s, {s})
     /\ Bump(1)

\* The composition, the engine or the verification of its output fails.
GenerationError(t) ==
  LET s == GenerationFailed(state, t.id) IN
  /\ At(t, "generation", "composing") \/ At(t, "generation", "running")
  /\ Complete(t, s, {s})
  /\ UNCHANGED revision

(***************************************************************************)
(* samplePosterior, sampleGenerated and sampleData.                        *)
(***************************************************************************)
ChosenDataset ==
  IF form.dataset = "generated"
  THEN [source |-> "generated", pair |-> state.generation.selected]
  ELSE [source |-> "observed", document |-> state.observed]

FitClick ==
  LET switch == state.conditioning.datasetSource # form.dataset
      s == IF switch THEN DatasetSourceEdited(state, form.dataset, Rev) ELSE state
      t == [kind |-> "conditioning", id |-> NewId, pc |-> "keying", aborted |-> FALSE,
            guard |-> ConditioningGuard(s, form.dataset), dataset |-> ChosenDataset,
            settings |-> form.settings, projectRevision |-> s.projectRevision,
            irHash |-> None]
  IN /\ RunsEnabled
     /\ form.dataset = "generated" => state.generation.selected # None
     /\ Issue
     /\ IF switch
        THEN Block(s, {s}, form, tasks \cup {t}, active) /\ Bump(1)
        ELSE /\ tasks' = tasks \cup {t}
             /\ UNCHANGED <<state, form, active, revision>>

\* Mutant: an attempt whose run cannot start is not retracted.
FitKeyedNoRetract(t) ==
  LET s1 == ConditioningStarted(state, t.id, t.dataset.source, t.guard)
      s2 == RunStarted(s1, t.id, t.projectRevision, t.dataset.source)
      u == [t EXCEPT !.pc = "running", !.irHash = s2.compile.irHash]
  IN /\ At(t, "conditioning", "keying")
     /\ IF form.dataset # t.dataset.source
        THEN End(t)
        ELSE /\ IF RunRuns(s2, t.id, t.projectRevision)
                THEN Block(s2, {s2}, form, Launched(u), Begin(active, "conditioning", t.id))
                ELSE Block(s2, {s1, s2}, form, tasks \ {t}, active)
             /\ UNCHANGED <<revision, requests>>
FitKeyed(t) ==
  LET s1 == ConditioningStarted(state, t.id, t.dataset.source, t.guard)
      s2 == RunStarted(s1, t.id, t.projectRevision, t.dataset.source)
      s3 == ConditioningFailed(s2, t.id)
      u == [t EXCEPT !.pc = "running", !.irHash = s2.compile.irHash]
  IN /\ At(t, "conditioning", "keying")
     /\ IF form.dataset # t.dataset.source
        THEN End(t)
        ELSE /\ IF ~ConditioningRuns(s1, t.id)
                THEN Block(s1, {s1}, form, tasks \ {t}, active)
                ELSE IF ~RunRuns(s2, t.id, t.projectRevision)
                THEN Block(s3, {s1, s2, s3}, form, tasks \ {t}, active)
                ELSE Block(s2, {s2}, form, Launched(u), Begin(active, "conditioning", t.id))
             /\ UNCHANGED <<revision, requests>>

\* Without the IR of a finished compile the runtime refuses the request.
FitSampled(t) ==
  /\ At(t, "conditioning", "running")
  /\ t.irHash # None
  /\ tasks' = Resumed(t, [t EXCEPT !.pc = "hashing"])
  /\ UNCHANGED <<state, form, active, revision, requests>>

\* Mutant: an error is reported to the run and not to the attempt.
FitErrorRunOnly(t) ==
  LET s1 == RunFailed(state, t.id, t.projectRevision) IN
  /\ At(t, "conditioning", "running")
  /\ Complete(t, s1, {s1})
  /\ UNCHANGED revision
FitError(t) ==
  LET s1 == RunFailed(state, t.id, t.projectRevision)
      s2 == ConditioningFailed(s1, t.id)
  IN /\ At(t, "conditioning", "running")
     /\ Complete(t, s2, {s1, s2})
     /\ UNCHANGED revision

FitOf(t) ==
  [datasetSource |-> t.dataset.source,
   lineageKey |-> [irHash |-> t.irHash, dataset |-> t.dataset, settings |-> t.settings]]

\* What #condition publishes: diagnostics and recovery may fail on their own,
\* and only a generated pair has parameters to recover.
FitResults(t) ==
  LET required == {"model.ir.json", "data.json", "posterior.ndjson"}
      optional == IF t.dataset.source = "generated" THEN PosteriorDependents
                  ELSE PosteriorDependents \ {"recovery_check.json"}
  IN {{[name |-> n, lineageKey |-> FitOf(t).lineageKey] : n \in required \cup extra} :
        extra \in SUBSET optional}

FitCommit(t) ==
  /\ At(t, "conditioning", "hashing")
  /\ \E results \in FitResults(t) :
       LET s == ConditioningCommitted(state, t.id, t.projectRevision, FitOf(t), results)
       IN Complete(t, s, {s})
  /\ UNCHANGED revision

(***************************************************************************)
(* The specification.                                                      *)
(***************************************************************************)
Edits ==
  \/ EditSource \/ LoadProject \/ EditObserved \/ EditGenerationInputs
  \/ EditGenerationSettings \/ ChooseParameterSource \/ SelectPair
  \/ ChooseDataset \/ EditInferenceSettings
Clicks == Cancel \/ CompileClick \/ GenerateClick \/ ComposeClick \/ FitClick
Settlement(t) ==
  \/ CompileOk(t) \/ CompileError(t)
  \/ GenerationKeyed(t) \/ ScenarioComposed(t) \/ GenerationOk(t) \/ GenerationError(t)
  \/ FitKeyed(t) \/ FitSampled(t) \/ FitError(t) \/ FitCommit(t)

Next == Edits \/ Clicks \/ \E t \in tasks : Settlement(t)

Spec == Init /\ [][Next]_vars

\* What settles without help: a digest, a compile or a composition (both have
\* timers), and any call whose signal is aborted.  A live engine call has no
\* timer, and nothing is assumed of it or of the user.
Bounded(t) == t.aborted \/ t.kind = "compile" \/ t.pc \in {"keying", "composing", "hashing"}
Fairness ==
  \A i \in 1..MaxRequests :
    WF_vars(\E t \in tasks : t.id = i /\ Bounded(t) /\ Settlement(t))
FairSpec == Spec /\ Fairness

(***************************************************************************)
(* Properties.                                                             *)
(***************************************************************************)
\* The posterior, data, diagnostics and recovery shown are those of the fit
\* whose lineage the page holds, and no view of a fit outlives the fit: what
\* the downloads and the dashboard show was computed together.
ArtifactsMatchFit ==
  /\ \A a \in state.artifacts :
       a.name \in FitDescendantArtifacts =>
         state.conditioning.fit # None /\ a.lineageKey = FitLineage(state)
  /\ state.fitDatasetSource \in {None, FitSource(state)}

\* A fit and a collection belong to the bytes of the last successful compile of
\* the current source, across recompiles, failed compiles and results that
\* arrive late.  While a pair is selected it is of the current collection, and a
\* fit of a simulated pair is a fit of that pair.
ResultsMatchModel ==
  /\ state.conditioning.fit # None => FitLineage(state).irHash = LastHash(state)
  /\ state.generation.collection # None =>
       state.generation.collection.irHash = LastHash(state)
  /\ state.generation.selected # None =>
       /\ state.generation.collection # None
       /\ state.generation.selected.gen = state.generation.collection.gen
       /\ FitSource(state) = "generated" =>
            FitLineage(state).dataset.pair = state.generation.selected

\* A driver whose call has not been aborted is the current attempt of its kind
\* and owns the registered controller: replaced, invalidated and cancelled
\* attempts do not keep a worker.
OrphansAreAborted ==
  \A t \in tasks :
    ~t.aborted /\ t.pc # "keying" =>
      Matches(t.kind, t.id, state) /\ active[t.kind] = t.id

\* An attempt that is shown as running has a driver that will report its end,
\* also when attempts overtake each other between a click and its start, and
\* the fit of a driver that has not been aborted is not refused at the end.
\* (A run can be left without a driver: a stale FitKeyed replaces the attempt
\* and fails without taking the run over.)
AttemptsHaveDrivers ==
  LET driven(kind, id) == \E t \in tasks : t.kind = kind /\ t.id = id /\ t.pc # "keying"
  IN /\ state.compile.status = "compiling" => driven("compile", state.compile.requestId)
     /\ state.generation.attempt.status = "running" =>
          driven("generation", state.generation.attempt.requestId)
     /\ state.conditioning.attempt.status = "running" =>
          driven("conditioning", state.conditioning.attempt.requestId)
     /\ \A t \in tasks : At(t, "conditioning", "hashing") /\ ~t.aborted =>
          RunRuns(state, t.id, t.projectRevision) /\ t.projectRevision = state.projectRevision

\* What becomes current is of what is current when it lands, although all of it
\* can be edited while the engine works: a fit was computed from the data, the
\* settings and the model, a posterior collection was drawn from the fit.
CommitsAreCurrent ==
  [][/\ state'.conditioning.fit \notin {None, state.conditioning.fit}
       => FitLineage(state') = [irHash |-> state.compile.irHash, dataset |-> ChosenDataset,
                                settings |-> form.settings]
     /\ /\ state'.generation.collection \notin {None, state.generation.collection}
        /\ state'.generation.collection.sourceKind = "posterior"
       => state'.generation.collection.sourceFitLineageKey = FitLineage(state)]_vars

\* A conditioning attempt that has lost its run (a compile resets the run but
\* not the attempt) is retired although Cancel is not offered for it.
OrphanedFitRetires ==
  (state.conditioning.attempt.status = "running" /\ state.run.status # "running")
    ~> (state.conditioning.attempt.status # "running" \/ state.run.status = "running")

(***************************************************************************)
(* A documented promise that the code does not keep.                       *)
(***************************************************************************)
\* A fit of the observed data does not survive an edit of the observed data.
ObservedFitIsCurrent ==
  FitSource(state) = "observed" =>
    FitLineage(state).dataset.document = state.observed

=============================================================================
