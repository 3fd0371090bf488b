---------------------------- MODULE WorkflowState ----------------------------
(***************************************************************************)
(* The reducer of the playground application, playground/site/src/app/     *)
(* state.mjs: a pure function from a state and an event to a state.  Every *)
(* event type the application dispatches is one operator here, with the    *)
(* event's fields as parameters.  Workflow.tla composes these operators    *)
(* with the asynchronous drivers of main.mjs.                              *)
(*                                                                         *)
(* Abstractions.  A revision is a natural number that is only ever         *)
(* compared for equality.  A request is identified by requestId alone: the *)
(* dependencyKey always travels with the requestId that introduced it, so  *)
(* comparing it too can never change an outcome.  Of the four documents    *)
(* only the observed one is compared by content after an edit; the other   *)
(* three are represented by generation.inputRevision.  The bytes of an IR  *)
(* are identified with their hash, artifacts with a name and the lineage   *)
(* of the fit they came from, notices and error texts are left out.  The   *)
(* events run-succeeded and conditioning-succeeded are handled by the      *)
(* reducer and exercised by its unit tests, but nothing dispatches them:   *)
(* a fit is committed by conditioning-committed only.                      *)
(***************************************************************************)
EXTENDS Naturals

CONSTANTS
  None,        \* null and undefined
  IrHashes,    \* hashes of compiled model bytes
  Documents,   \* contents of the observed-data document
  Settings,    \* contents of the sampler settings form
  Indices      \* positions in a generated collection

(***************************************************************************)
(* Values.  A generated pair is named by the generation that produced it   *)
(* and its index; a fit's lineage key, the hash of its posterior bytes, is *)
(* a function of the model, the dataset and the (seeded) settings.         *)
(***************************************************************************)
Pairs == [gen : Nat, index : Indices]
Datasets == [source : {"observed"}, document : Documents]
              \cup [source : {"generated"}, pair : Pairs]
DatasetSources == {"observed", "generated"}
SourceKinds == {"fixed", "model-prior", "posterior"}
LineageKeys == [irHash : IrHashes, dataset : Datasets, settings : Settings]
Fits == [datasetSource : DatasetSources, lineageKey : LineageKeys]
Collections == [gen : Nat, irHash : IrHashes, sourceKind : SourceKinds,
                sourceFitLineageKey : LineageKeys \cup {None}]

\* FIT_DESCENDANT_ARTIFACTS, less posterior_predictive.ndjson, which the
\* browser runtime never produces.
FitDescendantArtifacts ==
  {"data.json", "posterior.ndjson", "diagnostics.json", "recovery_check.json"}
\* What a replacement posterior drops even when it brings no successor.
PosteriorDependents == {"diagnostics.json", "recovery_check.json"}
ArtifactNames == {"model.ir.json"} \cup FitDescendantArtifacts
Artifacts == [name : ArtifactNames, lineageKey : LineageKeys]

Opt(S) == S \cup {None}

\* null and undefined differ from every value.
ASSUME NoneAssumption ==
  None \notin Nat \cup IrHashes \cup Documents \cup DatasetSources \cup SourceKinds
             \cup LineageKeys \cup Fits \cup Collections \cup Pairs

CompileStates ==
  [status : {"idle", "compiling", "compiled", "failed"},
   requestId : Opt(Nat), revision : Opt(Nat),
   irHash : Opt(IrHashes), priorIrHash : Opt(IrHashes)]
RunStates ==
  [status : {"idle", "running", "completed", "failed"},
   requestId : Opt(Nat), revision : Opt(Nat), datasetSource : Opt(DatasetSources)]
GenerationAttempts ==
  [status : {"idle", "running", "completed", "failed"}, requestId : Opt(Nat),
   sourceKind : Opt(SourceKinds), sourceFitLineageKey : Opt(LineageKeys)]
GenerationStates ==
  [attempt : GenerationAttempts, collection : Opt(Collections), selected : Opt(Pairs),
   inputRevision : Nat, settingsRevision : Nat, selectionRevision : Nat]
ConditioningAttempts ==
  [status : {"idle", "running", "completed", "failed"}, requestId : Opt(Nat),
   datasetSource : Opt(DatasetSources)]
ConditioningStates ==
  [attempt : ConditioningAttempts, fit : Opt(Fits), settingsRevision : Nat,
   datasetSource : DatasetSources, datasetSourceRevision : Nat]
States ==
  [sourceRevision : Nat, projectRevision : Nat, observed : Documents,
   compile : CompileStates, run : RunStates, generation : GenerationStates,
   conditioning : ConditioningStates, artifacts : SUBSET Artifacts,
   fitDatasetSource : Opt(DatasetSources)]

(***************************************************************************)
(* The shapes a status can take.                                           *)
(***************************************************************************)
CompileIdle ==
  [status |-> "idle", requestId |-> None, revision |-> None,
   irHash |-> None, priorIrHash |-> None]
RunSettled(status, rev) ==
  [status |-> status, requestId |-> None, revision |-> rev, datasetSource |-> None]
RunIdle == RunSettled("idle", None)
GenerationSettled(status) ==
  [status |-> status, requestId |-> None, sourceKind |-> None,
   sourceFitLineageKey |-> None]
ConditioningSettled(status) ==
  [status |-> status, requestId |-> None, datasetSource |-> None]

InitialState(doc) ==
  [sourceRevision |-> 0, projectRevision |-> 0, observed |-> doc,
   compile |-> CompileIdle, run |-> RunIdle,
   generation |-> [attempt |-> GenerationSettled("idle"), collection |-> None,
                   selected |-> None, inputRevision |-> 0,
                   settingsRevision |-> 0, selectionRevision |-> 0],
   conditioning |-> [attempt |-> ConditioningSettled("idle"), fit |-> None,
                     settingsRevision |-> 0, datasetSource |-> "observed",
                     datasetSourceRevision |-> 0],
   artifacts |-> {}, fitDatasetSource |-> None]

(***************************************************************************)
(* Questions several events ask.                                           *)
(***************************************************************************)
FitSource(s) ==
  IF s.conditioning.fit = None THEN None ELSE s.conditioning.fit.datasetSource
FitLineage(s) ==
  IF s.conditioning.fit = None THEN None ELSE s.conditioning.fit.lineageKey

ConditioningRuns(s, id) ==
  s.conditioning.attempt.status = "running" /\ s.conditioning.attempt.requestId = id
GenerationRuns(s, id) ==
  s.generation.attempt.status = "running" /\ s.generation.attempt.requestId = id
RunRuns(s, id, rev) ==
  s.run.status = "running" /\ s.run.requestId = id /\ s.run.revision = rev
CompileRuns(s, id, rev) ==
  s.compile.status = "compiling" /\ s.compile.requestId = id /\ s.compile.revision = rev

\* The fit shown, the fit kept or the fit being computed is of a generated pair.
GeneratedFit(s) ==
  "generated" \in {s.fitDatasetSource, FitSource(s), s.conditioning.attempt.datasetSource}

\* A collection, or a generation under way, draws from the posterior.
PosteriorGeneration(s) ==
  \/ s.generation.collection # None /\ s.generation.collection.sourceKind = "posterior"
  \/ s.generation.attempt.status = "running" /\ s.generation.attempt.sourceKind = "posterior"

PosteriorAvailable(s) ==
  {"posterior.ndjson", "data.json"} \subseteq {a.name : a \in s.artifacts}

(***************************************************************************)
(* State changes several events share.                                     *)
(***************************************************************************)
WithoutFitArtifacts(arts) == {a \in arts : a.name \notin FitDescendantArtifacts}

DropFitView(s, rev) ==
  [s EXCEPT !.projectRevision = rev, !.run = RunIdle,
            !.artifacts = WithoutFitArtifacts(@), !.fitDatasetSource = None]

\* Mutant: the completed fit stays when its dataset goes.
ClearGeneratedFitKeepsFit(c) ==
  IF c.attempt.datasetSource = "generated"
  THEN [c EXCEPT !.attempt = ConditioningSettled("idle")]
  ELSE c
ClearGeneratedFit(c) ==
  IF \/ c.fit # None /\ c.fit.datasetSource = "generated"
     \/ c.attempt.datasetSource = "generated"
  THEN [c EXCEPT !.attempt = ConditioningSettled("idle"), !.fit = None]
  ELSE c

ClearGeneration(g) ==
  [g EXCEPT !.attempt = GenerationSettled("idle"), !.collection = None, !.selected = None]

\* Mutant: a new fit leaves a posterior generation of the old fit running.
GenerationAfterFitKeepsAttempt(g, key) ==
  IF /\ g.collection # None
     /\ g.collection.sourceKind = "posterior"
     /\ g.collection.sourceFitLineageKey # key
  THEN [g EXCEPT !.collection = None, !.selected = None]
  ELSE g
GenerationAfterFit(g, key) ==
  LET staleCollection ==
        /\ g.collection # None
        /\ g.collection.sourceKind = "posterior"
        /\ g.collection.sourceFitLineageKey # key
      staleAttempt ==
        /\ g.attempt.status = "running"
        /\ g.attempt.sourceKind = "posterior"
        /\ g.attempt.sourceFitLineageKey # key
  IN [g EXCEPT !.attempt = IF staleAttempt THEN GenerationSettled("idle") ELSE @,
               !.collection = IF staleCollection THEN None ELSE @,
               !.selected = IF staleCollection THEN None ELSE @]

\* Mutant: only same-named artifacts are replaced.
MergeArtifactsByName(existing, added) ==
  {a \in existing : \A b \in added : b.name # a.name} \cup added
MergeArtifacts(existing, added) ==
  LET names == {a.name : a \in added}
      replaced == IF "posterior.ndjson" \in names
                  THEN names \cup PosteriorDependents ELSE names
  IN {a \in existing : a.name \notin replaced} \cup added

(***************************************************************************)
(* Guards captured before an await and checked when the attempt starts.    *)
(***************************************************************************)
GenerationGuard(s, kind) ==
  [compileRevision |-> s.compile.revision,
   inputRevision |-> s.generation.inputRevision,
   settingsRevision |-> s.generation.settingsRevision,
   sourceKind |-> kind,
   fitLineageKey |-> IF kind = "posterior" THEN FitLineage(s) ELSE None]

MatchesGenerationGuard(s, g) ==
  /\ g.compileRevision = s.compile.revision
  /\ g.inputRevision = s.generation.inputRevision
  /\ g.settingsRevision = s.generation.settingsRevision
  /\ g.sourceKind = "posterior" => g.fitLineageKey = FitLineage(s)

ConditioningGuard(s, src) ==
  [compileRevision |-> s.compile.revision,
   settingsRevision |-> s.conditioning.settingsRevision,
   datasetSource |-> src,
   datasetSourceRevision |-> s.conditioning.datasetSourceRevision,
   observed |-> s.observed,
   selectionRevision |-> s.generation.selectionRevision]

\* Mutant: the guard checks neither the observed document nor the selection.
MatchesConditioningGuardNoData(s, g) ==
  /\ g.compileRevision = s.compile.revision
  /\ g.settingsRevision = s.conditioning.settingsRevision
  /\ g.datasetSource = s.conditioning.datasetSource
  /\ g.datasetSourceRevision = s.conditioning.datasetSourceRevision
MatchesConditioningGuard(s, g) ==
  /\ g.compileRevision = s.compile.revision
  /\ g.settingsRevision = s.conditioning.settingsRevision
  /\ g.datasetSource = s.conditioning.datasetSource
  /\ g.datasetSourceRevision = s.conditioning.datasetSourceRevision
  /\ IF g.datasetSource = "generated"
     THEN g.selectionRevision = s.generation.selectionRevision
     ELSE g.observed = s.observed

(***************************************************************************)
(* Events of the project and the compiler.                                 *)
(***************************************************************************)
SourceEdited(s, rev) ==
  [InitialState(s.observed) EXCEPT
     !.sourceRevision = rev, !.projectRevision = rev,
     !.generation.inputRevision = rev,
     !.conditioning.datasetSourceRevision = rev]

DocumentsEdited(s, doc, rev) ==
  [s EXCEPT !.observed = doc, !.projectRevision = rev, !.run = RunIdle,
            !.generation = [ClearGeneration(@) EXCEPT !.inputRevision = rev],
            !.conditioning.attempt = ConditioningSettled("idle"),
            !.conditioning.fit = None,
            !.artifacts = {}, !.fitDatasetSource = None]

\* The hash of the last successful compile since the source was edited.
LastHash(s) ==
  IF s.compile.status = "compiled" THEN s.compile.irHash ELSE s.compile.priorIrHash

CompileStarted(s, id, rev) ==
  IF rev # s.sourceRevision THEN s
  ELSE [s EXCEPT !.compile = [status |-> "compiling", requestId |-> id, revision |-> rev,
                              irHash |-> None, priorIrHash |-> LastHash(s)],
                 !.run = RunIdle]

CompileSucceeded(s, id, rev, hash) ==
  IF ~CompileRuns(s, id, rev) \/ rev # s.sourceRevision THEN s
  ELSE [s EXCEPT !.compile = [status |-> "compiled", requestId |-> None, revision |-> rev,
                              irHash |-> hash, priorIrHash |-> None],
                 !.run = RunIdle, !.artifacts = {}, !.fitDatasetSource = None]

CompileFailed(s, id, rev) ==
  IF ~CompileRuns(s, id, rev) THEN s
  ELSE [s EXCEPT !.compile = [CompileIdle EXCEPT !.status = "failed",
                                            !.priorIrHash = s.compile.priorIrHash],
                 !.run = RunIdle]

RunStarted(s, id, rev, src) ==
  IF rev # s.projectRevision THEN s
  ELSE [s EXCEPT !.run = [status |-> "running", requestId |-> id, revision |-> rev,
                          datasetSource |-> src]]

RunFailed(s, id, rev) ==
  IF ~RunRuns(s, id, rev) THEN s ELSE [s EXCEPT !.run = RunSettled("failed", None)]

(***************************************************************************)
(* Events of generation.                                                   *)
(***************************************************************************)
GenerationStarted(s, id, guard) ==
  IF ~MatchesGenerationGuard(s, guard) THEN s
  ELSE [s EXCEPT !.generation.attempt =
          [status |-> "running", requestId |-> id, sourceKind |-> guard.sourceKind,
           sourceFitLineageKey |-> guard.fitLineageKey]]

GenerationSucceeded(s, id, coll, pair, rev) ==
  IF ~GenerationRuns(s, id) THEN s
  ELSE [(IF GeneratedFit(s) THEN DropFitView(s, rev) ELSE s) EXCEPT
          !.generation.attempt = GenerationSettled("completed"),
          !.generation.collection = coll, !.generation.selected = pair,
          !.generation.selectionRevision = rev,
          !.conditioning = ClearGeneratedFit(@)]

GenerationFailed(s, id) ==
  IF ~GenerationRuns(s, id) THEN s
  ELSE [s EXCEPT !.generation.attempt = GenerationSettled("failed")]

\* generation-input-edited, parameter-source-edited and
\* generation-settings-scoped-edited, up to the revision they record.
GenerationEdited(s, rev) ==
  [(IF GeneratedFit(s) THEN DropFitView(s, rev) ELSE s) EXCEPT
     !.generation = ClearGeneration(@), !.conditioning = ClearGeneratedFit(@)]
GenerationInputEdited(s, rev) ==
  [GenerationEdited(s, rev) EXCEPT !.generation.inputRevision = rev]
GenerationSettingsEdited(s, rev) ==
  [GenerationEdited(s, rev) EXCEPT !.generation.settingsRevision = rev]

SelectionEdited(s, pair, rev) ==
  LET generatedFit == GeneratedFit(s) \/ s.run.datasetSource = "generated"
      fromThatFit ==
        /\ generatedFit
        /\ s.generation.attempt.status = "running"
        /\ s.generation.attempt.sourceKind = "posterior"
        /\ s.generation.attempt.sourceFitLineageKey = FitLineage(s)
  IN IF s.generation.collection = None THEN s
     ELSE [(IF generatedFit THEN DropFitView(s, rev) ELSE s) EXCEPT
             !.generation.attempt = IF fromThatFit THEN GenerationSettled("idle") ELSE @,
             !.generation.selected = pair, !.generation.selectionRevision = rev,
             !.conditioning = ClearGeneratedFit(@)]

(***************************************************************************)
(* Events of the observed data and of conditioning.                        *)
(***************************************************************************)
ObservedInputEdited(s, doc, rev) ==
  LET running(src) == /\ s.conditioning.attempt.status = "running"
                      /\ s.conditioning.attempt.datasetSource = src
      completedGenerated == "generated" \in {s.fitDatasetSource, FitSource(s)}
      generatedRun == s.run.status = "running" /\ s.run.datasetSource = "generated"
      edited == [s EXCEPT !.observed = doc]
      idled == [edited EXCEPT
                  !.projectRevision = rev, !.run = RunIdle,
                  !.generation = IF PosteriorGeneration(s) THEN ClearGeneration(@) ELSE @,
                  !.conditioning.attempt = ConditioningSettled("idle")]
  IN IF running("generated") \/ generatedRun \/ (completedGenerated /\ ~running("observed"))
     THEN edited
     ELSE IF completedGenerated THEN idled
     ELSE [idled EXCEPT !.artifacts = WithoutFitArtifacts(@), !.fitDatasetSource = None,
                        !.conditioning.fit = None]

DatasetSourceEdited(s, src, rev) ==
  LET cancels == /\ s.conditioning.attempt.status = "running"
                 /\ s.conditioning.attempt.datasetSource # src
  IN [s EXCEPT
        !.projectRevision = IF cancels THEN rev ELSE @,
        !.run = IF cancels THEN RunIdle ELSE @,
        !.conditioning.attempt = IF cancels THEN ConditioningSettled("idle") ELSE @,
        !.conditioning.datasetSource = src,
        !.conditioning.datasetSourceRevision = rev]

InferenceSettingsEdited(s, rev) ==
  LET cancels == s.conditioning.attempt.status = "running"
  IN [s EXCEPT
        !.projectRevision = IF cancels THEN rev ELSE @,
        !.run = IF cancels THEN RunIdle ELSE @,
        !.conditioning.attempt = ConditioningSettled("idle"),
        !.conditioning.settingsRevision = rev]

ConditioningStarted(s, id, src, guard) ==
  IF ~MatchesConditioningGuard(s, guard) THEN s
  ELSE [s EXCEPT !.conditioning.attempt =
          [status |-> "running", requestId |-> id, datasetSource |-> src]]

ConditioningCommitted(s, id, rev, fit, added) ==
  IF ~ConditioningRuns(s, id) \/ ~RunRuns(s, id, rev) \/ rev # s.projectRevision THEN s
  ELSE [s EXCEPT
          !.run = RunSettled("completed", rev),
          !.artifacts = MergeArtifacts(@, added),
          !.fitDatasetSource = fit.datasetSource,
          !.generation = GenerationAfterFit(@, fit.lineageKey),
          !.conditioning.attempt = ConditioningSettled("completed"),
          !.conditioning.fit = fit]

ConditioningFailed(s, id) ==
  IF ~ConditioningRuns(s, id) THEN s
  ELSE [s EXCEPT !.conditioning.attempt = ConditioningSettled("failed")]

=============================================================================
