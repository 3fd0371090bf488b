--------------------------- MODULE Workflow_proofs ---------------------------
(***************************************************************************)
(* Proofs about Workflow, for every set of hashes, documents and settings, *)
(* and any number of drivers, edits and attempts.                          *)
(*                                                                         *)
(* Results carry what they were computed from, drivers what they captured  *)
(* at the click.  What makes them agree with the state when they land is   *)
(* that a revision is never used twice (Old): as long as the revisions a   *)
(* guard captured are current, so is what was captured with them.          *)
(***************************************************************************)
EXTENDS Workflow, TLAPS

(***************************************************************************)
(* The reducer's state.                                                    *)
(***************************************************************************)
CompileOK(s) ==
  /\ s.compile.status = "compiling" =>
       s.compile.requestId \in Nat /\ s.compile.revision = s.sourceRevision
  /\ s.compile.status = "compiled" =>
       s.compile.irHash \in IrHashes /\ s.compile.revision = s.sourceRevision
  /\ s.compile.status \notin {"compiling", "compiled"} => s.compile.revision = None
  /\ s.compile.status # "compiled" => s.compile.irHash = None

\* A run is of the current project, and of the attempt if that runs too.
RunOK(s) ==
  s.run.status = "running" =>
    /\ s.run.revision = s.projectRevision
    /\ s.conditioning.attempt.status = "running" =>
         /\ s.run.requestId = s.conditioning.attempt.requestId
         /\ s.run.datasetSource = s.conditioning.attempt.datasetSource

AttemptsOK(s) ==
  /\ s.conditioning.attempt.status # "running" => s.conditioning.attempt.datasetSource = None
  /\ /\ s.conditioning.attempt.status = "running"
     /\ s.conditioning.attempt.datasetSource = "generated"
     => s.generation.selected # None
  /\ /\ s.generation.attempt.status = "running"
     /\ s.generation.attempt.sourceKind = "posterior"
     => s.generation.attempt.sourceFitLineageKey = FitLineage(s)

ArtifactsOK(s) ==
  /\ \A a \in s.artifacts :
       a.name \in FitDescendantArtifacts =>
         s.conditioning.fit # None /\ a.lineageKey = FitLineage(s)
  /\ s.fitDatasetSource \in {None, FitSource(s)}

ResultsOK(s) ==
  /\ s.conditioning.fit # None =>
       /\ FitLineage(s).irHash = LastHash(s)
       /\ FitLineage(s).dataset.source = FitSource(s)
  /\ s.generation.collection # None => s.generation.collection.irHash = LastHash(s)
  /\ s.generation.selected # None =>
       /\ s.generation.collection # None
       /\ s.generation.selected.gen = s.generation.collection.gen
       /\ FitSource(s) = "generated" => FitLineage(s).dataset.pair = s.generation.selected

StateOK(s) ==
  s \in States /\ CompileOK(s) /\ RunOK(s) /\ AttemptsOK(s) /\ ArtifactsOK(s) /\ ResultsOK(s)

\* No revision of s is above r.
Old(s, r) ==
  /\ s.sourceRevision <= r /\ s.projectRevision <= r
  /\ s.generation.selectionRevision <= r
  /\ s.conditioning.settingsRevision <= r

(***************************************************************************)
(* The form and the suspended drivers.                                     *)
(***************************************************************************)
Forms == [dataset : DatasetSources, params : ParamSources, settings : Settings]
FormOK(s, f) ==
  /\ f \in Forms
  /\ f.dataset = "generated" => s.generation.selected # None
  /\ s.conditioning.attempt.status = "running" =>
       f.dataset = s.conditioning.attempt.datasetSource

CompileTasks ==
  [kind : {"compile"}, id : Nat, pc : {"running"}, aborted : BOOLEAN,
   sourceRevision : Nat, priorIrHash : Opt(IrHashes)]
GenerationGuards ==
  [compileRevision : Nat, inputRevision : Nat, settingsRevision : Nat,
   sourceKind : SourceKinds, fitLineageKey : Opt(LineageKeys)]
GenerationTasks ==
  [kind : {"generation"}, id : Nat, pc : {"keying", "composing", "running"},
   aborted : BOOLEAN, guard : GenerationGuards, irHash : IrHashes]
FitTasks ==
  [kind : {"conditioning"}, id : Nat, pc : {"keying", "running", "hashing"},
   aborted : BOOLEAN,
   guard : [compileRevision : Nat, settingsRevision : Nat, datasetSource : DatasetSources,
            datasetSourceRevision : Nat, observed : Documents, selectionRevision : Nat],
   dataset : Datasets, settings : Settings, projectRevision : Nat,
   irHash : Opt(IrHashes)]

CompileTaskOK(t, s) ==
  s.compile.status = "compiling" /\ s.compile.requestId = t.id =>
    t.sourceRevision = s.sourceRevision /\ t.priorIrHash = s.compile.priorIrHash

GenerationTaskOK(t, s, r) ==
  /\ t.guard.compileRevision <= r
  /\ t.guard.compileRevision = s.sourceRevision => t.irHash = LastHash(s)
  /\ t.pc # "keying" /\ GenerationRuns(s, t.id) =>
       /\ t.guard.compileRevision = s.sourceRevision
       /\ s.generation.attempt.sourceKind = t.guard.sourceKind
       /\ s.generation.attempt.sourceFitLineageKey = t.guard.fitLineageKey

\* What a fit captured is still there as long as its guard matches, and then
\* as long as it is the current attempt.
FitTaskOK(t, s, f, r) ==
  /\ t.guard.compileRevision <= r /\ t.guard.settingsRevision <= r
  /\ t.guard.selectionRevision <= r
  /\ t.guard.datasetSource = t.dataset.source
  /\ t.dataset.source = "observed" => t.dataset.document = t.guard.observed
  /\ t.pc = "keying" /\ t.guard.compileRevision = s.sourceRevision =>
       /\ t.guard.settingsRevision = s.conditioning.settingsRevision => t.settings = f.settings
       /\ /\ t.dataset.source = "generated"
          /\ t.guard.selectionRevision = s.generation.selectionRevision
          /\ s.generation.selected # None
          => t.dataset.pair = s.generation.selected
  /\ t.pc = "hashing" => t.irHash # None
  /\ t.pc # "keying" /\ ConditioningRuns(s, t.id) =>
       /\ s.conditioning.attempt.datasetSource = t.dataset.source
       /\ t.settings = f.settings
       /\ t.dataset.source = "observed" => t.dataset.document = s.observed
       /\ t.dataset.source = "generated" => t.dataset.pair = s.generation.selected
       /\ t.irHash # None =>
            /\ RunRuns(s, t.id, t.projectRevision)
            /\ s.compile.status = "compiled" /\ s.compile.irHash = t.irHash

TaskOK(t, s, f, r) ==
  \/ t \in CompileTasks /\ CompileTaskOK(t, s)
  \/ t \in GenerationTasks /\ GenerationTaskOK(t, s, r)
  \/ t \in FitTasks /\ FitTaskOK(t, s, f, r)

Numbered ==
  /\ requests \in Nat /\ revision \in Nat
  /\ \A t \in tasks : t.id \in 1..requests
  /\ \A t, u \in tasks : t.id = u.id => t = u
  /\ active \in [Kinds -> Opt(Nat)]

Driven(ts, kind, id) == \E t \in ts : t.kind = kind /\ t.id = id /\ t.pc # "keying"
DrivenIn(ts, s) ==
  /\ s.compile.status = "compiling" => Driven(ts, "compile", s.compile.requestId)
  /\ s.generation.attempt.status = "running" =>
       Driven(ts, "generation", s.generation.attempt.requestId)
  /\ s.conditioning.attempt.status = "running" =>
       Driven(ts, "conditioning", s.conditioning.attempt.requestId)

IInv ==
  /\ StateOK(state) /\ Old(state, revision) /\ FormOK(state, form)
  /\ Numbered
  /\ \A t \in tasks : TaskOK(t, state, form, revision)
  /\ OrphansAreAborted
  /\ DrivenIn(tasks, state)

-----------------------------------------------------------------------------
\* How a step of the drivers moves the state from s to s2, seen by drivers
\* that captured revisions up to r: the step may start the attempts begun,
\* pairs of a kind and an id, every other attempt stays what it is or ends, and
\* what it depends on changes only with a new revision.
Evolves(s, s2, r, begun) ==
  /\ \/ s2.sourceRevision > r
     \/ /\ s2.sourceRevision = s.sourceRevision
        /\ LastHash(s) # None => LastHash(s2) = LastHash(s)
  /\ s2.compile.status = "compiling" /\ <<"compile", s2.compile.requestId>> \notin begun =>
       s2.compile = s.compile /\ s2.sourceRevision = s.sourceRevision
  /\ /\ s2.generation.attempt.status = "running"
     /\ <<"generation", s2.generation.attempt.requestId>> \notin begun
     =>
       /\ s2.generation.attempt = s.generation.attempt
       /\ s2.sourceRevision = s.sourceRevision
  /\ /\ s2.conditioning.attempt.status = "running"
     /\ <<"conditioning", s2.conditioning.attempt.requestId>> \notin begun
     =>
       /\ s2.conditioning.attempt = s.conditioning.attempt
       /\ s.conditioning.attempt.datasetSource = "observed" => s2.observed = s.observed
       /\ s.conditioning.attempt.datasetSource = "generated" =>
            s2.generation.selected = s.generation.selected
       /\ s.run.status = "running" /\ s.compile.status = "compiled" =>
            /\ s2.run = s.run /\ s2.projectRevision = s.projectRevision
            /\ s2.compile = s.compile
  /\ \/ s2.sourceRevision > r
     \/ s2.generation.selectionRevision > r
     \/ /\ s2.generation.selectionRevision = s.generation.selectionRevision
        /\ s2.generation.selected \in {None, s.generation.selected}
  /\ \/ s2.sourceRevision > r
     \/ s2.conditioning.settingsRevision > r
     \/ s2.conditioning.settingsRevision = s.conditioning.settingsRevision

\* The shapes a status can take have their types.
LEMMA Shapes ==
  /\ CompileIdle \in CompileStates
  /\ RunIdle \in RunStates
  /\ \A status \in {"idle", "completed", "failed"} :
       /\ GenerationSettled(status) \in GenerationAttempts
       /\ ConditioningSettled(status) \in ConditioningAttempts
       /\ \A rev \in Opt(Nat) : RunSettled(status, rev) \in RunStates
BY DEF CompileIdle, RunIdle, RunSettled, GenerationSettled, ConditioningSettled,
       CompileStates, RunStates, GenerationAttempts, ConditioningAttempts, Opt

\* The state the page opens with has its type.
LEMMA InitialTyped ==
  ASSUME NEW d \in Documents
  PROVE  InitialState(d) \in States
<1>1. [attempt |-> GenerationSettled("idle"), collection |-> None,
       selected |-> None, inputRevision |-> 0,
       settingsRevision |-> 0, selectionRevision |-> 0] \in GenerationStates
  BY Shapes DEF GenerationStates, Opt
<1>2. [attempt |-> ConditioningSettled("idle"), fit |-> None,
       settingsRevision |-> 0, datasetSource |-> "observed",
       datasetSourceRevision |-> 0] \in ConditioningStates
  BY Shapes DEF ConditioningStates, Opt, DatasetSources
<1> QED BY <1>1, <1>2, Shapes DEF States, InitialState, Opt

\* Every event below leads from a sound state to a sound state, ends what it
\* has to end, and uses no revision but the one it is given.
Follows(s, s2, r, begun) == StateOK(s2) /\ Evolves(s, s2, r, begun)

\* source-edited resets everything under a new source revision.
LEMMA SourceEditedOK ==
  ASSUME NEW s, StateOK(s), NEW r \in Nat, NEW rev \in Nat, rev > r
  PROVE  Follows(s, SourceEdited(s, rev), r, {}) /\ Old(SourceEdited(s, rev), rev)
<1> DEFINE s2 == SourceEdited(s, rev)
<1>1. s2 \in States
  <2>1. InitialState(s.observed) \in States
    BY InitialTyped DEF StateOK, States
  <2> QED BY <2>1 DEF SourceEdited, States, GenerationStates, ConditioningStates
<1>2. /\ s2.sourceRevision = rev /\ s2.projectRevision = rev
      /\ s2.compile = CompileIdle /\ s2.run = RunIdle /\ s2.artifacts = {}
      /\ s2.fitDatasetSource = None
      /\ s2.generation.attempt = GenerationSettled("idle")
      /\ s2.generation.collection = None /\ s2.generation.selected = None
      /\ s2.generation.selectionRevision = 0
      /\ s2.conditioning.attempt = ConditioningSettled("idle")
      /\ s2.conditioning.fit = None /\ s2.conditioning.settingsRevision = 0
  BY DEF SourceEdited, InitialState
<1> HIDE DEF s2
<1>3. StateOK(s2)
  BY <1>1, <1>2 DEF StateOK, CompileOK, RunOK, AttemptsOK, ArtifactsOK, ResultsOK,
                    CompileIdle, RunIdle, RunSettled, GenerationSettled, ConditioningSettled
<1>4. Evolves(s, s2, r, {}) /\ Old(s2, rev)
  BY <1>2 DEF Evolves, Old, CompileIdle, RunIdle, RunSettled, GenerationSettled,
              ConditioningSettled
<1> QED BY <1>3, <1>4 DEF s2, Follows

\* documents-edited drops every result and ends what runs, except a compile.
LEMMA DocumentsEditedOK ==
  ASSUME NEW s, StateOK(s), NEW r \in Nat, NEW rev \in Nat, rev > r, Old(s, rev),
         NEW doc \in Documents
  PROVE  Follows(s, DocumentsEdited(s, doc, rev), r, {}) /\ Old(DocumentsEdited(s, doc, rev), rev)
<1> DEFINE s2 == DocumentsEdited(s, doc, rev)
<1>0. s \in States /\ s.generation \in GenerationStates /\ s.conditioning \in ConditioningStates
  BY DEF StateOK, States
<1>1. s2 \in States
  BY <1>0, Shapes DEF DocumentsEdited, ClearGeneration, States, GenerationStates,
                      ConditioningStates, Opt
<1>2. /\ s2.sourceRevision = s.sourceRevision /\ s2.projectRevision = rev
      /\ s2.compile = s.compile /\ s2.run = RunIdle /\ s2.artifacts = {}
      /\ s2.fitDatasetSource = None
      /\ s2.generation.attempt = GenerationSettled("idle")
      /\ s2.generation.collection = None /\ s2.generation.selected = None
      /\ s2.generation.selectionRevision = s.generation.selectionRevision
      /\ s2.conditioning.attempt = ConditioningSettled("idle")
      /\ s2.conditioning.fit = None
      /\ s2.conditioning.settingsRevision = s.conditioning.settingsRevision
  BY <1>0 DEF DocumentsEdited, ClearGeneration, States, GenerationStates, ConditioningStates
<1> HIDE DEF s2
<1>3. StateOK(s2)
  BY <1>1, <1>2 DEF StateOK, CompileOK, RunOK, AttemptsOK, ArtifactsOK, ResultsOK,
                    RunIdle, RunSettled, GenerationSettled, ConditioningSettled
<1>4. Evolves(s, s2, r, {}) /\ Old(s2, rev)
  BY <1>2 DEF Evolves, Old, LastHash, RunIdle, RunSettled, GenerationSettled,
              ConditioningSettled
<1> QED BY <1>3, <1>4 DEF s2, Follows

\* compile-started: the results stay those of the last successful compile.
LEMMA CompileStartedOK ==
  ASSUME NEW s, StateOK(s), NEW r \in Nat, Old(s, r), NEW rev \in Nat, NEW id \in Nat,
         s.run.status # "running"
  PROVE  LET s2 == CompileStarted(s, id, rev) IN
         Follows(s, s2, r, {<<"compile", id>>}) /\ \A x \in Nat : Old(s, x) => Old(s2, x)
<1> DEFINE s2 == CompileStarted(s, id, rev)
<1>0. s \in States /\ s.compile \in CompileStates
  BY DEF StateOK, States
<1>1. CASE rev # s.sourceRevision
  <2>1. s2 = s
    BY <1>1 DEF CompileStarted
  <2> QED BY <2>1 DEF Follows, Evolves, Old
<1>2. CASE rev = s.sourceRevision
  <2>1. LastHash(s) \in Opt(IrHashes)
    BY <1>0 DEF LastHash, CompileStates, Opt
  <2>2. s2 \in States
    BY <1>0, <1>2, <2>1, Shapes DEF CompileStarted, States, CompileStates, Opt
  <2>3. /\ s2 = [s EXCEPT !.compile = s2.compile, !.run = RunIdle]
        /\ s2.compile.status = "compiling" /\ s2.compile.requestId = id
        /\ s2.compile.revision = s.sourceRevision /\ s2.compile.irHash = None
        /\ s2.compile.priorIrHash = LastHash(s)
    BY <1>0, <1>2 DEF CompileStarted, States
  <2>4. /\ s2.sourceRevision = s.sourceRevision /\ s2.projectRevision = s.projectRevision
        /\ s2.run = RunIdle /\ s2.artifacts = s.artifacts /\ s2.observed = s.observed
        /\ s2.fitDatasetSource = s.fitDatasetSource
        /\ s2.generation = s.generation /\ s2.conditioning = s.conditioning
    BY <1>0, <2>3 DEF States
  <2> HIDE DEF s2
  <2>5. LastHash(s2) = LastHash(s) /\ FitLineage(s2) = FitLineage(s) /\ FitSource(s2) = FitSource(s)
    BY <2>3, <2>4 DEF LastHash, FitLineage, FitSource
  <2>6. StateOK(s2)
    BY <2>2, <2>3, <2>4, <2>5 DEF StateOK, CompileOK, RunOK, AttemptsOK, ArtifactsOK, ResultsOK,
                                  RunIdle, RunSettled
  <2>7. Evolves(s, s2, r, {<<"compile", id>>})
    BY <2>3, <2>4, <2>5 DEF Evolves
  <2>8. \A x \in Nat : Old(s, x) => Old(s2, x)
    BY <2>4 DEF Old
  <2> QED BY <2>6, <2>7, <2>8 DEF s2, Follows
<1> QED BY <1>1, <1>2

\* compile-succeeded, with the bytes of the last success or with none before it.
LEMMA CompileSucceededOK ==
  ASSUME NEW s, StateOK(s), NEW r \in Nat, NEW rev \in Nat, NEW id \in Nat,
         NEW hash \in IrHashes, s.compile.priorIrHash \in {None, hash}
  PROVE  LET s2 == CompileSucceeded(s, id, rev, hash) IN
         /\ Follows(s, s2, r, {}) /\ \A x \in Nat : Old(s, x) => Old(s2, x)
         /\ CompileRuns(s, id, s.sourceRevision) /\ rev = s.sourceRevision =>
              s2.compile.status = "compiled"
<1> DEFINE s2 == CompileSucceeded(s, id, rev, hash)
<1>0. s \in States /\ s.compile \in CompileStates
  BY DEF StateOK, States
<1>1. CASE ~CompileRuns(s, id, rev) \/ rev # s.sourceRevision
  <2>1. s2 = s
    BY <1>1 DEF CompileSucceeded
  <2> QED BY <1>1, <2>1 DEF Follows, Evolves, Old
<1>2. CASE CompileRuns(s, id, rev) /\ rev = s.sourceRevision
  <2>2. s2 \in States
    BY <1>0, <1>2, Shapes DEF CompileSucceeded, States, CompileStates, Opt
  <2>3. /\ s2.compile.status = "compiled" /\ s2.compile.requestId = None
        /\ s2.compile.revision = s.sourceRevision /\ s2.compile.irHash = hash
        /\ s2.sourceRevision = s.sourceRevision /\ s2.projectRevision = s.projectRevision
        /\ s2.run = RunIdle /\ s2.artifacts = {} /\ s2.observed = s.observed
        /\ s2.fitDatasetSource = None
        /\ s2.generation = s.generation /\ s2.conditioning = s.conditioning
        /\ s.compile.status = "compiling"
    BY <1>0, <1>2 DEF CompileSucceeded, States, CompileRuns
  <2> HIDE DEF s2
  <2>4. /\ LastHash(s2) = hash /\ LastHash(s) \in {None, hash}
        /\ FitLineage(s2) = FitLineage(s) /\ FitSource(s2) = FitSource(s)
    BY <2>3 DEF LastHash, FitLineage, FitSource
  <2>5. /\ s.conditioning.fit # None => FitLineage(s).irHash \in IrHashes
        /\ s.generation.collection # None => s.generation.collection.irHash \in IrHashes
    BY <1>0 DEF States, ConditioningStates, GenerationStates, Opt, Fits, LineageKeys, Collections,
                FitLineage
  <2>6. ResultsOK(s2)
    BY <2>3, <2>4, <2>5, NoneAssumption DEF StateOK, ResultsOK
  <2>7. StateOK(s2)
    BY <2>2, <2>3, <2>4, <2>6 DEF StateOK, CompileOK, RunOK, AttemptsOK, ArtifactsOK,
                                  RunIdle, RunSettled
  <2>8. Evolves(s, s2, r, {})
    BY <2>3, <2>4 DEF Evolves
  <2>9. \A x \in Nat : Old(s, x) => Old(s2, x)
    BY <2>3 DEF Old
  <2> QED BY <2>3, <2>7, <2>8, <2>9 DEF s2, Follows
<1> QED BY <1>1, <1>2

\* compile-failed: the hash of the last success is kept for the next one.
LEMMA CompileFailedOK ==
  ASSUME NEW s, StateOK(s), NEW r \in Nat, NEW rev, NEW id
  PROVE  LET s2 == CompileFailed(s, id, rev) IN
         /\ Follows(s, s2, r, {}) /\ \A x \in Nat : Old(s, x) => Old(s2, x)
         /\ CompileRuns(s, id, rev) => s2.compile.status # "compiling"
<1> DEFINE s2 == CompileFailed(s, id, rev)
<1>0. s \in States /\ s.compile \in CompileStates
  BY DEF StateOK, States
<1>1. CASE ~CompileRuns(s, id, rev)
  <2>1. s2 = s
    BY <1>1 DEF CompileFailed
  <2> QED BY <1>1, <2>1 DEF Follows, Evolves, Old
<1>2. CASE CompileRuns(s, id, rev)
  <2>2. s2 \in States
    BY <1>0, <1>2, Shapes DEF CompileFailed, States, CompileStates
  <2>3. /\ s2.compile.status = "failed" /\ s2.compile.revision = None
        /\ s2.compile.irHash = None /\ s2.compile.priorIrHash = s.compile.priorIrHash
        /\ s2.sourceRevision = s.sourceRevision /\ s2.projectRevision = s.projectRevision
        /\ s2.run = RunIdle /\ s2.artifacts = s.artifacts /\ s2.observed = s.observed
        /\ s2.fitDatasetSource = s.fitDatasetSource
        /\ s2.generation = s.generation /\ s2.conditioning = s.conditioning
        /\ s.compile.status = "compiling"
    BY <1>0, <1>2 DEF CompileFailed, States, CompileRuns, CompileIdle
  <2> HIDE DEF s2
  <2>4. /\ LastHash(s2) = LastHash(s)
        /\ FitLineage(s2) = FitLineage(s) /\ FitSource(s2) = FitSource(s)
    BY <2>3 DEF LastHash, FitLineage, FitSource
  <2>5. StateOK(s2)
    BY <2>2, <2>3, <2>4 DEF StateOK, CompileOK, RunOK, AttemptsOK, ArtifactsOK, ResultsOK,
                            RunIdle, RunSettled
  <2>6. Evolves(s, s2, r, {})
    BY <2>3, <2>4 DEF Evolves
  <2>7. \A x \in Nat : Old(s, x) => Old(s2, x)
    BY <2>3 DEF Old
  <2> QED BY <2>3, <2>5, <2>6, <2>7 DEF s2, Follows
<1> QED BY <1>1, <1>2

\* run-failed ends the run it names and touches nothing else.
LEMMA RunFailedOK ==
  ASSUME NEW s, StateOK(s), NEW rev, NEW id
  PROVE  LET s2 == RunFailed(s, id, rev) IN
         /\ StateOK(s2) /\ \A x \in Nat : Old(s, x) => Old(s2, x)
         /\ RunRuns(s, id, rev) => s2.run.status = "failed"
         /\ s2.run # s.run => RunRuns(s, id, rev)
         /\ s2 = [s EXCEPT !.run = s2.run]
<1> DEFINE s2 == RunFailed(s, id, rev)
<1>0. s \in States
  BY DEF StateOK
<1>1. CASE ~RunRuns(s, id, rev)
  <2>1. s2 = s
    BY <1>1 DEF RunFailed
  <2>2. s = [s EXCEPT !.run = s.run]
    BY <1>0 DEF States
  <2> QED BY <1>1, <2>1, <2>2
<1>2. CASE RunRuns(s, id, rev)
  <2>1. s2.run = RunSettled("failed", None) /\ s2 = [s EXCEPT !.run = RunSettled("failed", None)]
    BY <1>0, <1>2 DEF RunFailed, States
  <2>2. RunSettled("failed", None) \in RunStates
    BY Shapes DEF Opt
  <2>3. s2 \in States
    BY <1>0, <2>1, <2>2 DEF States
  <2>4. /\ s2.sourceRevision = s.sourceRevision /\ s2.projectRevision = s.projectRevision
        /\ s2.compile = s.compile /\ s2.artifacts = s.artifacts
        /\ s2.fitDatasetSource = s.fitDatasetSource
        /\ s2.generation = s.generation /\ s2.conditioning = s.conditioning
    BY <1>0, <2>1 DEF States
  <2>5. s2.run.status = "failed"
    BY <2>1 DEF RunSettled
  <2>6. s2 = [s EXCEPT !.run = s2.run]
    BY <2>1
  <2> HIDE DEF s2
  <2>7. StateOK(s2)
    BY <2>3, <2>4, <2>5 DEF StateOK, CompileOK, RunOK, AttemptsOK, ArtifactsOK, ResultsOK,
                            LastHash, FitLineage, FitSource
  <2>8. \A x \in Nat : Old(s, x) => Old(s2, x)
    BY <2>4 DEF Old
  <2> QED BY <1>2, <2>5, <2>6, <2>7, <2>8 DEF s2
<1> QED BY <1>1, <1>2

\* conditioning-failed, of the current attempt.
LEMMA ConditioningFailedOK ==
  ASSUME NEW s, StateOK(s), NEW r \in Nat, NEW id
  PROVE  LET s2 == ConditioningFailed(s, id) IN
         /\ Follows(s, s2, r, {}) /\ \A x \in Nat : Old(s, x) => Old(s2, x)
         /\ s.conditioning.attempt.requestId = id => s2.conditioning.attempt.status # "running"
         /\ s2.run = s.run /\ s2.compile = s.compile /\ s2.generation = s.generation
         /\ s2.conditioning.fit = s.conditioning.fit
         /\ s2.conditioning.attempt.status = "running" => s2 = s
<1> DEFINE s2 == ConditioningFailed(s, id)
<1>0. s \in States /\ s.conditioning \in ConditioningStates
  BY DEF StateOK, States
<1>1. CASE ~ConditioningRuns(s, id)
  <2>1. s2 = s
    BY <1>1 DEF ConditioningFailed
  <2> QED BY <1>1, <2>1 DEF Follows, Evolves, Old, ConditioningRuns
<1>2. CASE ConditioningRuns(s, id)
  <2>1. s2 \in States
    BY <1>0, <1>2, Shapes DEF ConditioningFailed, States, ConditioningStates
  <2>2. /\ s2.sourceRevision = s.sourceRevision /\ s2.projectRevision = s.projectRevision
        /\ s2.compile = s.compile /\ s2.artifacts = s.artifacts
        /\ s2.fitDatasetSource = s.fitDatasetSource /\ s2.observed = s.observed
        /\ s2.generation = s.generation /\ s2.run = s.run
        /\ s2.conditioning.attempt = ConditioningSettled("failed")
        /\ s2.conditioning.fit = s.conditioning.fit
        /\ s2.conditioning.settingsRevision = s.conditioning.settingsRevision
    BY <1>0, <1>2 DEF ConditioningFailed, States, ConditioningStates
  <2> HIDE DEF s2
  <2>3. /\ LastHash(s2) = LastHash(s)
        /\ FitLineage(s2) = FitLineage(s) /\ FitSource(s2) = FitSource(s)
    BY <2>2 DEF LastHash, FitLineage, FitSource
  <2>4. s2.conditioning.attempt.status = "failed" /\ s2.conditioning.attempt.datasetSource = None
    BY <2>2 DEF ConditioningSettled
  <2>5. StateOK(s2)
    BY <2>1, <2>2, <2>3, <2>4 DEF StateOK, CompileOK, RunOK, AttemptsOK, ArtifactsOK, ResultsOK
  <2>6. Evolves(s, s2, r, {})
    BY <2>2, <2>3, <2>4 DEF Evolves
  <2>7. \A x \in Nat : Old(s, x) => Old(s2, x)
    BY <2>2 DEF Old
  <2> QED BY <2>2, <2>4, <2>5, <2>6, <2>7 DEF s2, Follows
<1> QED BY <1>1, <1>2

\* A driver that fails reports to its run, and then to its attempt.
LEMMA FitFailedOK ==
  ASSUME NEW s, StateOK(s), NEW r \in Nat, NEW id, NEW rev, NEW fit,
         RunRuns(s, id, rev) /\ s.conditioning.attempt.status = "running"
           => fit = s.conditioning.attempt.requestId
  PROVE  LET s1 == RunFailed(s, id, rev)
             s2 == ConditioningFailed(s1, fit)
         IN /\ Follows(s, s2, r, {}) /\ Follows(s1, s2, r, {})
            /\ \A x \in Nat : Old(s, x) => Old(s2, x)
            /\ s.conditioning.attempt.requestId = fit => s2.conditioning.attempt.status # "running"
            /\ RunRuns(s, id, rev) => s2.run.status # "running"
<1> DEFINE s1 == RunFailed(s, id, rev)
           s2 == ConditioningFailed(s1, fit)
<1>1. /\ StateOK(s1) /\ \A x \in Nat : Old(s, x) => Old(s1, x)
      /\ RunRuns(s, id, rev) => s1.run.status = "failed"
      /\ s1.run # s.run => RunRuns(s, id, rev)
      /\ s1 = [s EXCEPT !.run = s1.run]
  BY RunFailedOK
<1> HIDE DEF s1
<1>2. /\ s1.sourceRevision = s.sourceRevision /\ s1.projectRevision = s.projectRevision
      /\ s1.compile = s.compile /\ s1.observed = s.observed
      /\ s1.generation = s.generation /\ s1.conditioning = s.conditioning
  BY <1>1 DEF StateOK, States
<1>3. /\ Follows(s1, s2, r, {}) /\ \A x \in Nat : Old(s1, x) => Old(s2, x)
      /\ s1.conditioning.attempt.requestId = fit => s2.conditioning.attempt.status # "running"
      /\ s2.run = s1.run
      /\ s2.conditioning.attempt.status = "running" => s2 = s1
  BY <1>1, ConditioningFailedOK
<1> HIDE DEF s2
<1>4. LastHash(s1) = LastHash(s)
  BY <1>2 DEF LastHash
<1>5. s2.conditioning.attempt.status = "running" => s1.run = s.run
  BY <1>1, <1>2, <1>3
<1>6. Evolves(s, s2, r, {})
  BY <1>2, <1>3, <1>4, <1>5 DEF Follows, Evolves
<1> QED BY <1>1, <1>2, <1>3, <1>6 DEF s1, s2, Follows

\* generation-started: the guard the click captured is still matched, or
\* nothing starts.
LEMMA GenerationStartedOK ==
  ASSUME NEW s, StateOK(s), NEW r \in Nat, NEW id \in Nat, NEW guard \in GenerationGuards
  PROVE  LET s2 == GenerationStarted(s, id, guard) IN
         /\ Follows(s, s2, r, {<<"generation", id>>}) /\ \A x \in Nat : Old(s, x) => Old(s2, x)
         /\ s2 # s => GenerationRuns(s2, id)
         /\ MatchesGenerationGuard(s, guard) =>
              /\ GenerationRuns(s2, id)
              /\ s2.generation.attempt.sourceKind = guard.sourceKind
              /\ s2.generation.attempt.sourceFitLineageKey = guard.fitLineageKey
         /\ s2.sourceRevision = s.sourceRevision /\ s2.compile = s.compile
         /\ s2.conditioning = s.conditioning /\ s2.run = s.run
         /\ s2.generation.selected = s.generation.selected
<1> DEFINE s2 == GenerationStarted(s, id, guard)
<1>0. s \in States /\ s.generation \in GenerationStates
  BY DEF StateOK, States
<1>1. CASE ~MatchesGenerationGuard(s, guard)
  <2>1. s2 = s
    BY <1>1 DEF GenerationStarted
  <2> QED BY <1>1, <2>1 DEF Follows, Evolves
<1>2. CASE MatchesGenerationGuard(s, guard)
  <2> DEFINE attempt == [status |-> "running", requestId |-> id, sourceKind |-> guard.sourceKind,
                         sourceFitLineageKey |-> guard.fitLineageKey]
  <2>1. attempt \in GenerationAttempts
    BY DEF GenerationAttempts, GenerationGuards, Opt
  <2>2. s2 = [s EXCEPT !.generation.attempt = attempt]
    BY <1>2 DEF GenerationStarted
  <2>3. /\ attempt.status = "running" /\ attempt.requestId = id
        /\ attempt.sourceKind = guard.sourceKind
        /\ attempt.sourceFitLineageKey = guard.fitLineageKey
    OBVIOUS
  <2> HIDE DEF s2, attempt
  <2>4. s2 \in States
    BY <1>0, <2>1, <2>2 DEF States, GenerationStates
  <2>5. /\ s2.sourceRevision = s.sourceRevision /\ s2.projectRevision = s.projectRevision
        /\ s2.compile = s.compile /\ s2.artifacts = s.artifacts
        /\ s2.fitDatasetSource = s.fitDatasetSource /\ s2.observed = s.observed
        /\ s2.run = s.run /\ s2.conditioning = s.conditioning
        /\ s2.generation.attempt = attempt
        /\ s2.generation.collection = s.generation.collection
        /\ s2.generation.selected = s.generation.selected
        /\ s2.generation.selectionRevision = s.generation.selectionRevision
    BY <1>0, <2>2 DEF States, GenerationStates
  <2>6. /\ LastHash(s2) = LastHash(s)
        /\ FitLineage(s2) = FitLineage(s) /\ FitSource(s2) = FitSource(s)
    BY <2>5 DEF LastHash, FitLineage, FitSource
  <2>7. AttemptsOK(s2)
    BY <1>2, <2>3, <2>5, <2>6 DEF StateOK, AttemptsOK, MatchesGenerationGuard
  <2>8. StateOK(s2)
    BY <2>4, <2>5, <2>6, <2>7 DEF StateOK, CompileOK, RunOK, ArtifactsOK, ResultsOK
  <2>9. Evolves(s, s2, r, {<<"generation", id>>})
    BY <2>3, <2>5, <2>6 DEF Evolves
  <2>10. \A x \in Nat : Old(s, x) => Old(s2, x)
    BY <2>5 DEF Old
  <2> QED BY <2>3, <2>5, <2>8, <2>9, <2>10 DEF s2, Follows, GenerationRuns
<1> QED BY <1>1, <1>2

\* generation-failed, of the current attempt.
LEMMA GenerationFailedOK ==
  ASSUME NEW s, StateOK(s), NEW r \in Nat, NEW id
  PROVE  LET s2 == GenerationFailed(s, id) IN
         /\ Follows(s, s2, r, {}) /\ \A x \in Nat : Old(s, x) => Old(s2, x)
         /\ s.generation.attempt.requestId = id => s2.generation.attempt.status # "running"
<1> DEFINE s2 == GenerationFailed(s, id)
<1>0. s \in States /\ s.generation \in GenerationStates
  BY DEF StateOK, States
<1>1. CASE ~GenerationRuns(s, id)
  <2>1. s2 = s
    BY <1>1 DEF GenerationFailed
  <2> QED BY <1>1, <2>1 DEF Follows, Evolves, GenerationRuns
<1>2. CASE GenerationRuns(s, id)
  <2>1. s2 \in States
    BY <1>0, <1>2, Shapes DEF GenerationFailed, States, GenerationStates
  <2>2. /\ s2.sourceRevision = s.sourceRevision /\ s2.projectRevision = s.projectRevision
        /\ s2.compile = s.compile /\ s2.artifacts = s.artifacts
        /\ s2.fitDatasetSource = s.fitDatasetSource /\ s2.observed = s.observed
        /\ s2.run = s.run /\ s2.conditioning = s.conditioning
        /\ s2.generation.attempt = GenerationSettled("failed")
        /\ s2.generation.collection = s.generation.collection
        /\ s2.generation.selected = s.generation.selected
        /\ s2.generation.selectionRevision = s.generation.selectionRevision
    BY <1>0, <1>2 DEF GenerationFailed, States, GenerationStates
  <2> HIDE DEF s2
  <2>3. /\ LastHash(s2) = LastHash(s)
        /\ FitLineage(s2) = FitLineage(s) /\ FitSource(s2) = FitSource(s)
    BY <2>2 DEF LastHash, FitLineage, FitSource
  <2>4. s2.generation.attempt.status = "failed"
    BY <2>2 DEF GenerationSettled
  <2>5. StateOK(s2)
    BY <2>1, <2>2, <2>3, <2>4 DEF StateOK, CompileOK, RunOK, AttemptsOK, ArtifactsOK, ResultsOK
  <2>6. Evolves(s, s2, r, {})
    BY <2>2, <2>3, <2>4 DEF Evolves
  <2>7. \A x \in Nat : Old(s, x) => Old(s2, x)
    BY <2>2 DEF Old
  <2> QED BY <2>4, <2>5, <2>6, <2>7 DEF s2, Follows
<1> QED BY <1>1, <1>2

\* Dropping the fit view and a fit of a generated pair: afterwards there is
\* neither such a fit nor such an attempt, and nothing of it is shown.
LEMMA GeneratedFitGone ==
  ASSUME NEW s, StateOK(s), NEW rev \in Nat, NEW drop, GeneratedFit(s) => drop,
         drop => GeneratedFit(s) \/ s.run.datasetSource = "generated"
  PROVE  LET s1 == IF drop THEN DropFitView(s, rev) ELSE s
             c == ClearGeneratedFit(s.conditioning)
         IN /\ s1 \in States /\ c \in ConditioningStates
            /\ s1.sourceRevision = s.sourceRevision /\ s1.compile = s.compile
            /\ s1.observed = s.observed /\ s1.generation = s.generation
            /\ s1.projectRevision \in {rev, s.projectRevision}
            /\ s1.run = s.run \/ s1.run = RunIdle
            /\ \/ s1.run = s.run /\ s1.projectRevision = s.projectRevision
               \/ s.run.status # "running"
               \/ c.attempt.status # "running"
            /\ s1.run.status = "running" => s1.projectRevision = s.projectRevision
            /\ c.attempt = s.conditioning.attempt \/ c.attempt = ConditioningSettled("idle")
            /\ c.attempt.datasetSource # "generated"
            /\ c.fit = s.conditioning.fit \/ c.fit = None
            /\ c.fit # None => c.fit.datasetSource # "generated"
            /\ c.settingsRevision = s.conditioning.settingsRevision
            /\ s1.artifacts \subseteq s.artifacts
            /\ c.fit # s.conditioning.fit =>
                 \A a \in s1.artifacts : a.name \notin FitDescendantArtifacts
            /\ s1.fitDatasetSource \in {None, IF c.fit = None THEN None ELSE c.fit.datasetSource}
<1> DEFINE s1 == IF drop THEN DropFitView(s, rev) ELSE s
           c == ClearGeneratedFit(s.conditioning)
           old == s.conditioning
<1>0. s \in States /\ old \in ConditioningStates
  BY DEF StateOK, States
<1>1. c \in ConditioningStates
  BY <1>0, Shapes DEF ClearGeneratedFit, ConditioningStates, Opt
<1>2. CASE (old.fit # None /\ old.fit.datasetSource = "generated") \/ old.attempt.datasetSource = "generated"
  <2>1. c.attempt = ConditioningSettled("idle") /\ c.fit = None
        /\ c.settingsRevision = old.settingsRevision
    BY <1>0, <1>2 DEF ClearGeneratedFit, ConditioningStates
  <2>2. GeneratedFit(s)
    BY <1>2 DEF GeneratedFit, FitSource
  <2>3. s1 = DropFitView(s, rev)
    BY <2>2
  <2>4. /\ s1.sourceRevision = s.sourceRevision /\ s1.compile = s.compile
        /\ s1.observed = s.observed /\ s1.generation = s.generation
        /\ s1.projectRevision = rev /\ s1.run = RunIdle /\ s1.fitDatasetSource = None
        /\ s1.artifacts = WithoutFitArtifacts(s.artifacts)
    BY <1>0, <2>3 DEF DropFitView, States
  <2>5. s1 \in States
    BY <1>0, <2>3, Shapes DEF DropFitView, States, WithoutFitArtifacts, Opt
  <2> HIDE DEF s1, c
  <2>6. RunIdle.status # "running" /\ ConditioningSettled("idle").status # "running"
        /\ ConditioningSettled("idle").datasetSource # "generated"
    BY NoneAssumption DEF RunIdle, RunSettled, ConditioningSettled, DatasetSources
  <2> QED BY <1>1, <2>1, <2>4, <2>5, <2>6 DEF WithoutFitArtifacts, s1, c
<1>3. CASE ~(old.fit # None /\ old.fit.datasetSource = "generated") /\ old.attempt.datasetSource # "generated"
  <2>1. c = old
    BY <1>3 DEF ClearGeneratedFit
  <2>2. ~GeneratedFit(s) /\ s.fitDatasetSource \in {None, FitSource(s)}
    BY <1>3, NoneAssumption DEF GeneratedFit, FitSource, StateOK, ArtifactsOK, DatasetSources
  <2>3. CASE ~drop
    <3>1. s1 = s
      BY <2>3
    <3>2. s.run.status = "running" => s.projectRevision = s1.projectRevision
      BY <3>1
    <3> QED BY <1>0, <1>1, <1>3, <2>1, <2>2, <3>1, <3>2 DEF FitSource
  <2>4. CASE drop
    <3>1. s.run.datasetSource = "generated"
      BY <2>2, <2>4
    <3>2. s.run.status # "running" \/ old.attempt.status # "running"
      BY <1>3, <3>1 DEF StateOK, RunOK
    <3>3. s1 = DropFitView(s, rev)
      BY <2>4
    <3>4. /\ s1.sourceRevision = s.sourceRevision /\ s1.compile = s.compile
          /\ s1.observed = s.observed /\ s1.generation = s.generation
          /\ s1.projectRevision = rev /\ s1.run = RunIdle /\ s1.fitDatasetSource = None
          /\ s1.artifacts = WithoutFitArtifacts(s.artifacts)
      BY <1>0, <3>3 DEF DropFitView, States
    <3>5. s1 \in States
      BY <1>0, <3>3, Shapes DEF DropFitView, States, WithoutFitArtifacts, Opt
    <3>6. RunIdle.status # "running"
      BY DEF RunIdle, RunSettled
    <3> HIDE DEF s1, c
    <3> QED BY <1>1, <1>3, <2>1, <3>2, <3>4, <3>5, <3>6 DEF WithoutFitArtifacts, s1, c
  <2> QED BY <2>3, <2>4
<1> QED BY <1>2, <1>3

\* Generation becomes g, and what was shown or kept of a generated fit goes.
Regenerated(s, drop, rev, g) ==
  [(IF drop THEN DropFitView(s, rev) ELSE s) EXCEPT
     !.generation = g, !.conditioning = ClearGeneratedFit(s.conditioning)]

\* What generation-input-edited, generation-settings-scoped-edited,
\* generation-succeeded and generated-selection-edited have in common: a fit of
\* a generated pair goes, and generation becomes g.
LEMMA GenerationReplacedOK ==
  ASSUME NEW s, StateOK(s), NEW r \in Nat, NEW rev \in Nat, rev > r, Old(s, rev),
         NEW drop, GeneratedFit(s) => drop,
         drop => GeneratedFit(s) \/ s.run.datasetSource = "generated",
         NEW g \in GenerationStates,
         g.collection # None => g.collection.irHash = LastHash(s),
         g.selected # None => g.collection # None /\ g.selected.gen = g.collection.gen,
         g.attempt.status = "running" => g.attempt = s.generation.attempt,
         /\ g.attempt.status = "running"
         /\ g.attempt.sourceKind = "posterior"
         => ClearGeneratedFit(s.conditioning).fit = s.conditioning.fit,
         \/ /\ g.selectionRevision = s.generation.selectionRevision
            /\ g.selected \in {None, s.generation.selected}
         \/ g.selectionRevision = rev
  PROVE  /\ Follows(s, Regenerated(s, drop, rev, g), r, {})
         /\ Old(Regenerated(s, drop, rev, g), rev)
         /\ Regenerated(s, drop, rev, g).generation = g
         /\ Regenerated(s, drop, rev, g).sourceRevision = s.sourceRevision
         /\ Regenerated(s, drop, rev, g).compile = s.compile
<1> DEFINE s1 == IF drop THEN DropFitView(s, rev) ELSE s
           c == ClearGeneratedFit(s.conditioning)
           s2 == [s1 EXCEPT !.generation = g, !.conditioning = c]
<1>1. /\ s1 \in States /\ c \in ConditioningStates
      /\ s1.sourceRevision = s.sourceRevision /\ s1.compile = s.compile
      /\ s1.observed = s.observed
      /\ s1.projectRevision \in {rev, s.projectRevision}
      /\ s1.run = s.run \/ s1.run = RunIdle
      /\ \/ s1.run = s.run /\ s1.projectRevision = s.projectRevision
         \/ s.run.status # "running"
         \/ c.attempt.status # "running"
      /\ s1.run.status = "running" => s1.projectRevision = s.projectRevision
      /\ c.attempt = s.conditioning.attempt \/ c.attempt = ConditioningSettled("idle")
      /\ c.attempt.datasetSource # "generated"
      /\ c.fit = s.conditioning.fit \/ c.fit = None
      /\ c.fit # None => c.fit.datasetSource # "generated"
      /\ c.settingsRevision = s.conditioning.settingsRevision
      /\ s1.artifacts \subseteq s.artifacts
      /\ c.fit # s.conditioning.fit =>
           \A a \in s1.artifacts : a.name \notin FitDescendantArtifacts
      /\ s1.fitDatasetSource \in {None, IF c.fit = None THEN None ELSE c.fit.datasetSource}
  BY GeneratedFitGone
<1> HIDE DEF s1, c
<1>2. s2 \in States
  BY <1>1 DEF States
<1>3. /\ s2.sourceRevision = s.sourceRevision /\ s2.projectRevision = s1.projectRevision
      /\ s2.compile = s.compile /\ s2.run = s1.run /\ s2.observed = s.observed
      /\ s2.artifacts = s1.artifacts /\ s2.fitDatasetSource = s1.fitDatasetSource
      /\ s2.generation = g /\ s2.conditioning = c
  BY <1>1 DEF States
<1> HIDE DEF s2
<1>4. /\ LastHash(s2) = LastHash(s)
      /\ FitSource(s2) = IF c.fit = None THEN None ELSE c.fit.datasetSource
      /\ FitLineage(s2) = IF c.fit = None THEN None ELSE c.fit.lineageKey
      /\ c.fit = s.conditioning.fit =>
           FitLineage(s2) = FitLineage(s) /\ FitSource(s2) = FitSource(s)
  BY <1>3 DEF LastHash, FitLineage, FitSource
<1>5. /\ ConditioningSettled("idle").status = "idle"
      /\ ConditioningSettled("idle").datasetSource = None
      /\ RunIdle.status = "idle"
  BY DEF ConditioningSettled, RunIdle, RunSettled
<1>6. StateOK(s2)
  <2>1. CompileOK(s2)
    BY <1>3 DEF StateOK, CompileOK
  <2>2. RunOK(s2)
    BY <1>1, <1>3, <1>5 DEF StateOK, RunOK
  <2>3. AttemptsOK(s2)
    BY <1>1, <1>3, <1>4, <1>5 DEF StateOK, AttemptsOK, c
  <2>4. ArtifactsOK(s2)
    BY <1>1, <1>3, <1>4 DEF StateOK, ArtifactsOK
  <2>5. ResultsOK(s2)
    <3>1. FitSource(s2) # "generated"
      BY <1>1, <1>4, NoneAssumption DEF DatasetSources
    <3>2. c.fit # None => c.fit = s.conditioning.fit
      BY <1>1
    <3> QED BY <1>3, <1>4, <3>1, <3>2 DEF StateOK, ResultsOK
  <2> QED BY <1>2, <2>1, <2>2, <2>3, <2>4, <2>5 DEF StateOK
<1>7. Evolves(s, s2, r, {})
  BY <1>1, <1>3, <1>4, <1>5 DEF Evolves
<1>8. Old(s2, rev)
  BY <1>1, <1>3 DEF Old, StateOK, States, GenerationStates
<1>9. Regenerated(s, drop, rev, g) = s2
  BY DEF Regenerated, s1, c, s2
<1> QED BY <1>3, <1>6, <1>7, <1>8, <1>9 DEF Follows

\* generation-input-edited and generation-settings-scoped-edited.
LEMMA GenerationEditedOK ==
  ASSUME NEW s, StateOK(s), NEW r \in Nat, NEW rev \in Nat, rev > r, Old(s, rev)
  PROVE  /\ Follows(s, GenerationInputEdited(s, rev), r, {})
         /\ Old(GenerationInputEdited(s, rev), rev)
         /\ GenerationInputEdited(s, rev).sourceRevision = s.sourceRevision
         /\ GenerationInputEdited(s, rev).compile = s.compile
         /\ Follows(s, GenerationSettingsEdited(s, rev), r, {})
         /\ Old(GenerationSettingsEdited(s, rev), rev)
<1>0. s \in States /\ s.generation \in GenerationStates
  BY DEF StateOK, States
<1>1. PICK drop \in BOOLEAN : drop <=> GeneratedFit(s)
  OBVIOUS
<1>2. ASSUME NEW g \in {[ClearGeneration(s.generation) EXCEPT !.inputRevision = rev],
                        [ClearGeneration(s.generation) EXCEPT !.settingsRevision = rev]}
      PROVE  /\ Follows(s, Regenerated(s, drop, rev, g), r, {})
             /\ Old(Regenerated(s, drop, rev, g), rev)
             /\ Regenerated(s, drop, rev, g).sourceRevision = s.sourceRevision
             /\ Regenerated(s, drop, rev, g).compile = s.compile
  <2>1. g \in GenerationStates
    BY <1>0, Shapes DEF ClearGeneration, GenerationStates, Opt
  <2>2. /\ g.collection = None /\ g.selected = None
        /\ g.attempt = GenerationSettled("idle")
        /\ g.selectionRevision = s.generation.selectionRevision
    BY <1>0 DEF ClearGeneration, GenerationStates
  <2>3. GenerationSettled("idle").status # "running"
    BY DEF GenerationSettled
  <2> QED BY <1>1, <2>1, <2>2, <2>3, GenerationReplacedOK
<1>3. /\ GenerationInputEdited(s, rev) =
           Regenerated(s, drop, rev, [ClearGeneration(s.generation) EXCEPT !.inputRevision = rev])
      /\ GenerationSettingsEdited(s, rev) =
           Regenerated(s, drop, rev, [ClearGeneration(s.generation) EXCEPT !.settingsRevision = rev])
  BY <1>0, <1>1 DEF GenerationInputEdited, GenerationSettingsEdited, GenerationEdited,
                    DropFitView, States, Regenerated
<1> QED BY <1>2, <1>3

\* generation-succeeded.
LEMMA GenerationSucceededOK ==
  ASSUME NEW s, StateOK(s), NEW r \in Nat, NEW rev \in Nat, rev > r, Old(s, rev), NEW id,
         NEW coll \in Collections, NEW pair \in Pairs, pair.gen = coll.gen,
         GenerationRuns(s, id) => coll.irHash = LastHash(s)
  PROVE  LET s2 == GenerationSucceeded(s, id, coll, pair, rev) IN
         /\ Follows(s, s2, r, {}) /\ Old(s2, rev)
         /\ ~GenerationRuns(s2, id)
<1> DEFINE s2 == GenerationSucceeded(s, id, coll, pair, rev)
           g == [s.generation EXCEPT !.attempt = GenerationSettled("completed"),
                                     !.collection = coll, !.selected = pair,
                                     !.selectionRevision = rev]
<1>0. s \in States /\ s.generation \in GenerationStates
  BY DEF StateOK, States
<1>1. CASE ~GenerationRuns(s, id)
  <2>1. s2 = s
    BY <1>1 DEF GenerationSucceeded
  <2> QED BY <1>1, <2>1 DEF Follows, Evolves
<1>2. CASE GenerationRuns(s, id)
  <2>1. PICK drop \in BOOLEAN : drop <=> GeneratedFit(s)
    OBVIOUS
  <2>2. g \in GenerationStates
    BY <1>0, Shapes DEF GenerationStates, Opt
  <2>3. /\ g.collection = coll /\ g.selected = pair /\ g.selectionRevision = rev
        /\ g.attempt = GenerationSettled("completed")
    BY <1>0 DEF GenerationStates
  <2>4. s2 = Regenerated(s, drop, rev, g)
    BY <1>0, <1>2, <2>1 DEF GenerationSucceeded, Regenerated, DropFitView, States, GenerationStates
  <2>5. GenerationSettled("completed").status = "completed"
    BY DEF GenerationSettled
  <2> HIDE DEF s2, g
  <2>6. /\ Follows(s, Regenerated(s, drop, rev, g), r, {})
        /\ Old(Regenerated(s, drop, rev, g), rev)
        /\ Regenerated(s, drop, rev, g).generation = g
    BY <1>2, <2>1, <2>2, <2>3, <2>5, NoneAssumption, GenerationReplacedOK
  <2>7. ~GenerationRuns(s2, id)
    BY <2>3, <2>4, <2>5, <2>6 DEF GenerationRuns
  <2> QED BY <2>4, <2>6, <2>7 DEF s2
<1> QED BY <1>1, <1>2

\* generated-selection-edited.
LEMMA SelectionEditedOK ==
  ASSUME NEW s, StateOK(s), NEW r \in Nat, NEW rev \in Nat, rev > r, Old(s, rev),
         NEW pair \in Pairs,
         s.generation.collection # None => pair.gen = s.generation.collection.gen
  PROVE  Follows(s, SelectionEdited(s, pair, rev), r, {}) /\ Old(SelectionEdited(s, pair, rev), rev)
<1> DEFINE s2 == SelectionEdited(s, pair, rev)
           generatedFit == GeneratedFit(s) \/ s.run.datasetSource = "generated"
           fromThatFit ==
             /\ generatedFit
             /\ s.generation.attempt.status = "running"
             /\ s.generation.attempt.sourceKind = "posterior"
             /\ s.generation.attempt.sourceFitLineageKey = FitLineage(s)
           a == IF fromThatFit THEN GenerationSettled("idle") ELSE s.generation.attempt
           g == [s.generation EXCEPT !.attempt = a, !.selected = pair, !.selectionRevision = rev]
<1>0. s \in States /\ s.generation \in GenerationStates
  BY DEF StateOK, States
<1>1. CASE s.generation.collection = None
  <2>1. s2 = s
    BY <1>1 DEF SelectionEdited
  <2> QED BY <1>1, <2>1 DEF Follows, Evolves
<1>2. CASE s.generation.collection # None
  <2>1. PICK drop \in BOOLEAN : drop <=> generatedFit
    OBVIOUS
  <2>2. a \in GenerationAttempts
    BY <1>0, Shapes DEF GenerationStates
  <2>3. GenerationSettled("idle").status # "running"
    BY DEF GenerationSettled
  <2>4. a.status = "running" => a = s.generation.attempt
    BY <2>3
  <2>5. a.status = "running" /\ a.sourceKind = "posterior" => ~generatedFit
    BY <2>3 DEF StateOK, AttemptsOK
  <2>6. s2 = Regenerated(s, drop, rev, g)
    BY <1>0, <1>2, <2>1 DEF SelectionEdited, Regenerated, DropFitView, States, GenerationStates
  <2> HIDE DEF a
  <2>7. g \in GenerationStates
    BY <1>0, <2>2 DEF GenerationStates, Opt
  <2>8. /\ g.collection = s.generation.collection /\ g.selected = pair
        /\ g.selectionRevision = rev /\ g.attempt = a
    BY <1>0 DEF GenerationStates
  <2>9. ~GeneratedFit(s) => ClearGeneratedFit(s.conditioning) = s.conditioning
    BY DEF GeneratedFit, ClearGeneratedFit, FitSource
  <2>10. g.collection # None => g.collection.irHash = LastHash(s)
    BY <2>8 DEF StateOK, ResultsOK
  <2> HIDE DEF s2, g
  <2>11. /\ Follows(s, Regenerated(s, drop, rev, g), r, {})
         /\ Old(Regenerated(s, drop, rev, g), rev)
    BY <1>2, <2>1, <2>4, <2>5, <2>7, <2>8, <2>9, <2>10, GenerationReplacedOK
  <2> QED BY <2>6, <2>11 DEF s2
<1> QED BY <1>1, <1>2

\* observed-input-edited.
LEMMA ObservedInputEditedOK ==
  ASSUME NEW s, StateOK(s), NEW r \in Nat, NEW rev \in Nat, rev > r, Old(s, rev),
         NEW doc \in Documents
  PROVE  LET s2 == ObservedInputEdited(s, doc, rev) IN
         Follows(s, s2, r, {}) /\ Old(s2, rev)
<1> DEFINE s2 == ObservedInputEdited(s, doc, rev)
           attempt == s.conditioning.attempt
           running(src) == attempt.status = "running" /\ attempt.datasetSource = src
           completedGenerated == "generated" \in {s.fitDatasetSource, FitSource(s)}
           generatedRun == s.run.status = "running" /\ s.run.datasetSource = "generated"
           kept == running("generated") \/ generatedRun
                     \/ (completedGenerated /\ ~running("observed"))
           g == IF PosteriorGeneration(s) THEN ClearGeneration(s.generation) ELSE s.generation
<1>0. s \in States /\ s.generation \in GenerationStates /\ s.conditioning \in ConditioningStates
  BY DEF StateOK, States
<1>1. CASE kept
  <2>1. s2 = [s EXCEPT !.observed = doc]
    BY <1>1 DEF ObservedInputEdited
  <2>2. s2 \in States
    BY <1>0, <2>1 DEF States
  <2>3. /\ s2.sourceRevision = s.sourceRevision /\ s2.projectRevision = s.projectRevision
        /\ s2.compile = s.compile /\ s2.artifacts = s.artifacts
        /\ s2.fitDatasetSource = s.fitDatasetSource
        /\ s2.generation = s.generation /\ s2.run = s.run
        /\ s2.conditioning = s.conditioning
    BY <1>0, <2>1 DEF States
  <2>4. attempt.status = "running" => attempt.datasetSource # "observed"
    BY <1>1 DEF StateOK, RunOK
  <2> HIDE DEF s2
  <2>5. /\ LastHash(s2) = LastHash(s)
        /\ FitLineage(s2) = FitLineage(s) /\ FitSource(s2) = FitSource(s)
    BY <2>3 DEF LastHash, FitLineage, FitSource
  <2>6. StateOK(s2)
    BY <2>2, <2>3, <2>5 DEF StateOK, CompileOK, RunOK, AttemptsOK, ArtifactsOK, ResultsOK
  <2>7. Evolves(s, s2, r, {})
    BY <2>3, <2>4, <2>5 DEF Evolves
  <2> QED BY <2>3, <2>6, <2>7 DEF s2, Follows, Old
<1>2. CASE ~kept
  <2>1. /\ g \in GenerationStates
        /\ g.selectionRevision = s.generation.selectionRevision
        /\ g.selected \in {None, s.generation.selected}
        /\ g.selected # None => g = s.generation
        /\ g.collection # None => g = s.generation
        /\ g.attempt.status = "running" => g = s.generation /\ ~PosteriorGeneration(s)
    BY <1>0, Shapes DEF ClearGeneration, GenerationStates, Opt, PosteriorGeneration,
                        GenerationSettled
  <2>2. /\ ConditioningSettled("idle").status = "idle"
        /\ ConditioningSettled("idle").datasetSource = None
        /\ RunIdle.status = "idle"
    BY DEF ConditioningSettled, RunIdle, RunSettled
  <2> HIDE DEF g
  <2>3. CASE completedGenerated
    <3> DEFINE c == [s.conditioning EXCEPT !.attempt = ConditioningSettled("idle")]
    <3>0. /\ c \in ConditioningStates /\ c.attempt = ConditioningSettled("idle")
          /\ c.fit = s.conditioning.fit /\ c.settingsRevision = s.conditioning.settingsRevision
      BY <1>0, Shapes DEF ConditioningStates
    <3>1. s2 = [s EXCEPT !.observed = doc, !.projectRevision = rev, !.run = RunIdle,
                         !.generation = g, !.conditioning = c]
      BY <1>0, <1>2, <2>3 DEF ObservedInputEdited, States, g
    <3> HIDE DEF s2, c
    <3>2. s2 \in States
      BY <1>0, <2>1, <3>0, <3>1, Shapes DEF States
    <3>3. /\ s2.sourceRevision = s.sourceRevision /\ s2.projectRevision = rev
          /\ s2.compile = s.compile /\ s2.artifacts = s.artifacts
          /\ s2.fitDatasetSource = s.fitDatasetSource
          /\ s2.generation = g /\ s2.run = RunIdle
          /\ s2.conditioning.attempt = ConditioningSettled("idle")
          /\ s2.conditioning.fit = s.conditioning.fit
          /\ s2.conditioning.settingsRevision = s.conditioning.settingsRevision
      BY <1>0, <3>0, <3>1 DEF States
    <3>4. /\ LastHash(s2) = LastHash(s)
          /\ FitLineage(s2) = FitLineage(s) /\ FitSource(s2) = FitSource(s)
      BY <3>3 DEF LastHash, FitLineage, FitSource
    <3>5. StateOK(s2)
      BY <2>1, <2>2, <3>2, <3>3, <3>4
         DEF StateOK, CompileOK, RunOK, AttemptsOK, ArtifactsOK, ResultsOK
    <3>6. Evolves(s, s2, r, {})
      BY <2>1, <2>2, <3>3, <3>4 DEF Evolves
    <3> QED BY <2>1, <3>3, <3>5, <3>6 DEF s2, Follows, Old
  <2>4. CASE ~completedGenerated
    <3> DEFINE c == [s.conditioning EXCEPT !.attempt = ConditioningSettled("idle"),
                                           !.fit = None]
    <3>0. /\ c \in ConditioningStates /\ c.attempt = ConditioningSettled("idle")
          /\ c.fit = None /\ c.settingsRevision = s.conditioning.settingsRevision
      BY <1>0, Shapes DEF ConditioningStates, Opt
    <3>1. s2 = [s EXCEPT !.observed = doc, !.projectRevision = rev, !.run = RunIdle,
                         !.generation = g, !.conditioning = c,
                         !.artifacts = WithoutFitArtifacts(s.artifacts),
                         !.fitDatasetSource = None]
      BY <1>0, <1>2, <2>4 DEF ObservedInputEdited, States, g
    <3> HIDE DEF s2, c
    <3>2. WithoutFitArtifacts(s.artifacts) \in SUBSET Artifacts
      BY <1>0 DEF WithoutFitArtifacts, States
    <3>3. s2 \in States
      BY <1>0, <2>1, <3>0, <3>1, <3>2, Shapes DEF States, Opt
    <3>4. /\ s2.sourceRevision = s.sourceRevision /\ s2.projectRevision = rev
          /\ s2.compile = s.compile /\ s2.artifacts = WithoutFitArtifacts(s.artifacts)
          /\ s2.fitDatasetSource = None
          /\ s2.generation = g /\ s2.run = RunIdle
          /\ s2.conditioning.attempt = ConditioningSettled("idle")
          /\ s2.conditioning.fit = None
          /\ s2.conditioning.settingsRevision = s.conditioning.settingsRevision
      BY <1>0, <3>0, <3>1 DEF States
    <3>5. LastHash(s2) = LastHash(s) /\ FitLineage(s2) = None /\ FitSource(s2) = None
      BY <3>4 DEF LastHash, FitLineage, FitSource
    <3>6. ArtifactsOK(s2) /\ CompileOK(s2) /\ RunOK(s2)
      BY <2>2, <3>4, <3>5 DEF ArtifactsOK, WithoutFitArtifacts, StateOK, CompileOK, RunOK
    <3>7. AttemptsOK(s2) /\ ResultsOK(s2)
      BY <2>1, <2>2, <3>4, <3>5, NoneAssumption
         DEF StateOK, AttemptsOK, ResultsOK, PosteriorGeneration, DatasetSources
    <3>8. Evolves(s, s2, r, {})
      BY <2>1, <2>2, <3>4, <3>5 DEF Evolves
    <3> QED BY <2>1, <3>3, <3>4, <3>6, <3>7, <3>8 DEF s2, Follows, Old, StateOK
  <2> QED BY <2>3, <2>4
<1> QED BY <1>1, <1>2

\* A choice of dataset or of settings may end the attempt and its run.
LEMMA ConditioningEditedOK ==
  ASSUME NEW s, StateOK(s), NEW r \in Nat, NEW rev \in Nat, rev > r, Old(s, rev),
         NEW ends \in BOOLEAN, NEW c \in ConditioningStates,
         c.fit = s.conditioning.fit,
         c.settingsRevision \in {s.conditioning.settingsRevision, rev},
         ends => c.attempt = ConditioningSettled("idle"),
         ~ends => c.attempt \in {s.conditioning.attempt, ConditioningSettled("idle")},
         ~ends /\ s.conditioning.attempt.status = "running" => c.attempt = s.conditioning.attempt,
         NEW s2, s2 = [s EXCEPT !.projectRevision = IF ends THEN rev ELSE @,
                                !.run = IF ends THEN RunIdle ELSE @, !.conditioning = c]
  PROVE  Follows(s, s2, r, {}) /\ Old(s2, rev)
<1>0. s \in States
  BY DEF StateOK
<1>1. s2 \in States
  BY <1>0, Shapes DEF States
<1>2. /\ s2.sourceRevision = s.sourceRevision
      /\ s2.projectRevision = IF ends THEN rev ELSE s.projectRevision
      /\ s2.run = IF ends THEN RunIdle ELSE s.run
      /\ s2.compile = s.compile /\ s2.artifacts = s.artifacts
      /\ s2.fitDatasetSource = s.fitDatasetSource /\ s2.observed = s.observed
      /\ s2.generation = s.generation /\ s2.conditioning = c
  BY <1>0 DEF States
<1>3. /\ ConditioningSettled("idle").status = "idle"
      /\ ConditioningSettled("idle").datasetSource = None
      /\ RunIdle.status = "idle"
  BY DEF ConditioningSettled, RunIdle, RunSettled
<1>4. /\ LastHash(s2) = LastHash(s)
      /\ FitLineage(s2) = FitLineage(s) /\ FitSource(s2) = FitSource(s)
  BY <1>2 DEF LastHash, FitLineage, FitSource
<1>5. StateOK(s2)
  BY <1>1, <1>2, <1>3, <1>4 DEF StateOK, CompileOK, RunOK, AttemptsOK, ArtifactsOK, ResultsOK
<1>6. Evolves(s, s2, r, {})
  BY <1>2, <1>3, <1>4 DEF Evolves
<1> QED BY <1>2, <1>5, <1>6 DEF Follows, Old

\* dataset-source-edited: the attempt that goes on is of the chosen source.
LEMMA DatasetSourceEditedOK ==
  ASSUME NEW s, StateOK(s), NEW r \in Nat, NEW rev \in Nat, rev > r, Old(s, rev),
         NEW src \in DatasetSources
  PROVE  LET s2 == DatasetSourceEdited(s, src, rev) IN
         /\ Follows(s, s2, r, {}) /\ Old(s2, rev)
         /\ s2.conditioning.attempt.status = "running" =>
              s2.conditioning.attempt.datasetSource = src
         /\ s2.sourceRevision = s.sourceRevision /\ s2.observed = s.observed
         /\ s2.generation = s.generation /\ s2.compile = s.compile
<1> DEFINE s2 == DatasetSourceEdited(s, src, rev)
           cancels == /\ s.conditioning.attempt.status = "running"
                      /\ s.conditioning.attempt.datasetSource # src
           c == [s.conditioning EXCEPT
                   !.attempt = IF cancels THEN ConditioningSettled("idle") ELSE @,
                   !.datasetSource = src, !.datasetSourceRevision = rev]
<1>0. s \in States /\ s.conditioning \in ConditioningStates
  BY DEF StateOK, States
<1>1. PICK ends \in BOOLEAN : ends <=> cancels
  OBVIOUS
<1>2. c \in ConditioningStates
  BY <1>0, Shapes DEF ConditioningStates
<1>3. /\ c.fit = s.conditioning.fit /\ c.settingsRevision = s.conditioning.settingsRevision
      /\ ends => c.attempt = ConditioningSettled("idle")
      /\ ~ends => c.attempt = s.conditioning.attempt
  BY <1>0, <1>1 DEF ConditioningStates
<1>4. s2 = [s EXCEPT !.projectRevision = IF ends THEN rev ELSE @,
                     !.run = IF ends THEN RunIdle ELSE @, !.conditioning = c]
  BY <1>0, <1>1 DEF DatasetSourceEdited, States, ConditioningStates
<1> HIDE DEF s2, c
<1>5. Follows(s, s2, r, {}) /\ Old(s2, rev)
  BY <1>2, <1>3, <1>4, ConditioningEditedOK
<1>6. /\ s2.conditioning = c /\ s2.sourceRevision = s.sourceRevision
      /\ s2.observed = s.observed /\ s2.generation = s.generation /\ s2.compile = s.compile
  BY <1>0, <1>4 DEF States
<1>7. ConditioningSettled("idle").status # "running"
  BY DEF ConditioningSettled
<1> QED BY <1>1, <1>3, <1>5, <1>6, <1>7 DEF s2

\* inference-settings-edited ends the attempt.
LEMMA InferenceSettingsEditedOK ==
  ASSUME NEW s, StateOK(s), NEW r \in Nat, NEW rev \in Nat, rev > r, Old(s, rev)
  PROVE  LET s2 == InferenceSettingsEdited(s, rev) IN
         /\ Follows(s, s2, r, {}) /\ Old(s2, rev)
         /\ s2.conditioning.attempt.status # "running"
         /\ s2.conditioning.settingsRevision = rev
<1> DEFINE s2 == InferenceSettingsEdited(s, rev)
           cancels == s.conditioning.attempt.status = "running"
           c == [s.conditioning EXCEPT !.attempt = ConditioningSettled("idle"),
                                       !.settingsRevision = rev]
<1>0. s \in States /\ s.conditioning \in ConditioningStates
  BY DEF StateOK, States
<1>1. PICK ends \in BOOLEAN : ends <=> cancels
  OBVIOUS
<1>2. c \in ConditioningStates
  BY <1>0, Shapes DEF ConditioningStates
<1>3. /\ c.fit = s.conditioning.fit /\ c.settingsRevision = rev
      /\ c.attempt = ConditioningSettled("idle")
  BY <1>0 DEF ConditioningStates
<1>4. s2 = [s EXCEPT !.projectRevision = IF ends THEN rev ELSE @,
                     !.run = IF ends THEN RunIdle ELSE @, !.conditioning = c]
  BY <1>0, <1>1 DEF InferenceSettingsEdited, States, ConditioningStates
<1> HIDE DEF s2, c
<1>5. Follows(s, s2, r, {}) /\ Old(s2, rev)
  BY <1>1, <1>2, <1>3, <1>4, ConditioningEditedOK
<1>6. s2.conditioning = c
  BY <1>0, <1>4 DEF States
<1>7. ConditioningSettled("idle").status # "running"
  BY DEF ConditioningSettled
<1> QED BY <1>3, <1>5, <1>6, <1>7 DEF s2

\* What the attempt id for data from src, guarded by guard, and its run of the
\* project rev leave of s: nothing, a failed attempt or both of them running.
StartsFit(s, r, id, rev, src, guard) ==
  LET s1 == ConditioningStarted(s, id, src, guard)
      s2 == RunStarted(s1, id, rev, src)
      s3 == ConditioningFailed(s2, id)
  IN /\ ConditioningRuns(s1, id) <=> MatchesConditioningGuard(s, guard)
     /\ ~ConditioningRuns(s1, id) => s1 = s
     /\ ConditioningRuns(s1, id) /\ ~RunRuns(s2, id, rev) =>
          /\ Follows(s, s3, r, {}) /\ \A x \in Nat : Old(s, x) => Old(s3, x)
          /\ s3.conditioning.attempt.status # "running"
     /\ ConditioningRuns(s1, id) /\ RunRuns(s2, id, rev) =>
          /\ Follows(s, s2, r, {<<"conditioning", id>>})
          /\ \A x \in Nat : Old(s, x) => Old(s2, x)
          /\ ConditioningRuns(s2, id) /\ s2.projectRevision = rev
          /\ s2.conditioning.attempt.datasetSource = src
          /\ s2.compile = s.compile /\ s2.generation = s.generation
          /\ s2.observed = s.observed /\ s2.sourceRevision = s.sourceRevision

\* conditioning-started and run-started: a run starts with its attempt, or the
\* attempt is retracted.
LEMMA FitStartedOK ==
  ASSUME NEW s, StateOK(s), NEW r \in Nat, NEW id \in Nat, NEW rev \in Nat, NEW guard,
         NEW src \in DatasetSources, src = "generated" => s.generation.selected # None,
         ~ConditioningRuns(s, id)
  PROVE  StartsFit(s, r, id, rev, src, guard)
<1> DEFINE s1 == ConditioningStarted(s, id, src, guard)
           s2 == RunStarted(s1, id, rev, src)
           s3 == ConditioningFailed(s2, id)
           begun == [status |-> "running", requestId |-> id, datasetSource |-> src]
           run == [status |-> "running", requestId |-> id, revision |-> rev,
                   datasetSource |-> src]
<1>0. s \in States /\ s.conditioning \in ConditioningStates
  BY DEF StateOK, States
<1>1. begun \in ConditioningAttempts /\ run \in RunStates
  BY DEF ConditioningAttempts, RunStates, Opt
<1>2. CASE ~MatchesConditioningGuard(s, guard)
  <2>1. s1 = s
    BY <1>2 DEF ConditioningStarted
  <2> QED BY <1>2, <2>1 DEF StartsFit
<1>3. CASE MatchesConditioningGuard(s, guard)
  <2> DEFINE c == [s.conditioning EXCEPT !.attempt = begun]
  <2>1. c \in ConditioningStates /\ c.attempt = begun /\ c.fit = s.conditioning.fit
        /\ c.settingsRevision = s.conditioning.settingsRevision
    BY <1>0, <1>1 DEF ConditioningStates
  <2>2. s1 = [s EXCEPT !.conditioning = c]
    BY <1>0, <1>3 DEF ConditioningStarted, States
  <2>3. /\ begun.status = "running" /\ begun.requestId = id /\ begun.datasetSource = src
        /\ run.status = "running" /\ run.requestId = id /\ run.revision = rev
        /\ run.datasetSource = src
    OBVIOUS
  <2> HIDE DEF s1, c, begun
  <2>4. /\ s1 \in States
        /\ s1.sourceRevision = s.sourceRevision /\ s1.projectRevision = s.projectRevision
        /\ s1.compile = s.compile /\ s1.artifacts = s.artifacts
        /\ s1.fitDatasetSource = s.fitDatasetSource /\ s1.observed = s.observed
        /\ s1.generation = s.generation /\ s1.run = s.run /\ s1.conditioning = c
    BY <1>0, <2>1, <2>2 DEF States
  <2>5. ConditioningRuns(s1, id)
    BY <2>1, <2>3, <2>4 DEF ConditioningRuns
  <2>6. CASE rev # s.projectRevision
    <3>1. s2 = s1
      BY <2>4, <2>6 DEF RunStarted
    <3>2. ~RunRuns(s2, id, rev)
      BY <2>4, <2>6, <3>1 DEF StateOK, RunOK, RunRuns
    <3> DEFINE c3 == [c EXCEPT !.attempt = ConditioningSettled("failed")]
    <3>3. c3 \in ConditioningStates /\ c3.attempt = ConditioningSettled("failed")
          /\ c3.fit = s.conditioning.fit
          /\ c3.settingsRevision = s.conditioning.settingsRevision
      BY <2>1, Shapes DEF ConditioningStates
    <3>4. s3 = [s1 EXCEPT !.conditioning = c3]
      BY <2>4, <2>5, <3>1 DEF ConditioningFailed, States
    <3> HIDE DEF s2, s3, c3
    <3>5. /\ s3 \in States
          /\ s3.sourceRevision = s.sourceRevision /\ s3.projectRevision = s.projectRevision
          /\ s3.compile = s.compile /\ s3.artifacts = s.artifacts
          /\ s3.fitDatasetSource = s.fitDatasetSource /\ s3.observed = s.observed
          /\ s3.generation = s.generation /\ s3.run = s.run /\ s3.conditioning = c3
      BY <2>4, <3>3, <3>4 DEF States
    <3>6. /\ LastHash(s3) = LastHash(s)
          /\ FitLineage(s3) = FitLineage(s) /\ FitSource(s3) = FitSource(s)
      BY <3>3, <3>5 DEF LastHash, FitLineage, FitSource
    <3>7. s3.conditioning.attempt.status = "failed"
          /\ s3.conditioning.attempt.datasetSource = None
      BY <3>3, <3>5 DEF ConditioningSettled
    <3>8. StateOK(s3)
      BY <3>3, <3>5, <3>6, <3>7
         DEF StateOK, CompileOK, RunOK, AttemptsOK, ArtifactsOK, ResultsOK
    <3>9. Evolves(s, s3, r, {}) /\ \A x \in Nat : Old(s, x) => Old(s3, x)
      BY <3>3, <3>5, <3>6, <3>7 DEF Evolves, Old
    <3> QED BY <1>3, <2>5, <3>2, <3>7, <3>8, <3>9 DEF s1, s2, s3, Follows, StartsFit
  <2>7. CASE rev = s.projectRevision
    <3>1. s2 = [s1 EXCEPT !.run = run]
      BY <2>4, <2>7 DEF RunStarted
    <3> HIDE DEF s2, run
    <3>2. /\ s2 \in States
          /\ s2.sourceRevision = s.sourceRevision /\ s2.projectRevision = s.projectRevision
          /\ s2.compile = s.compile /\ s2.artifacts = s.artifacts
          /\ s2.fitDatasetSource = s.fitDatasetSource /\ s2.observed = s.observed
          /\ s2.generation = s.generation /\ s2.run = run /\ s2.conditioning = c
      BY <1>1, <2>4, <3>1 DEF States
    <3>3. /\ LastHash(s2) = LastHash(s)
          /\ FitLineage(s2) = FitLineage(s) /\ FitSource(s2) = FitSource(s)
      BY <2>1, <3>2 DEF LastHash, FitLineage, FitSource
    <3>4. StateOK(s2)
      BY <2>1, <2>3, <2>7, <3>2, <3>3
         DEF StateOK, CompileOK, RunOK, AttemptsOK, ArtifactsOK, ResultsOK
    <3>5. Evolves(s, s2, r, {<<"conditioning", id>>}) /\ \A x \in Nat : Old(s, x) => Old(s2, x)
      BY <2>1, <2>3, <3>2, <3>3 DEF Evolves, Old
    <3>6. ConditioningRuns(s2, id) /\ RunRuns(s2, id, rev)
      BY <2>1, <2>3, <3>2 DEF ConditioningRuns, RunRuns
    <3> QED BY <1>3, <2>1, <2>3, <2>5, <2>7, <3>2, <3>4, <3>5, <3>6
         DEF s1, s2, s3, Follows, StartsFit
  <2> QED BY <2>6, <2>7
<1> QED BY <1>2, <1>3

\* A new fit takes the generations of the fit it replaces with it.
LEMMA GenerationAfterFitOK ==
  ASSUME NEW g \in GenerationStates, NEW key
  PROVE  LET g2 == GenerationAfterFit(g, key) IN
         /\ g2 \in GenerationStates /\ g2.selectionRevision = g.selectionRevision
         /\ g2.collection \in {None, g.collection}
         /\ g2.selected \in {None, g.selected}
         /\ g2.selected # None => g2.collection = g.collection
         /\ g2.attempt.status = "running" =>
              /\ g2.attempt = g.attempt
              /\ g.attempt.sourceKind = "posterior" => g.attempt.sourceFitLineageKey = key
<1> DEFINE staleCollection ==
             /\ g.collection # None
             /\ g.collection.sourceKind = "posterior"
             /\ g.collection.sourceFitLineageKey # key
           staleAttempt ==
             /\ g.attempt.status = "running"
             /\ g.attempt.sourceKind = "posterior"
             /\ g.attempt.sourceFitLineageKey # key
           g2 == [g EXCEPT !.attempt = IF staleAttempt THEN GenerationSettled("idle") ELSE @,
                           !.collection = IF staleCollection THEN None ELSE @,
                           !.selected = IF staleCollection THEN None ELSE @]
<1>1. GenerationAfterFit(g, key) = g2
  BY DEF GenerationAfterFit
<1> HIDE DEF staleCollection
<1>2. /\ g2 \in GenerationStates /\ g2.selectionRevision = g.selectionRevision
      /\ g2.collection = IF staleCollection THEN None ELSE g.collection
      /\ g2.selected = IF staleCollection THEN None ELSE g.selected
      /\ g2.attempt = IF staleAttempt THEN GenerationSettled("idle") ELSE g.attempt
  BY Shapes DEF GenerationStates, Opt
<1>3. GenerationSettled("idle").status # "running"
  BY DEF GenerationSettled
<1> QED BY <1>1, <1>2, <1>3

\* The artifacts of a fit replace all those of the fit before.
LEMMA MergeArtifactsOK ==
  ASSUME NEW arts \in SUBSET Artifacts, NEW added \in SUBSET Artifacts,
         \E a \in added : a.name = "posterior.ndjson",
         \E a \in added : a.name = "data.json"
  PROVE  /\ MergeArtifacts(arts, added) \in SUBSET Artifacts
         /\ \A a \in MergeArtifacts(arts, added) :
              a.name \in FitDescendantArtifacts => a \in added
<1> DEFINE names == {a.name : a \in added}
<1>1. "posterior.ndjson" \in names /\ "data.json" \in names
  OBVIOUS
<1>2. MergeArtifacts(arts, added) =
        {a \in arts : a.name \notin names \cup PosteriorDependents} \cup added
  BY <1>1 DEF MergeArtifacts
<1> HIDE DEF names
<1> QED BY <1>1, <1>2 DEF FitDescendantArtifacts, PosteriorDependents

\* conditioning-committed.
LEMMA ConditioningCommittedOK ==
  ASSUME NEW s, StateOK(s), NEW r \in Nat, NEW id, NEW rev \in Nat,
         NEW fit \in Fits, NEW added \in SUBSET Artifacts,
         \A a \in added : a.lineageKey = fit.lineageKey,
         \E a \in added : a.name = "posterior.ndjson",
         \E a \in added : a.name = "data.json",
         fit.lineageKey.dataset.source = fit.datasetSource,
         ConditioningRuns(s, id) /\ RunRuns(s, id, rev) =>
           /\ fit.lineageKey.irHash = LastHash(s)
           /\ fit.datasetSource = "generated" =>
                fit.lineageKey.dataset.pair = s.generation.selected
  PROVE  LET s2 == ConditioningCommitted(s, id, rev, fit, added) IN
         /\ Follows(s, s2, r, {}) /\ \A x \in Nat : Old(s, x) => Old(s2, x)
         /\ RunRuns(s, id, rev) => ~ConditioningRuns(s2, id)
         /\ s2.conditioning.fit # s.conditioning.fit =>
              ConditioningRuns(s, id) /\ RunRuns(s, id, rev) /\ s2.conditioning.fit = fit
<1> DEFINE s2 == ConditioningCommitted(s, id, rev, fit, added)
           g == GenerationAfterFit(s.generation, fit.lineageKey)
           arts == MergeArtifacts(s.artifacts, added)
           run == RunSettled("completed", rev)
           c == [s.conditioning EXCEPT !.attempt = ConditioningSettled("completed"), !.fit = fit]
<1>0. s \in States /\ s.conditioning \in ConditioningStates /\ s.generation \in GenerationStates
      /\ s.artifacts \in SUBSET Artifacts
  BY DEF StateOK, States
<1>1. CASE ~ConditioningRuns(s, id) \/ ~RunRuns(s, id, rev)
  <2>1. s2 = s
    BY <1>1 DEF ConditioningCommitted
  <2>2. RunRuns(s, id, rev) => ~ConditioningRuns(s, id)
    BY <1>1
  <2> QED BY <2>1, <2>2 DEF Follows, Evolves
<1>2. CASE ConditioningRuns(s, id) /\ RunRuns(s, id, rev)
  <2>1. /\ g \in GenerationStates /\ g.selectionRevision = s.generation.selectionRevision
        /\ g.collection \in {None, s.generation.collection}
        /\ g.selected \in {None, s.generation.selected}
        /\ g.selected # None => g.collection = s.generation.collection
        /\ g.attempt.status = "running" =>
             /\ g.attempt = s.generation.attempt
             /\ g.attempt.sourceKind = "posterior" =>
                  g.attempt.sourceFitLineageKey = fit.lineageKey
    BY <1>0, GenerationAfterFitOK
  <2>2. /\ arts \in SUBSET Artifacts
        /\ \A a \in arts : a.name \in FitDescendantArtifacts => a.lineageKey = fit.lineageKey
    BY <1>0, MergeArtifactsOK
  <2>3. /\ c \in ConditioningStates /\ c.attempt = ConditioningSettled("completed")
        /\ c.fit = fit /\ c.settingsRevision = s.conditioning.settingsRevision
    BY <1>0, Shapes DEF ConditioningStates, Opt
  <2>4. run \in RunStates /\ run.status = "completed"
    BY Shapes DEF RunSettled, Opt
  <2>5. fit \in [datasetSource : DatasetSources, lineageKey : LineageKeys]
    BY DEF Fits
  <2>6. rev = s.projectRevision
    BY <1>2 DEF StateOK, RunOK, RunRuns
  <2>7. s2 = [s EXCEPT !.run = run, !.artifacts = arts, !.fitDatasetSource = fit.datasetSource,
                       !.generation = g, !.conditioning = c]
    BY <1>0, <1>2, <2>6 DEF ConditioningCommitted, States
  <2> HIDE DEF s2, g, arts, run, c
  <2>8. /\ s2 \in States
        /\ s2.sourceRevision = s.sourceRevision /\ s2.projectRevision = s.projectRevision
        /\ s2.compile = s.compile /\ s2.artifacts = arts
        /\ s2.fitDatasetSource = fit.datasetSource /\ s2.observed = s.observed
        /\ s2.generation = g /\ s2.run = run /\ s2.conditioning = c
    BY <1>0, <2>1, <2>2, <2>3, <2>4, <2>5, <2>7 DEF States, Opt
  <2>9. fit # None
    BY NoneAssumption
  <2>10. /\ LastHash(s2) = LastHash(s)
         /\ FitLineage(s2) = fit.lineageKey /\ FitSource(s2) = fit.datasetSource
    BY <2>3, <2>8, <2>9 DEF LastHash, FitLineage, FitSource
  <2>11. ConditioningSettled("completed").status = "completed"
         /\ ConditioningSettled("completed").datasetSource = None
    BY DEF ConditioningSettled
  <2>12. CompileOK(s2) /\ RunOK(s2) /\ AttemptsOK(s2)
    BY <2>1, <2>3, <2>4, <2>8, <2>10, <2>11 DEF StateOK, CompileOK, RunOK, AttemptsOK
  <2>13. ArtifactsOK(s2)
    BY <2>2, <2>3, <2>8, <2>9, <2>10 DEF ArtifactsOK
  <2>14. ResultsOK(s2)
    BY <1>2, <2>1, <2>3, <2>8, <2>10 DEF StateOK, ResultsOK
  <2>15. Evolves(s, s2, r, {})
    BY <2>1, <2>3, <2>8, <2>10, <2>11 DEF Evolves
  <2>16. \A x \in Nat : Old(s, x) => Old(s2, x)
    BY <2>1, <2>3, <2>8 DEF Old
  <2>17. ~ConditioningRuns(s2, id) /\ s2.conditioning.fit = fit
    BY <2>3, <2>8, <2>11 DEF ConditioningRuns
  <2> QED BY <1>2, <2>8, <2>12, <2>13, <2>14, <2>15, <2>16, <2>17 DEF s2, Follows, StateOK
<1> QED BY <1>1, <1>2

-----------------------------------------------------------------------------
(***************************************************************************)
(* Drivers across a step.                                                  *)
(***************************************************************************)
\* Two events in a row are a step.
LEMMA EvolvesTwice ==
  ASSUME NEW s, NEW s1, NEW s2, NEW r, NEW begun1, NEW begun2,
         Evolves(s, s1, r, begun1), Evolves(s1, s2, r, begun2)
  PROVE  Evolves(s, s2, r, begun1 \cup begun2)
BY DEF Evolves

\* An abort changes nothing a driver has captured.
LEMMA AbortedTaskOK ==
  ASSUME NEW s, NEW f, NEW r, NEW t, TaskOK(t, s, f, r)
  PROVE  LET u == [t EXCEPT !.aborted = TRUE] IN
         /\ TaskOK(u, s, f, r) /\ u.aborted
         /\ u.id = t.id /\ u.kind = t.kind /\ u.pc = t.pc
<1> DEFINE u == [t EXCEPT !.aborted = TRUE]
<1>1. CASE t \in CompileTasks /\ CompileTaskOK(t, s)
  <2>1. /\ u \in CompileTasks /\ u.aborted /\ u.id = t.id /\ u.kind = t.kind /\ u.pc = t.pc
        /\ u.sourceRevision = t.sourceRevision /\ u.priorIrHash = t.priorIrHash
    BY <1>1 DEF CompileTasks
  <2> QED BY <1>1, <2>1 DEF TaskOK, CompileTaskOK
<1>2. CASE t \in GenerationTasks /\ GenerationTaskOK(t, s, r)
  <2>1. /\ u \in GenerationTasks /\ u.aborted /\ u.id = t.id /\ u.kind = t.kind
        /\ u.pc = t.pc /\ u.guard = t.guard /\ u.irHash = t.irHash
    BY <1>2 DEF GenerationTasks
  <2> QED BY <1>2, <2>1 DEF TaskOK, GenerationTaskOK
<1>3. CASE t \in FitTasks /\ FitTaskOK(t, s, f, r)
  <2>1. /\ u \in FitTasks /\ u.aborted /\ u.id = t.id /\ u.kind = t.kind
        /\ u.pc = t.pc /\ u.guard = t.guard /\ u.irHash = t.irHash
        /\ u.dataset = t.dataset /\ u.settings = t.settings
        /\ u.projectRevision = t.projectRevision
    BY <1>3 DEF FitTasks
  <2> HIDE DEF u
  <2>2. FitTaskOK(u, s, f, r)
    BY <1>3, <2>1 DEF FitTaskOK
  <2> QED BY <2>1, <2>2 DEF TaskOK, u
<1> QED BY <1>1, <1>2, <1>3 DEF TaskOK

\* A step from the state s and the form f to s2 and f2 that begins the attempts
\* begun, by revisions above r and up to r2.
Carries(s, f, r, s2, f2, r2, begun) ==
  /\ StateOK(s) /\ StateOK(s2) /\ Evolves(s, s2, r, begun)
  /\ r \in Nat /\ r2 \in Nat /\ r <= r2
  /\ \/ f2.settings = f.settings
     \/ /\ s2.conditioning.attempt.status # "running"
        /\ s2.sourceRevision > r \/ s2.conditioning.settingsRevision > r

\* What the drivers that do not act have captured stays right.
LEMMA TaskEvolves ==
  ASSUME NEW s, NEW f, NEW r, NEW s2, NEW f2, NEW r2, NEW begun,
         Carries(s, f, r, s2, f2, r2, begun),
         NEW t, TaskOK(t, s, f, r), <<t.kind, t.id>> \notin begun
  PROVE  TaskOK(t, s2, f2, r2)
<1> USE DEF Carries
<1>0. /\ s.sourceRevision \in Nat /\ s2.sourceRevision \in Nat
      /\ s.conditioning.settingsRevision \in Nat /\ s2.conditioning.settingsRevision \in Nat
      /\ s.generation.selectionRevision \in Nat /\ s2.generation.selectionRevision \in Nat
  BY DEF StateOK, States, GenerationStates, ConditioningStates
<1>1. CASE t \in CompileTasks /\ CompileTaskOK(t, s)
  <2>1. t.kind = "compile"
    BY <1>1 DEF CompileTasks
  <2>2. CompileTaskOK(t, s2)
    BY <1>1, <2>1 DEF CompileTaskOK, Evolves
  <2> QED BY <1>1, <2>2 DEF TaskOK
<1>2. CASE t \in GenerationTasks /\ GenerationTaskOK(t, s, r)
  <2>1. /\ t.kind = "generation" /\ t.irHash \in IrHashes /\ t.guard.compileRevision \in Nat
        /\ t.irHash # None
    BY <1>2, NoneAssumption DEF GenerationTasks, GenerationGuards
  <2>2. t.guard.compileRevision = s2.sourceRevision => t.irHash = LastHash(s2)
    BY <1>0, <1>2, <2>1 DEF GenerationTaskOK, Evolves
  <2>3. GenerationTaskOK(t, s2, r2)
    BY <1>0, <1>2, <2>1, <2>2 DEF GenerationTaskOK, Evolves, GenerationRuns
  <2> QED BY <1>2, <2>3 DEF TaskOK
<1>3. CASE t \in FitTasks /\ FitTaskOK(t, s, f, r)
  <2>1. /\ t.kind = "conditioning" /\ t.guard.compileRevision \in Nat
        /\ t.guard.settingsRevision \in Nat /\ t.guard.selectionRevision \in Nat
    BY <1>3 DEF FitTasks
  <2>2. ASSUME t.pc = "keying", t.guard.compileRevision = s2.sourceRevision
        PROVE  /\ t.guard.settingsRevision = s2.conditioning.settingsRevision
                    => t.settings = f2.settings
               /\ /\ t.dataset.source = "generated"
                  /\ t.guard.selectionRevision = s2.generation.selectionRevision
                  /\ s2.generation.selected # None
                  => t.dataset.pair = s2.generation.selected
    <3>1. t.guard.compileRevision = s.sourceRevision /\ ~(s2.sourceRevision > r)
      BY <1>0, <1>3, <2>1, <2>2 DEF FitTaskOK, Evolves
    <3>2. t.guard.settingsRevision = s2.conditioning.settingsRevision
            => t.settings = f2.settings
      BY <1>0, <1>3, <2>1, <2>2, <3>1 DEF FitTaskOK, Evolves
    <3>3. t.guard.selectionRevision = s2.generation.selectionRevision
            => ~(s2.generation.selectionRevision > r)
      BY <1>0, <1>3, <2>1 DEF FitTaskOK
    <3> QED BY <1>3, <2>2, <3>1, <3>2, <3>3 DEF FitTaskOK, Evolves
  <2>3. ASSUME t.pc # "keying", ConditioningRuns(s2, t.id)
        PROVE  /\ s2.conditioning.attempt.datasetSource = t.dataset.source
               /\ t.settings = f2.settings
               /\ t.dataset.source = "observed" => t.dataset.document = s2.observed
               /\ t.dataset.source = "generated" => t.dataset.pair = s2.generation.selected
               /\ t.irHash # None =>
                    /\ RunRuns(s2, t.id, t.projectRevision)
                    /\ s2.compile.status = "compiled" /\ s2.compile.irHash = t.irHash
    <3>1. /\ s2.conditioning.attempt = s.conditioning.attempt /\ f2.settings = f.settings
          /\ ConditioningRuns(s, t.id)
      BY <2>1, <2>3 DEF Evolves, ConditioningRuns
    <3> QED BY <1>3, <2>1, <2>3, <3>1 DEF FitTaskOK, Evolves, ConditioningRuns, RunRuns
  <2>4. /\ t.guard.compileRevision <= r2 /\ t.guard.settingsRevision <= r2
        /\ t.guard.selectionRevision <= r2
    BY <1>3, <2>1 DEF FitTaskOK
  <2>5. FitTaskOK(t, s2, f2, r2)
    BY <1>3, <2>2, <2>3, <2>4 DEF FitTaskOK
  <2> QED BY <1>3, <2>5 DEF TaskOK
<1> QED BY <1>1, <1>2, <1>3 DEF TaskOK

\* render() keeps the form in step with the state it ends in.
LEMMA RenderedOK ==
  ASSUME NEW s, StateOK(s), NEW path, s \in path, NEW f \in Forms,
         s.conditioning.attempt.status = "running" =>
           f.dataset = s.conditioning.attempt.datasetSource,
         \A p \in path : \/ s.conditioning.attempt.status # "running"
                         \/ s.conditioning.attempt.datasetSource # "generated"
                         \/ p.generation.selected # None
  PROVE  FormOK(s, Rendered(f, path)) /\ Rendered(f, path).settings = f.settings
<1> DEFINE cleared == \E p \in path : p.generation.selected = None
           params == IF \/ f.params = "posterior" /\ \E p \in path : ~PosteriorAvailable(p)
                        \/ f.params = "other-prior" /\ \E p \in path : p.compile.status # "compiled"
                     THEN "fixed" ELSE f.params
           f2 == [f EXCEPT !.dataset = IF cleared THEN "observed" ELSE @, !.params = params]
<1>1. Rendered(f, path) = f2
  BY DEF Rendered, Forms
<1>2. params \in ParamSources
  BY DEF Forms, ParamSources
<1> HIDE DEF params
<1>3. /\ f2 \in Forms /\ f2.settings = f.settings
      /\ f2.dataset = IF cleared THEN "observed" ELSE f.dataset
  BY <1>2 DEF Forms, DatasetSources
<1> HIDE DEF f2
<1>4. f2.dataset = "generated" => s.generation.selected # None
  BY <1>3
<1>5. ASSUME s.conditioning.attempt.status = "running"
      PROVE  f2.dataset = s.conditioning.attempt.datasetSource
  <2>1. f.dataset = s.conditioning.attempt.datasetSource /\ f.dataset \in DatasetSources
    BY <1>5 DEF Forms
  <2> QED BY <1>3, <1>5, <2>1 DEF DatasetSources
<1> QED BY <1>1, <1>3, <1>4, <1>5 DEF FormOK

\* The drivers and controllers a block starts its dispatches with.
Ready(ts, act, n) ==
  /\ n \in Nat
  /\ \A t \in ts : t.id \in 1..n
  /\ \A t, u \in ts : t.id = u.id => t = u
  /\ act \in [Kinds -> Opt(Nat)]
  /\ \A t \in ts : ~t.aborted /\ t.pc # "keying" => act[t.kind] = t.id

\* dispatch() restores the invariant.
LEMMA BlockOK ==
  ASSUME NEW s, NEW path, s \in path, NEW f, NEW ts, NEW act,
         Ready(ts, act, requests'), Block(s, path, f, ts, act),
         revision' \in Nat, StateOK(s), Old(s, revision'), FormOK(s, Rendered(f, path)),
         \A t \in ts : TaskOK(t, s, Rendered(f, path), revision'), DrivenIn(ts, s)
  PROVE  IInv'
<1> DEFINE ids == Dropped(act, path)
           Ab(t) == IF t.id \in ids THEN [t EXCEPT !.aborted = TRUE] ELSE t
<1>1. /\ state' = s /\ form' = Rendered(f, path) /\ active' = Survivors(act, path)
      /\ tasks' = {Ab(t) : t \in ts}
  BY DEF Block, AbortAll
<1>2. ASSUME NEW t \in ts
      PROVE  /\ TaskOK(Ab(t), s, Rendered(f, path), revision')
             /\ Ab(t).id = t.id /\ Ab(t).kind = t.kind /\ Ab(t).pc = t.pc
             /\ ~Ab(t).aborted => t.id \notin ids /\ ~t.aborted
  BY AbortedTaskOK
<1> HIDE DEF Ab, ids
<1>3. StateOK(state)' /\ Old(state, revision)' /\ FormOK(state, form)'
  BY <1>1
<1>4. \A t \in tasks' : TaskOK(t, state', form', revision')
  BY <1>1, <1>2
<1>5. \A k \in Kinds : Survivors(act, path)[k] \in {None, act[k]}
  BY DEF Survivors
<1>6. Numbered'
  <2>1. \A t \in tasks' : t.id \in 1..requests'
    BY <1>1, <1>2 DEF Ready
  <2>2. \A t, u \in tasks' : t.id = u.id => t = u
    BY <1>1, <1>2 DEF Ready
  <2>3. active' \in [Kinds -> Opt(Nat)]
    BY <1>1, <1>5 DEF Ready, Survivors, Opt
  <2> QED BY <2>1, <2>2, <2>3 DEF Numbered, Ready
<1>7. OrphansAreAborted'
  <2> SUFFICES ASSUME NEW u \in tasks', ~u.aborted, u.pc # "keying"
               PROVE  Matches(u.kind, u.id, state') /\ active'[u.kind] = u.id
    BY DEF OrphansAreAborted
  <2>1. PICK t \in ts : u = Ab(t)
    BY <1>1
  <2>2. /\ act[t.kind] = t.id /\ t.id \notin ids /\ t.id \in Nat
    BY <1>2, <2>1 DEF Ready
  <2>3. t.kind \in Kinds
    BY DEF TaskOK, CompileTasks, GenerationTasks, FitTasks, Kinds
  <2>4. t.id # None
    BY <2>2, NoneAssumption
  <2>5. Survivors(act, path)[t.kind] = act[t.kind]
    BY <2>2, <2>3 DEF ids, Dropped
  <2>6. \A p \in path : Matches(t.kind, act[t.kind], p)
    BY <2>2, <2>3, <2>4, <2>5 DEF Survivors
  <2> QED BY <1>1, <1>2, <2>1, <2>2, <2>5, <2>6
<1>8. DrivenIn(tasks, state)'
  <2>1. \A kind, id : Driven(ts, kind, id) => Driven(tasks', kind, id)
    BY <1>1, <1>2 DEF Driven
  <2> QED BY <1>1, <2>1 DEF DrivenIn
<1> QED BY <1>3, <1>4, <1>6, <1>7, <1>8 DEF IInv

\* The attempt of driver t is under way in s.
Current(t, s) ==
  \/ t.kind = "compile" /\ s.compile.status = "compiling" /\ s.compile.requestId = t.id
  \/ t.kind = "generation" /\ GenerationRuns(s, t.id)
  \/ t.kind = "conditioning" /\ ConditioningRuns(s, t.id)

\* A step that starts no attempt, and after which the drivers in gone have
\* returned.
LEMMA DispatchedOK ==
  ASSUME IInv, NEW s, NEW path, s \in path, NEW f \in Forms, NEW gone \in SUBSET tasks, NEW act,
         Ready(tasks \ gone, act, requests),
         Follows(state, s, revision, {}), Old(s, revision'),
         f.dataset = form.dataset \/ (s.conditioning.attempt.status = "running" =>
                                        f.dataset = s.conditioning.attempt.datasetSource),
         \A p \in path : \/ s.conditioning.attempt.status # "running"
                         \/ s.conditioning.attempt.datasetSource # "generated"
                         \/ p.generation.selected # None,
         \/ f.settings = form.settings
         \/ /\ s.conditioning.attempt.status # "running"
            /\ s.sourceRevision > revision \/ s.conditioning.settingsRevision > revision,
         \A t \in gone : t.pc # "keying" => ~Current(t, s),
         Block(s, path, f, tasks \ gone, act),
         requests' = requests, revision' \in Nat, revision <= revision'
  PROVE  IInv'
<1>1. /\ StateOK(s) /\ Evolves(state, s, revision, {}) /\ StateOK(state)
      /\ FormOK(state, form) /\ revision \in Nat
      /\ \A t \in tasks : TaskOK(t, state, form, revision)
  BY DEF IInv, Follows, Numbered
<1>2. s.conditioning.attempt.status = "running" =>
        f.dataset = s.conditioning.attempt.datasetSource
  BY <1>1 DEF Evolves, FormOK
<1>3. FormOK(s, Rendered(f, path)) /\ Rendered(f, path).settings = f.settings
  BY <1>1, <1>2, RenderedOK
<1> DEFINE g == Rendered(f, path)
<1> HIDE DEF g
<1>4. \A t \in tasks \ gone : TaskOK(t, s, g, revision')
  <2>0. PICK none : none = {}
    OBVIOUS
  <2>1. Carries(state, form, revision, s, g, revision', none)
    BY <1>1, <1>3, <2>0 DEF Carries, g
  <2> SUFFICES ASSUME NEW t \in tasks \ gone PROVE TaskOK(t, s, g, revision')
    OBVIOUS
  <2>2. TaskOK(t, state, form, revision) /\ <<t.kind, t.id>> \notin none
    BY <1>1, <2>0
  <2> QED BY <2>1, <2>2, TaskEvolves
<1>5. DrivenIn(tasks \ gone, s)
  <2>1. s.compile.status = "compiling" => Driven(tasks \ gone, "compile", s.compile.requestId)
    BY <1>1 DEF IInv, DrivenIn, Driven, Evolves, Current
  <2>2. s.generation.attempt.status = "running" =>
          Driven(tasks \ gone, "generation", s.generation.attempt.requestId)
    BY <1>1 DEF IInv, DrivenIn, Driven, Evolves, Current, GenerationRuns
  <2>3. s.conditioning.attempt.status = "running" =>
          Driven(tasks \ gone, "conditioning", s.conditioning.attempt.requestId)
    BY <1>1 DEF IInv, DrivenIn, Driven, Evolves, Current, ConditioningRuns
  <2> QED BY <2>1, <2>2, <2>3 DEF DrivenIn
<1> QED BY <1>1, <1>3, <1>4, <1>5, BlockOK DEF g

\* A step that starts the attempt of driver u, new or resumed after its digest.
LEMMA LaunchedOK ==
  ASSUME IInv, NEW s, NEW u, u.kind \in Kinds, u.pc # "keying",
         u.id \in 1..requests', requests' \in {requests, requests + 1},
         \A t \in tasks : t.id = u.id => t.pc = "keying",
         Follows(state, s, revision, {<<u.kind, u.id>>}), Old(s, revision),
         s.conditioning.attempt.status = "running" =>
           form.dataset = s.conditioning.attempt.datasetSource,
         TaskOK(u, s, form, revision),
         Block(s, {s}, form, Launched(u), Begin(active, u.kind, u.id)),
         revision' = revision
  PROVE  IInv'
<1> DEFINE others == {t \in tasks : t.id # u.id}
           old == Superseded(active, u.kind, u.id)
           Ab(t) == IF t.id \in old THEN [t EXCEPT !.aborted = TRUE] ELSE t
           act == Begin(active, u.kind, u.id)
<1>1. /\ StateOK(s) /\ Evolves(state, s, revision, {<<u.kind, u.id>>}) /\ StateOK(state)
      /\ FormOK(state, form) /\ revision \in Nat /\ requests \in Nat
      /\ \A t \in tasks : TaskOK(t, state, form, revision) /\ t.id \in 1..requests
      /\ \A t, v \in tasks : t.id = v.id => t = v
      /\ active \in [Kinds -> Opt(Nat)]
  BY DEF IInv, Follows, Numbered
<1>2. Launched(u) = {Ab(t) : t \in others} \cup {u}
  BY DEF Launched, AbortAll
<1>3. FormOK(s, Rendered(form, {s})) /\ Rendered(form, {s}).settings = form.settings
  <2>1. \A p \in {s} : \/ s.conditioning.attempt.status # "running"
                        \/ s.conditioning.attempt.datasetSource # "generated"
                        \/ p.generation.selected # None
    BY <1>1 DEF StateOK, AttemptsOK
  <2>2. form \in Forms
    BY <1>1 DEF FormOK
  <2> QED BY <1>1, <2>1, <2>2, RenderedOK
<1> DEFINE g == Rendered(form, {s})
<1> HIDE DEF g
<1>4. \A t \in tasks : t.id # u.id => TaskOK(t, s, g, revision)
  <2>1. Carries(state, form, revision, s, g, revision, {<<u.kind, u.id>>})
    BY <1>1, <1>3 DEF Carries, g
  <2> SUFFICES ASSUME NEW t \in tasks, t.id # u.id PROVE TaskOK(t, s, g, revision)
    OBVIOUS
  <2>2. TaskOK(t, state, form, revision) /\ <<t.kind, t.id>> \notin {<<u.kind, u.id>>}
    BY <1>1
  <2> QED BY <2>1, <2>2, TaskEvolves
<1>5. ASSUME NEW t \in others
      PROVE  /\ TaskOK(Ab(t), s, g, revision)
             /\ Ab(t).id = t.id /\ Ab(t).kind = t.kind /\ Ab(t).pc = t.pc
             /\ ~Ab(t).aborted => t.id \notin old /\ ~t.aborted
  BY <1>4, AbortedTaskOK
<1>6. TaskOK(u, s, g, revision)
  <2>1. Evolves(s, s, revision, {})
    BY DEF Evolves
  <2>2. Carries(s, form, revision, s, g, revision, {})
    BY <1>1, <1>3, <2>1 DEF Carries, g
  <2>3. <<u.kind, u.id>> \notin {}
    OBVIOUS
  <2> QED BY <2>2, <2>3, TaskEvolves
<1> HIDE DEF Ab
<1>7. \A t \in Launched(u) : TaskOK(t, s, g, revision)
  BY <1>2, <1>5, <1>6
<1>8. DrivenIn(Launched(u), s)
  <2>1. \A kind, id : Driven(tasks, kind, id) => Driven(Launched(u), kind, id)
    BY <1>2, <1>5 DEF Driven
  <2>2. Driven(Launched(u), u.kind, u.id)
    BY <1>2 DEF Driven
  <2>3. s.compile.status = "compiling" => Driven(Launched(u), "compile", s.compile.requestId)
    BY <1>1, <2>1, <2>2 DEF IInv, DrivenIn, Evolves
  <2>4. s.generation.attempt.status = "running" =>
          Driven(Launched(u), "generation", s.generation.attempt.requestId)
    BY <1>1, <2>1, <2>2 DEF IInv, DrivenIn, Evolves
  <2>5. s.conditioning.attempt.status = "running" =>
          Driven(Launched(u), "conditioning", s.conditioning.attempt.requestId)
    BY <1>1, <2>1, <2>2 DEF IInv, DrivenIn, Evolves
  <2> QED BY <2>3, <2>4, <2>5 DEF DrivenIn
<1>9. Ready(Launched(u), act, requests')
  <2>1. act \in [Kinds -> Opt(Nat)] /\ act[u.kind] = u.id
        /\ \A k \in Kinds : k # u.kind => act[k] = active[k]
    BY <1>1 DEF Begin, Opt
  <2>2. ASSUME NEW t \in Launched(u), ~t.aborted, t.pc # "keying"
        PROVE  act[t.kind] = t.id
    <3>1. CASE t = u
      BY <2>1, <3>1
    <3>2. CASE t # u
      <4>1. PICK v \in others : t = Ab(v)
        BY <1>2, <3>2
      <4>2. ~v.aborted /\ v.pc # "keying" /\ v.id \notin old /\ t.id = v.id /\ t.kind = v.kind
        BY <1>5, <2>2, <4>1
      <4>3. active[v.kind] = v.id
        BY <4>2 DEF IInv, OrphansAreAborted
      <4>4. v.kind # u.kind
        BY <1>1, <4>2, <4>3, NoneAssumption DEF Superseded
      <4>5. v.kind \in Kinds
        BY <1>1 DEF TaskOK, CompileTasks, GenerationTasks, FitTasks, Kinds
      <4> QED BY <2>1, <4>2, <4>3, <4>4, <4>5
    <3> QED BY <3>1, <3>2
  <2>3. \A t \in Launched(u) : t.id \in 1..requests'
    BY <1>1, <1>2, <1>5
  <2>4. \A t, v \in Launched(u) : t.id = v.id => t = v
    BY <1>1, <1>2, <1>5
  <2> QED BY <1>1, <2>1, <2>2, <2>3, <2>4 DEF Ready
<1> QED BY <1>1, <1>3, <1>7, <1>8, <1>9, BlockOK DEF g

\* What the invariant says of the drivers and the controllers, also when one
\* driver has returned and has unregistered its controller.
LEMMA DriversReady ==
  ASSUME IInv
  PROVE  /\ Ready(tasks, active, requests)
         /\ \A t \in tasks : /\ Ready(tasks \ {t}, active, requests)
                             /\ Ready(tasks \ {t}, Finish(active, t.kind, t.id), requests)
<1>1. Ready(tasks, active, requests)
  BY DEF IInv, Numbered, OrphansAreAborted, Ready
<1>2. ASSUME NEW t \in tasks
      PROVE  /\ Ready(tasks \ {t}, active, requests)
             /\ Ready(tasks \ {t}, Finish(active, t.kind, t.id), requests)
  <2>1. Ready(tasks \ {t}, active, requests)
    BY <1>1 DEF Ready
  <2>2. ASSUME NEW u \in tasks \ {t}, ~u.aborted, u.pc # "keying"
        PROVE  Finish(active, t.kind, t.id)[u.kind] = u.id
    <3>1. active[u.kind] = u.id /\ u.id # t.id
      BY <1>1, <2>2 DEF Ready
    <3>2. u.kind \in Kinds
      BY <2>2 DEF IInv, TaskOK, CompileTasks, GenerationTasks, FitTasks, Kinds
    <3> QED BY <1>1, <3>1, <3>2 DEF Finish, Ready
  <2>3. Finish(active, t.kind, t.id) \in [Kinds -> Opt(Nat)]
    BY <1>1 DEF Finish, Ready, Opt
  <2> QED BY <1>1, <2>1, <2>2, <2>3 DEF Ready
<1> QED BY <1>1, <1>2

\* A state passed through on the way to s had a selection if an attempt of s
\* is of one.
LEMMA PassedOK ==
  ASSUME NEW p, StateOK(p), NEW s, NEW r, NEW begun, Evolves(p, s, r, begun),
         <<"conditioning", s.conditioning.attempt.requestId>> \notin begun
  PROVE  \/ s.conditioning.attempt.status # "running"
         \/ s.conditioning.attempt.datasetSource # "generated"
         \/ p.generation.selected # None
BY DEF StateOK, AttemptsOK, Evolves

\* A handler that dispatches one event and ends no driver.
LEMMA OneEventOK ==
  ASSUME IInv, NEW s, NEW f \in Forms, Follows(state, s, revision, {}), Old(s, revision'),
         f.dataset = form.dataset \/ (s.conditioning.attempt.status = "running" =>
                                        f.dataset = s.conditioning.attempt.datasetSource),
         \/ f.settings = form.settings
         \/ /\ s.conditioning.attempt.status # "running"
            /\ s.sourceRevision > revision \/ s.conditioning.settingsRevision > revision,
         Block(s, {s}, f, tasks, active),
         requests' = requests, revision' \in Nat, revision <= revision'
  PROVE  IInv'
<1>1. PICK gone \in SUBSET tasks : gone = {}
  OBVIOUS
<1>2. tasks \ gone = tasks
  BY <1>1
<1>3. Ready(tasks \ gone, active, requests) /\ Block(s, {s}, f, tasks \ gone, active)
  BY <1>2, DriversReady
<1>4. PICK path : path = {s}
  OBVIOUS
<1>5. \A p \in path : \/ s.conditioning.attempt.status # "running"
                      \/ s.conditioning.attempt.datasetSource # "generated"
                      \/ p.generation.selected # None
  BY <1>4 DEF Follows, StateOK, AttemptsOK
<1>6. \A t \in gone : t.pc # "keying" => ~Current(t, s)
  BY <1>1
<1>7. s \in path /\ Block(s, path, f, tasks \ gone, active)
  BY <1>3, <1>4
<1> QED BY <1>3, <1>5, <1>6, <1>7, DispatchedOK

\* An edit keeps the invariant.
LEMMA EditsInv ==
  ASSUME IInv, Edits, ~LoadProject
  PROVE  IInv'
<1>1. /\ StateOK(state) /\ Old(state, revision) /\ revision \in Nat /\ form \in Forms
      /\ FormOK(state, form)
  BY DEF IInv, Numbered, FormOK
<1>2. Rev \in Nat /\ Rev > revision /\ Old(state, Rev)
  BY <1>1 DEF Rev, Old, StateOK, States, GenerationStates, ConditioningStates
<1>3. state.observed \in Documents
  BY <1>1 DEF StateOK, States
<1>4. ASSUME NEW s, Follows(state, s, revision, {}), Old(s, Rev), Edit(s)
      PROVE  IInv'
  <2>1. revision' = Rev /\ requests' = requests /\ Block(s, {s}, form, tasks, active)
    BY <1>1, <1>4 DEF Edit, Bump, Rev
  <2> QED BY <1>1, <1>2, <1>4, <2>1, OneEventOK
<1>5. CASE EditSource
  BY <1>1, <1>2, <1>4, <1>5, SourceEditedOK DEF EditSource
<1>6. CASE EditObserved
  BY <1>1, <1>2, <1>4, <1>6, ObservedInputEditedOK DEF EditObserved
<1>7. CASE EditGenerationInputs
  BY <1>1, <1>2, <1>4, <1>7, GenerationEditedOK DEF EditGenerationInputs
<1>8. CASE EditGenerationSettings
  BY <1>1, <1>2, <1>4, <1>8, GenerationEditedOK DEF EditGenerationSettings
<1>9. CASE SelectPair
  <2>1. PICK i \in Indices :
          Edit(SelectionEdited(state, [gen |-> state.generation.collection.gen, index |-> i], Rev))
    BY <1>9 DEF SelectPair
  <2>2. state.generation.collection \in Collections
    BY <1>1, <1>9 DEF SelectPair, StateOK, States, GenerationStates, Opt
  <2> DEFINE pair == [gen |-> state.generation.collection.gen, index |-> i]
  <2>3. pair \in Pairs /\ pair.gen = state.generation.collection.gen
    BY <2>2 DEF Pairs, Collections
  <2> HIDE DEF pair
  <2>4. Edit(SelectionEdited(state, pair, Rev))
    BY <2>1 DEF pair
  <2> QED BY <1>1, <1>2, <1>4, <2>3, <2>4, SelectionEditedOK
<1>10. CASE ChooseParameterSource
  <2> DEFINE s == GenerationInputEdited(state, Rev)
  <2>1. PICK p \in ParamSources : /\ Block(s, {s}, [form EXCEPT !.params = p], tasks, active)
                                  /\ revision' = Rev /\ requests' = requests
    BY <1>1, <1>10 DEF ChooseParameterSource, Bump, Rev
  <2>2. Follows(state, s, revision, {}) /\ Old(s, revision')
    BY <1>1, <1>2, <2>1, GenerationEditedOK
  <2> DEFINE f == [form EXCEPT !.params = p]
  <2>3. f \in Forms /\ f.settings = form.settings /\ f.dataset = form.dataset
    BY <1>1 DEF Forms
  <2>4. Block(s, {s}, f, tasks, active)
    BY <2>1
  <2> HIDE DEF s, f
  <2> QED BY <1>1, <1>2, <2>1, <2>2, <2>3, <2>4, OneEventOK
<1>11. CASE ChooseDataset
  <2>1. PICK d \in DatasetSources :
          /\ Block(DatasetSourceEdited(state, d, Rev), {DatasetSourceEdited(state, d, Rev)},
                   [form EXCEPT !.dataset = d], tasks, active)
          /\ revision' = Rev /\ requests' = requests
    BY <1>1, <1>11 DEF ChooseDataset, Bump, Rev
  <2> DEFINE s == DatasetSourceEdited(state, d, Rev)
             f == [form EXCEPT !.dataset = d]
  <2>2. /\ Follows(state, s, revision, {}) /\ Old(s, revision')
        /\ s.conditioning.attempt.status = "running" =>
             s.conditioning.attempt.datasetSource = d
    BY <1>1, <1>2, <2>1, DatasetSourceEditedOK
  <2>3. f \in Forms /\ f.settings = form.settings /\ f.dataset = d
    BY <1>1 DEF Forms
  <2>4. Block(s, {s}, f, tasks, active)
    BY <2>1
  <2> HIDE DEF s, f
  <2> QED BY <1>1, <1>2, <2>1, <2>2, <2>3, <2>4, OneEventOK
<1>12. CASE EditInferenceSettings
  <2> DEFINE s == InferenceSettingsEdited(state, Rev)
  <2>1. PICK v \in Settings : /\ Block(s, {s}, [form EXCEPT !.settings = v], tasks, active)
                              /\ revision' = Rev /\ requests' = requests
    BY <1>1, <1>12 DEF EditInferenceSettings, Bump, Rev
  <2> DEFINE f == [form EXCEPT !.settings = v]
  <2>2. /\ Follows(state, s, revision, {}) /\ Old(s, revision')
        /\ s.conditioning.attempt.status # "running" /\ s.conditioning.settingsRevision = Rev
    BY <1>1, <1>2, <2>1, InferenceSettingsEditedOK
  <2>3. f \in Forms /\ f.dataset = form.dataset
    BY <1>1 DEF Forms
  <2>4. Block(s, {s}, f, tasks, active)
    BY <2>1
  <2> HIDE DEF s, f
  <2> QED BY <1>1, <1>2, <2>1, <2>2, <2>3, <2>4, OneEventOK
<1> QED BY <1>5, <1>6, <1>7, <1>8, <1>9, <1>10, <1>11, <1>12 DEF Edits

\* A larger bound on the revisions holds too.
LEMMA OldGrows ==
  ASSUME NEW s, StateOK(s), NEW r \in Nat, NEW r2 \in Nat, r <= r2, Old(s, r)
  PROVE  Old(s, r2)
BY DEF Old, StateOK, States, GenerationStates, ConditioningStates

\* Loading a project keeps the invariant: its first event ends everything.
LEMMA LoadProjectInv ==
  ASSUME IInv, LoadProject
  PROVE  IInv'
<1>1. /\ StateOK(state) /\ Old(state, revision) /\ revision \in Nat /\ form \in Forms
      /\ requests \in Nat
  BY DEF IInv, Numbered, FormOK
<1>2. PICK d \in Documents, v \in Settings, sampler \in BOOLEAN, generation \in BOOLEAN :
        LET s1 == SourceEdited(state, Rev)
            s2 == DocumentsEdited(s1, d, Rev + 1)
            s3 == IF sampler THEN InferenceSettingsEdited(s2, Rev + 2) ELSE s2
            s4 == IF generation THEN GenerationSettingsEdited(s3, Rev + 3) ELSE s3
            f == IF sampler THEN [form EXCEPT !.settings = v] ELSE form
        IN /\ Block(s4, {s1, s2, s3, s4}, f, tasks, active)
           /\ Bump(4)
           /\ UNCHANGED requests
  BY DEF LoadProject
<1> DEFINE s1 == SourceEdited(state, Rev)
           s2 == DocumentsEdited(s1, d, Rev + 1)
           s3 == IF sampler THEN InferenceSettingsEdited(s2, Rev + 2) ELSE s2
           s4 == IF generation THEN GenerationSettingsEdited(s3, Rev + 3) ELSE s3
           f == IF sampler THEN [form EXCEPT !.settings = v] ELSE form
           path == {s1, s2, s3, s4}
<1>3. /\ Block(s4, path, f, tasks, active)
      /\ revision' = revision + 4 /\ requests' = requests
      /\ Rev \in Nat /\ Rev > revision
  BY <1>1, <1>2 DEF Bump, Rev
<1>4. /\ StateOK(s1) /\ Evolves(state, s1, revision, {}) /\ Old(s1, Rev)
      /\ s1.conditioning.attempt.status # "running" /\ s1.sourceRevision = Rev
  <2>1. s1.conditioning.attempt.status # "running" /\ s1.sourceRevision = Rev
    BY DEF SourceEdited, InitialState, ConditioningSettled
  <2> QED BY <1>1, <1>3, <2>1, SourceEditedOK DEF Follows
<1> HIDE DEF s1
<1>5. StateOK(s2) /\ Evolves(s1, s2, revision, {}) /\ Old(s2, Rev + 1)
  <2>1. Rev + 1 \in Nat /\ Rev + 1 > revision /\ Rev <= Rev + 1
    BY <1>1, <1>3
  <2>2. Old(s1, Rev + 1)
    BY <1>3, <1>4, <2>1, OldGrows
  <2> QED BY <1>1, <1>4, <2>1, <2>2, DocumentsEditedOK DEF Follows
<1> HIDE DEF s2
<1>6. StateOK(s3) /\ Evolves(s2, s3, revision, {}) /\ Old(s3, Rev + 2)
  <2>1. Old(s2, Rev + 2)
    BY <1>3, <1>5, OldGrows
  <2>2. CASE ~sampler
    BY <1>5, <2>1, <2>2 DEF Evolves
  <2>3. CASE sampler
    BY <1>1, <1>3, <1>5, <2>1, <2>3, InferenceSettingsEditedOK DEF Follows
  <2> QED BY <2>2, <2>3
<1> HIDE DEF s3
<1>7. StateOK(s4) /\ Evolves(s3, s4, revision, {}) /\ Old(s4, Rev + 3)
  <2>1. Old(s3, Rev + 3)
    BY <1>3, <1>6, OldGrows
  <2>2. CASE ~generation
    BY <1>6, <2>1, <2>2 DEF Evolves
  <2>3. CASE generation
    BY <1>1, <1>3, <1>6, <2>1, <2>3, GenerationEditedOK DEF Follows
  <2> QED BY <2>2, <2>3
<1> HIDE DEF s4
<1>8. PICK none : none = {} /\ none \cup none = none
  OBVIOUS
<1>9. Evolves(s1, s3, revision, none)
  BY <1>5, <1>6, <1>8, EvolvesTwice
<1>10. Evolves(s1, s4, revision, none)
  BY <1>7, <1>8, <1>9, EvolvesTwice
<1>11. Evolves(state, s4, revision, none)
  BY <1>4, <1>8, <1>10, EvolvesTwice
<1>12. s4.conditioning.attempt.status # "running" /\ s4.sourceRevision > revision
  BY <1>3, <1>4, <1>8, <1>10 DEF Evolves
<1>13. f \in Forms /\ f.dataset = form.dataset
  BY <1>1 DEF Forms
<1>14. PICK gone \in SUBSET tasks : gone = {} /\ tasks \ gone = tasks
  OBVIOUS
<1>15. s4 \in path /\ revision' = Rev + 3 /\ revision' \in Nat /\ revision <= revision'
  BY <1>1, <1>3 DEF Rev
<1> HIDE DEF f, path
<1>16. \A t \in gone : t.pc # "keying" => ~Current(t, s4)
  BY <1>14
<1>17. Ready(tasks \ gone, active, requests) /\ Block(s4, path, f, tasks \ gone, active)
  BY <1>3, <1>14, DriversReady
<1>18. Follows(state, s4, revision, {}) /\ Old(s4, revision')
  BY <1>7, <1>8, <1>11, <1>15 DEF Follows
<1> QED BY <1>3, <1>12, <1>13, <1>15, <1>16, <1>17, <1>18, DispatchedOK

\* Cancel keeps the invariant.
LEMMA CancelInv ==
  ASSUME IInv, Cancel
  PROVE  IInv'
<1>1. /\ StateOK(state) /\ Old(state, revision) /\ revision \in Nat /\ form \in Forms
      /\ requests \in Nat
  BY DEF IInv, Numbered, FormOK
<1> DEFINE s1 == RunFailed(state, state.run.requestId, state.run.revision)
           s2 == ConditioningFailed(s1, state.conditioning.attempt.requestId)
           s3 == GenerationFailed(s2, state.generation.attempt.requestId)
           s4 == CompileFailed(s3, state.compile.requestId, state.compile.revision)
           path == {CancellationPath(state)[i] : i \in 1..4}
<1>2. CancellationPath(state) = <<s1, s2, s3, s4>>
  BY DEF CancellationPath, RunFailed, RunRuns
<1>3. /\ s4 \in path /\ Block(s4, path, form, tasks, active)
      /\ revision' = revision /\ requests' = requests
  BY <1>2 DEF Cancel
<1> HIDE DEF path
<1>4. /\ Follows(state, s2, revision, {}) /\ \A x \in Nat : Old(state, x) => Old(s2, x)
      /\ s2.conditioning.attempt.status # "running"
  BY <1>1, FitFailedOK DEF StateOK, RunOK, RunRuns
<1> HIDE DEF s2
<1>5. Follows(s2, s3, revision, {}) /\ \A x \in Nat : Old(s2, x) => Old(s3, x)
  BY <1>1, <1>4, GenerationFailedOK DEF Follows
<1> HIDE DEF s3
<1>6. Follows(s3, s4, revision, {}) /\ \A x \in Nat : Old(s3, x) => Old(s4, x)
  BY <1>1, <1>5, CompileFailedOK DEF Follows
<1> HIDE DEF s4
<1>7. PICK none : none = {} /\ none \cup none = none
  OBVIOUS
<1>8. Evolves(s2, s4, revision, none)
  BY <1>5, <1>6, <1>7, EvolvesTwice DEF Follows
<1>9. Evolves(state, s4, revision, none)
  BY <1>4, <1>7, <1>8, EvolvesTwice DEF Follows
<1>10. s4.conditioning.attempt.status # "running"
  BY <1>4, <1>7, <1>8 DEF Evolves
<1>11. Follows(state, s4, revision, {}) /\ Old(s4, revision')
  BY <1>1, <1>3, <1>4, <1>5, <1>6, <1>7, <1>9 DEF Follows
<1>12. PICK gone \in SUBSET tasks : gone = {} /\ tasks \ gone = tasks
  OBVIOUS
<1>13. \A t \in gone : t.pc # "keying" => ~Current(t, s4)
  BY <1>12
<1>14. Ready(tasks \ gone, active, requests) /\ Block(s4, path, form, tasks \ gone, active)
  BY <1>3, <1>12, DriversReady
<1>15. revision' \in Nat /\ revision <= revision'
  BY <1>1, <1>3
<1> QED BY <1>1, <1>3, <1>10, <1>11, <1>13, <1>14, <1>15, DispatchedOK

\* The id of a new driver is no driver's yet.
LEMMA NewIdFresh ==
  ASSUME IInv, Issue
  PROVE  /\ NewId \in 1..requests' /\ requests' = requests + 1 /\ NewId \in Nat
         /\ \A t \in tasks : t.id # NewId /\ t.id \in 1..requests'
BY DEF IInv, Numbered, Issue, NewId

\* A click on Compile keeps the invariant.
LEMMA CompileClickInv ==
  ASSUME IInv, CompileClick
  PROVE  IInv'
<1>1. /\ StateOK(state) /\ Old(state, revision) /\ revision \in Nat /\ form \in Forms
      /\ FormOK(state, form)
  BY DEF IInv, Numbered, FormOK
<1>2. /\ NewId \in 1..requests' /\ requests' = requests + 1 /\ NewId \in Nat
      /\ \A t \in tasks : t.id # NewId
  BY NewIdFresh DEF CompileClick
<1> DEFINE t == [kind |-> "compile", id |-> NewId, pc |-> "running", aborted |-> FALSE,
                 sourceRevision |-> state.sourceRevision, priorIrHash |-> LastHash(state)]
           s == CompileStarted(state, NewId, state.sourceRevision)
<1>3. /\ Block(s, {s}, form, Launched(t), Begin(active, t.kind, t.id))
      /\ revision' = revision /\ state.run.status # "running"
  BY DEF CompileClick, CompileEnabled
<1>4. /\ state.sourceRevision \in Nat /\ LastHash(state) \in Opt(IrHashes) /\ state \in States
  BY <1>1 DEF StateOK, States, LastHash, CompileStates, Opt
<1>5. /\ s.compile.requestId = NewId /\ s.compile.priorIrHash = LastHash(state)
      /\ s.sourceRevision = state.sourceRevision /\ s.conditioning = state.conditioning
  BY <1>4 DEF CompileStarted, States
<1>6. /\ t.kind = "compile" /\ t.id = NewId /\ t.pc = "running"
      /\ t.sourceRevision = state.sourceRevision /\ t.priorIrHash = LastHash(state)
      /\ t \in CompileTasks
  BY <1>2, <1>4 DEF CompileTasks
<1>7. Follows(state, s, revision, {<<t.kind, t.id>>}) /\ Old(s, revision)
  BY <1>1, <1>2, <1>3, <1>4, <1>6, CompileStartedOK
<1> HIDE DEF s, t
<1>8. TaskOK(t, s, form, revision)
  BY <1>5, <1>6 DEF TaskOK, CompileTaskOK
<1>9. t.kind \in Kinds
  BY <1>6 DEF Kinds
<1>10. s.conditioning.attempt.status = "running" =>
         form.dataset = s.conditioning.attempt.datasetSource
  BY <1>1, <1>5 DEF FormOK
<1> QED BY <1>2, <1>3, <1>6, <1>7, <1>8, <1>9, <1>10, LaunchedOK

\* What a generation captures at the click is what the state holds.
LEMMA GenerationTaskNew ==
  ASSUME IInv, Issue, RunsEnabled, NEW pc \in {"keying", "composing"}
  PROVE  LET t == GenerationTask(pc) IN
         /\ t \in GenerationTasks /\ t.kind = "generation" /\ t.id = NewId /\ t.pc = pc
         /\ t.guard.compileRevision = state.sourceRevision
         /\ t.guard.compileRevision <= revision /\ t.irHash = LastHash(state)
         /\ MatchesGenerationGuard(state, t.guard)
<1>1. /\ StateOK(state) /\ Old(state, revision) /\ revision \in Nat /\ form \in Forms
      /\ state \in States /\ state.generation \in GenerationStates
      /\ state.conditioning \in ConditioningStates
  BY DEF IInv, Numbered, FormOK, StateOK, States
<1>2. NewId \in Nat
  BY NewIdFresh
<1>3. /\ state.compile.irHash \in IrHashes /\ state.compile.irHash = LastHash(state)
      /\ state.compile.revision = state.sourceRevision
  BY <1>1 DEF RunsEnabled, StateOK, CompileOK, LastHash
<1>4. state.sourceRevision \in Nat /\ state.sourceRevision <= revision
  BY <1>1 DEF States, Old
<1>5. SourceKindOf(form.params) \in SourceKinds
  BY <1>1 DEF Forms, ParamSources, SourceKinds, SourceKindOf
<1>6. FitLineage(state) \in Opt(LineageKeys)
  BY <1>1 DEF FitLineage, ConditioningStates, Opt, Fits
<1> DEFINE guard == GenerationGuard(state, SourceKindOf(form.params))
<1>7. /\ guard.compileRevision = state.sourceRevision
      /\ guard \in GenerationGuards
  BY <1>1, <1>3, <1>4, <1>5, <1>6 DEF GenerationGuard, GenerationGuards, GenerationStates, Opt
<1>8. MatchesGenerationGuard(state, guard)
  BY DEF GenerationGuard, MatchesGenerationGuard
<1> HIDE DEF guard
<1>9. GenerationTask(pc) = [kind |-> "generation", id |-> NewId, pc |-> pc, aborted |-> FALSE,
                            guard |-> guard, irHash |-> state.compile.irHash]
  BY DEF GenerationTask, guard
<1> QED BY <1>2, <1>3, <1>4, <1>7, <1>8, <1>9 DEF GenerationTasks

\* A driver that has yet to compute its digests joins without a dispatch.
LEMMA KeyingOK ==
  ASSUME IInv, Issue, NEW t, t.id = NewId, t.pc = "keying",
         TaskOK(t, state, form, revision), tasks' = tasks \cup {t},
         UNCHANGED <<state, form, active, revision>>
  PROVE  IInv'
<1>1. /\ NewId \in 1..requests' /\ requests' = requests + 1 /\ NewId \in Nat
      /\ \A u \in tasks : u.id # NewId /\ u.id \in 1..requests'
  BY NewIdFresh
<1>2. Numbered'
  BY <1>1 DEF IInv, Numbered
<1>3. OrphansAreAborted'
  BY DEF IInv, OrphansAreAborted
<1>4. DrivenIn(tasks, state)'
  BY DEF IInv, DrivenIn, Driven
<1>5. StateOK(state)' /\ Old(state, revision)' /\ FormOK(state, form)'
  BY DEF IInv
<1>6. \A u \in tasks' : TaskOK(u, state', form', revision')
  BY DEF IInv
<1> QED BY <1>2, <1>3, <1>4, <1>5, <1>6 DEF IInv

\* A click on Generate keeps the invariant, whether the plan is hashed first or
\* the prior is composed first.
LEMMA GenerateClickInv ==
  ASSUME IInv, GenerateClick
  PROVE  IInv'
<1> DEFINE t == GenerationTask("keying")
<1>1. Issue /\ RunsEnabled /\ tasks' = tasks \cup {t} /\ UNCHANGED <<state, form, active, revision>>
  BY DEF GenerateClick
<1>2. /\ t \in GenerationTasks /\ t.id = NewId /\ t.pc = "keying"
      /\ t.guard.compileRevision <= revision /\ t.irHash = LastHash(state)
  BY <1>1, GenerationTaskNew
<1> HIDE DEF t
<1>3. TaskOK(t, state, form, revision)
  BY <1>2 DEF TaskOK, GenerationTaskOK
<1> QED BY <1>1, <1>2, <1>3, KeyingOK

\* A generation from a composed prior starts its attempt at the click.
LEMMA ComposeClickInv ==
  ASSUME IInv, ComposeClick
  PROVE  IInv'
<1>1. /\ StateOK(state) /\ Old(state, revision) /\ revision \in Nat /\ FormOK(state, form)
  BY DEF IInv, Numbered
<1>2. /\ NewId \in 1..requests' /\ requests' = requests + 1 /\ NewId \in Nat
      /\ \A t \in tasks : t.id # NewId
  BY NewIdFresh DEF ComposeClick
<1> DEFINE t == GenerationTask("composing")
           s == GenerationStarted(state, t.id, t.guard)
<1>3. /\ Block(s, {s}, form, Launched(t), Begin(active, "generation", t.id))
      /\ revision' = revision
  BY DEF ComposeClick
<1>4. /\ t \in GenerationTasks /\ t.kind = "generation" /\ t.id = NewId /\ t.pc = "composing"
      /\ t.guard.compileRevision = state.sourceRevision
      /\ t.guard.compileRevision <= revision /\ t.irHash = LastHash(state)
      /\ MatchesGenerationGuard(state, t.guard)
  BY GenerationTaskNew DEF ComposeClick
<1> HIDE DEF t
<1>5. t.guard \in GenerationGuards
  BY <1>4 DEF GenerationTasks
<1>6. /\ Follows(state, s, revision, {<<t.kind, t.id>>}) /\ Old(s, revision)
      /\ s.generation.attempt.sourceKind = t.guard.sourceKind
      /\ s.generation.attempt.sourceFitLineageKey = t.guard.fitLineageKey
      /\ s.sourceRevision = state.sourceRevision /\ s.compile = state.compile
      /\ s.conditioning = state.conditioning
  <2> DEFINE id == t.id
             guard == t.guard
  <2>1. id \in Nat /\ guard \in GenerationGuards /\ MatchesGenerationGuard(state, guard)
    BY <1>2, <1>4, <1>5
  <2> HIDE DEF id, guard
  <2> DEFINE s2 == GenerationStarted(state, id, guard)
  <2>2. /\ Follows(state, s2, revision, {<<"generation", id>>})
        /\ \A x \in Nat : Old(state, x) => Old(s2, x)
        /\ s2.generation.attempt.sourceKind = guard.sourceKind
        /\ s2.generation.attempt.sourceFitLineageKey = guard.fitLineageKey
        /\ s2.sourceRevision = state.sourceRevision /\ s2.compile = state.compile
        /\ s2.conditioning = state.conditioning
    BY <1>1, <2>1, GenerationStartedOK
  <2> HIDE DEF s2
  <2>3. s = s2 /\ <<t.kind, t.id>> = <<"generation", id>> /\ t.guard = guard
    BY <1>4 DEF s2, id, guard
  <2> HIDE DEF s
  <2> QED BY <1>1, <2>2, <2>3
<1> HIDE DEF s
<1>7. TaskOK(t, s, form, revision)
  BY <1>4, <1>6 DEF TaskOK, GenerationTaskOK, LastHash
<1>8. /\ t.kind \in Kinds /\ t.pc # "keying"
      /\ s.conditioning.attempt.status = "running" =>
           form.dataset = s.conditioning.attempt.datasetSource
  BY <1>1, <1>4, <1>6 DEF Kinds, FormOK
<1> QED BY <1>2, <1>3, <1>4, <1>6, <1>7, <1>8, LaunchedOK

\* What a fit captures at the click is what the state holds, also when the
\* click has first to record the choice of dataset.
LEMMA FitTaskNew ==
  ASSUME NEW s, StateOK(s), NEW f \in Forms, NEW r \in Nat, Old(s, r),
         s.compile.status = "compiled",
         f.dataset = "generated" => s.generation.selected # None,
         NEW id \in Nat, NEW t,
         t = [kind |-> "conditioning", id |-> id, pc |-> "keying", aborted |-> FALSE,
              guard |-> ConditioningGuard(s, f.dataset),
              dataset |-> IF f.dataset = "generated"
                          THEN [source |-> "generated", pair |-> s.generation.selected]
                          ELSE [source |-> "observed", document |-> s.observed],
              settings |-> f.settings, projectRevision |-> s.projectRevision, irHash |-> None]
  PROVE  TaskOK(t, s, f, r)
<1>1. /\ s \in States /\ s.generation \in GenerationStates
      /\ s.conditioning \in ConditioningStates
  BY DEF StateOK, States
<1>2. s.compile.revision = s.sourceRevision
  BY DEF StateOK, CompileOK
<1> DEFINE guard == ConditioningGuard(s, f.dataset)
           dataset == IF f.dataset = "generated"
                      THEN [source |-> "generated", pair |-> s.generation.selected]
                      ELSE [source |-> "observed", document |-> s.observed]
<1>3. /\ guard.compileRevision = s.sourceRevision
      /\ guard.settingsRevision = s.conditioning.settingsRevision
      /\ guard.datasetSource = f.dataset
      /\ guard.observed = s.observed
      /\ guard.selectionRevision = s.generation.selectionRevision
      /\ guard.datasetSourceRevision = s.conditioning.datasetSourceRevision
      /\ guard \in [compileRevision : Nat, settingsRevision : Nat, datasetSource : DatasetSources,
                    datasetSourceRevision : Nat, observed : Documents, selectionRevision : Nat]
  BY <1>1, <1>2 DEF ConditioningGuard, States, GenerationStates, ConditioningStates, Forms
<1>4. /\ dataset.source = f.dataset
      /\ f.dataset = "observed" => dataset.document = s.observed
      /\ f.dataset = "generated" => dataset.pair = s.generation.selected
      /\ f.dataset \in {"observed", "generated"}
  BY DEF Forms, DatasetSources
<1>5. dataset \in Datasets
  <2>1. CASE f.dataset = "generated"
    <3>1. s.generation.selected \in Pairs
      BY <1>1, <2>1 DEF GenerationStates, Opt
    <3> QED BY <2>1, <3>1 DEF Datasets
  <2>2. CASE f.dataset # "generated"
    BY <1>1, <2>2 DEF Datasets, States
  <2> QED BY <2>1, <2>2
<1> HIDE DEF guard, dataset
<1>6. t = [kind |-> "conditioning", id |-> id, pc |-> "keying", aborted |-> FALSE,
           guard |-> guard, dataset |-> dataset, settings |-> f.settings,
           projectRevision |-> s.projectRevision, irHash |-> None]
  BY DEF guard, dataset
<1>7. /\ t.guard = guard /\ t.dataset = dataset /\ t.settings = f.settings
      /\ t.pc = "keying"
  BY <1>6
<1>8. t \in FitTasks
  BY <1>1, <1>3, <1>5, <1>6 DEF FitTasks, States, Forms, Opt
<1>9. FitTaskOK(t, s, f, r)
  BY <1>3, <1>4, <1>7 DEF FitTaskOK, Old
<1> QED BY <1>8, <1>9 DEF TaskOK

\* A click on Condition keeps the invariant.
LEMMA FitClickInv ==
  ASSUME IInv, FitClick
  PROVE  IInv'
<1>1. /\ StateOK(state) /\ Old(state, revision) /\ revision \in Nat /\ form \in Forms
      /\ FormOK(state, form)
  BY DEF IInv, Numbered, FormOK
<1>2. /\ NewId \in 1..requests' /\ requests' = requests + 1 /\ NewId \in Nat
      /\ \A t \in tasks : t.id # NewId /\ t.id \in 1..requests'
  BY NewIdFresh DEF FitClick
<1> DEFINE switch == state.conditioning.datasetSource # form.dataset
           s == IF switch THEN DatasetSourceEdited(state, form.dataset, Rev) ELSE state
           t == [kind |-> "conditioning", id |-> NewId, pc |-> "keying", aborted |-> FALSE,
                 guard |-> ConditioningGuard(s, form.dataset), dataset |-> ChosenDataset,
                 settings |-> form.settings, projectRevision |-> s.projectRevision,
                 irHash |-> None]
<1>3. /\ state.compile.status = "compiled"
      /\ form.dataset = "generated" => state.generation.selected # None
      /\ switch => Block(s, {s}, form, tasks \cup {t}, active) /\ revision' = Rev
      /\ ~switch => tasks' = tasks \cup {t} /\ UNCHANGED <<state, form, active, revision>>
  BY <1>1 DEF FitClick, RunsEnabled, Bump, Rev
<1>4. t.id = NewId /\ t.pc = "keying"
  OBVIOUS
<1>5. CASE ~switch
  <2>1. TaskOK(t, state, form, revision)
    BY <1>1, <1>2, <1>3, <1>5, FitTaskNew DEF ChosenDataset
  <2> HIDE DEF t
  <2> QED BY <1>3, <1>4, <1>5, <2>1, KeyingOK DEF FitClick
<1>6. CASE switch
  <2>1. Rev \in Nat /\ revision < Rev /\ revision <= Rev
    BY <1>1 DEF Rev
  <2>2. Old(state, Rev) /\ form.dataset \in DatasetSources
    BY <1>1, <2>1, OldGrows DEF Forms
  <2>3. s = DatasetSourceEdited(state, form.dataset, Rev)
    BY <1>6
  <2>4. /\ Follows(state, s, revision, {}) /\ Old(s, Rev)
        /\ s.conditioning.attempt.status = "running" =>
             s.conditioning.attempt.datasetSource = form.dataset
        /\ s.sourceRevision = state.sourceRevision /\ s.observed = state.observed
        /\ s.generation = state.generation /\ s.compile = state.compile
    BY <1>1, <2>1, <2>2, <2>3, DatasetSourceEditedOK
  <2> HIDE DEF s, switch
  <2>5. TaskOK(t, s, form, Rev)
    BY <1>1, <1>2, <1>3, <2>1, <2>4, FitTaskNew DEF ChosenDataset, Follows
  <2> HIDE DEF t
  <2>6. FormOK(s, Rendered(form, {s})) /\ Rendered(form, {s}).settings = form.settings
    <3>1. \A p \in {s} : \/ s.conditioning.attempt.status # "running"
                         \/ s.conditioning.attempt.datasetSource # "generated"
                         \/ p.generation.selected # None
      BY <2>4 DEF Follows, StateOK, AttemptsOK
    <3> QED BY <1>1, <2>4, <3>1, RenderedOK DEF Follows
  <2> DEFINE g == Rendered(form, {s})
  <2> HIDE DEF g
  <2>7. ASSUME NEW u \in tasks
        PROVE  TaskOK(u, s, g, Rev)
    <3>1. PICK none : none = {}
      OBVIOUS
    <3>2. Carries(state, form, revision, s, g, Rev, none)
      BY <1>1, <2>1, <2>4, <2>6, <3>1 DEF Carries, g, Follows
    <3>3. TaskOK(u, state, form, revision) /\ <<u.kind, u.id>> \notin none
      BY <3>1 DEF IInv
    <3> QED BY <3>2, <3>3, TaskEvolves
  <2>8. TaskOK(t, s, g, Rev)
    <3>1. PICK none : none = {}
      OBVIOUS
    <3>2. Evolves(s, s, Rev, none)
      BY DEF Evolves
    <3>3. Carries(s, form, Rev, s, g, Rev, none)
      BY <2>1, <2>4, <2>6, <3>2 DEF Carries, g, Follows
    <3>4. <<t.kind, t.id>> \notin none
      BY <3>1
    <3> QED BY <2>5, <3>3, <3>4, TaskEvolves
  <2>9. DrivenIn(tasks \cup {t}, s)
    BY <2>4 DEF IInv, DrivenIn, Driven, Follows, Evolves
  <2>10. Ready(tasks \cup {t}, active, requests')
    BY <1>2, <1>4, DriversReady DEF Ready
  <2>11. \A u \in tasks \cup {t} : TaskOK(u, s, g, revision')
    BY <1>3, <1>6, <2>7, <2>8
  <2>12. /\ revision' \in Nat /\ Old(s, revision') /\ StateOK(s)
         /\ Block(s, {s}, form, tasks \cup {t}, active) /\ s \in {s}
    BY <1>3, <1>6, <2>1, <2>4 DEF Follows
  <2> QED BY <2>6, <2>9, <2>10, <2>11, <2>12, BlockOK DEF g
<1> QED BY <1>5, <1>6

\* A driver that returns without a dispatch was not the current attempt.
LEMMA EndOK ==
  ASSUME IInv, NEW t \in tasks, t.pc # "keying" => ~Current(t, state),
         tasks' = tasks \ {t}, active' \in {active, Finish(active, t.kind, t.id)},
         UNCHANGED <<state, form, revision, requests>>
  PROVE  IInv'
<1>1. Ready(tasks', active', requests')
  BY DriversReady
<1>2. Numbered'
  BY <1>1 DEF IInv, Numbered, Ready
<1>3. OrphansAreAborted'
  BY <1>1 DEF IInv, OrphansAreAborted, Ready
<1>4. DrivenIn(tasks, state)'
  BY DEF IInv, DrivenIn, Driven, Current, GenerationRuns, ConditioningRuns
<1>5. /\ StateOK(state)' /\ Old(state, revision)' /\ FormOK(state, form)'
      /\ \A u \in tasks' : TaskOK(u, state', form', revision')
  BY DEF IInv
<1> QED BY <1>2, <1>3, <1>4, <1>5 DEF IInv

\* A driver that resumes without a dispatch goes on as the driver it was.
LEMMA ResumeOK ==
  ASSUME IInv, NEW t \in tasks, NEW u, t.pc # "keying", u.pc # "keying",
         u.id = t.id, u.kind = t.kind, u.aborted = t.aborted,
         TaskOK(u, state, form, revision), tasks' = Resumed(t, u),
         UNCHANGED <<state, form, active, revision, requests>>
  PROVE  IInv'
<1>1. tasks' = (tasks \ {t}) \cup {u}
  BY DEF Resumed
<1>2. Numbered'
  BY <1>1 DEF IInv, Numbered
<1>3. OrphansAreAborted'
  BY <1>1 DEF IInv, OrphansAreAborted
<1>4. DrivenIn(tasks, state)'
  BY <1>1 DEF IInv, DrivenIn, Driven
<1>5. /\ StateOK(state)' /\ Old(state, revision)' /\ FormOK(state, form)'
      /\ \A v \in tasks' : TaskOK(v, state', form', revision')
  BY <1>1 DEF IInv
<1> QED BY <1>2, <1>3, <1>4, <1>5 DEF IInv

\* A driver that dispatches one or several events and returns has ended its
\* attempt.
LEMMA CompleteOK ==
  ASSUME IInv, NEW t \in tasks, NEW s, NEW path, s \in path,
         Follows(state, s, revision, {}), Old(s, revision'),
         \A p \in path : \/ s.conditioning.attempt.status # "running"
                         \/ s.conditioning.attempt.datasetSource # "generated"
                         \/ p.generation.selected # None,
         t.pc # "keying" => ~Current(t, s),
         \/ Complete(t, s, path)
         \/ Block(s, path, form, tasks \ {t}, active) /\ requests' = requests,
         revision' \in Nat, revision <= revision'
  PROVE  IInv'
<1>1. PICK act : /\ act \in {active, Finish(active, t.kind, t.id)}
                 /\ Block(s, path, form, tasks \ {t}, act) /\ requests' = requests
  BY DEF Complete
<1>2. PICK gone \in SUBSET tasks : gone = {t}
  OBVIOUS
<1>3. Ready(tasks \ gone, act, requests) /\ Block(s, path, form, tasks \ gone, act)
  BY <1>1, <1>2, DriversReady
<1>4. \A u \in gone : u.pc # "keying" => ~Current(u, s)
  BY <1>2
<1>5. form \in Forms
  BY DEF IInv, FormOK
<1> QED BY <1>1, <1>3, <1>4, <1>5, DispatchedOK

\* The driver that is the current attempt is the one with its id.
LEMMA OneDriver ==
  ASSUME IInv, NEW t \in tasks, t.pc = "keying"
  PROVE  ~GenerationRuns(state, t.id) /\ ~ConditioningRuns(state, t.id)
BY DEF IInv, Numbered, DrivenIn, Driven, GenerationRuns, ConditioningRuns

\* What a driver of each kind holds.
LEMMA TasksByKind ==
  ASSUME IInv, NEW t \in tasks
  PROVE  /\ t.kind = "compile" => t \in CompileTasks /\ CompileTaskOK(t, state)
         /\ t.kind = "generation" => t \in GenerationTasks /\ GenerationTaskOK(t, state, revision)
         /\ t.kind = "conditioning" => t \in FitTasks /\ FitTaskOK(t, state, form, revision)
         /\ t.id \in Nat /\ t.kind \in Kinds
BY DEF IInv, TaskOK, CompileTasks, GenerationTasks, FitTasks, Kinds

\* The end of a compile keeps the invariant.
LEMMA CompileErrorInv ==
  ASSUME IInv, NEW t \in tasks, CompileError(t)
  PROVE  IInv'
<1> DEFINE s == CompileFailed(state, t.id, t.sourceRevision)
<1>1. /\ StateOK(state) /\ Old(state, revision) /\ revision \in Nat
  BY DEF IInv, Numbered
<1>2. Complete(t, s, {s}) /\ revision' = revision /\ t.kind = "compile"
  BY DEF CompileError, At
<1>3. /\ Follows(state, s, revision, {}) /\ Old(s, revision)
      /\ CompileRuns(state, t.id, t.sourceRevision) => s.compile.status # "compiling"
  BY <1>1, CompileFailedOK
<1> HIDE DEF s
<1>4. ~Current(t, s)
  <2>1. s.compile.status = "compiling" => s.compile = state.compile
    BY <1>3 DEF Follows, Evolves
  <2>0. CompileTaskOK(t, state)
    BY <1>2, TasksByKind
  <2>2. s.compile.status = "compiling" /\ s.compile.requestId = t.id =>
          CompileRuns(state, t.id, t.sourceRevision)
    BY <1>1, <2>0, <2>1 DEF CompileTaskOK, StateOK, CompileOK, CompileRuns
  <2> QED BY <1>2, <1>3, <2>2 DEF Current
<1>5. PICK path : path = {s}
  OBVIOUS
<1>6. \A p \in path : \/ s.conditioning.attempt.status # "running"
                      \/ s.conditioning.attempt.datasetSource # "generated"
                      \/ p.generation.selected # None
  BY <1>3, <1>5 DEF Follows, StateOK, AttemptsOK
<1>7. /\ s \in path /\ Complete(t, s, path) /\ revision' \in Nat /\ revision <= revision'
      /\ Old(s, revision')
  BY <1>1, <1>2, <1>3, <1>5
<1> QED BY <1>3, <1>4, <1>6, <1>7, CompleteOK

\* A step that begins a compile and ends with none under way begins nothing.
LEMMA CompiledWithin ==
  ASSUME NEW s, NEW s2, NEW r, NEW id, Evolves(s, s2, r, {<<"compile", id>>}),
         s2.compile.status # "compiling"
  PROVE  Evolves(s, s2, r, {})
BY DEF Evolves

\* The states a successful compile passes through, and where it ends.
LEMMA AdoptOK ==
  ASSUME IInv, NEW t \in CompileTasks, CompileTaskOK(t, state), ~CompileStale(t),
         NEW hash \in IrHashes, NEW authored \in BOOLEAN
  PROVE  LET path == Adopt(t, hash, authored) IN
         /\ Follows(state, path[3], revision, {}) /\ Old(path[3], revision + 2)
         /\ path[3].compile.status = "compiled"
         /\ \A i \in 1..3 : \/ path[3].conditioning.attempt.status # "running"
                            \/ path[3].conditioning.attempt.datasetSource # "generated"
                            \/ path[i].generation.selected # None
<1> DEFINE fresh == t.priorIrHash \notin {None, hash}
           rev == IF fresh THEN Rev ELSE t.sourceRevision
           s0 == SourceEdited(state, rev)
           s1 == IF fresh THEN CompileStarted(s0, t.id, rev) ELSE state
           s2 == IF authored THEN GenerationInputEdited(s1, Rev + 1) ELSE s1
           s3 == CompileSucceeded(s2, t.id, rev, hash)
           p1 == IF fresh THEN s0 ELSE s1
<1>1. /\ StateOK(state) /\ Old(state, revision) /\ revision \in Nat
      /\ Rev = revision + 1 /\ Rev \in Nat /\ t.id \in Nat /\ t.sourceRevision \in Nat
  BY DEF IInv, Numbered, Rev, CompileTasks
<1>2. Adopt(t, hash, authored) = <<p1, s2, s3>>
  BY DEF Adopt
<1>3. /\ StateOK(s1) /\ Old(s1, Rev) /\ rev = s1.sourceRevision /\ rev \in Nat
      /\ CompileRuns(s1, t.id, s1.sourceRevision)
      /\ s1.compile.priorIrHash \in {None, hash}
      /\ Evolves(state, s1, revision, {<<"compile", t.id>>})
      /\ StateOK(p1) /\ Evolves(p1, s1, revision, {<<"compile", t.id>>})
  <2>1. CASE ~fresh
    <3>1. s1 = state /\ p1 = state /\ rev = t.sourceRevision
      BY <2>1
    <3>2. /\ state.compile.status = "compiling" /\ state.compile.requestId = t.id
          /\ state.sourceRevision = t.sourceRevision
      BY DEF CompileStale
    <3>3. state.compile.revision = state.sourceRevision
          /\ state.compile.priorIrHash = t.priorIrHash
      BY <1>1, <3>2 DEF StateOK, CompileOK, CompileTaskOK
    <3>4. Evolves(state, state, revision, {<<"compile", t.id>>})
      BY DEF Evolves
    <3>5. Old(state, Rev)
      BY <1>1, OldGrows
    <3> QED BY <1>1, <2>1, <3>1, <3>2, <3>3, <3>4, <3>5 DEF CompileRuns
  <2>2. CASE fresh
    <3>1. p1 = s0 /\ s1 = CompileStarted(s0, t.id, rev) /\ rev = Rev
      BY <2>2
    <3>2. /\ StateOK(s0) /\ Evolves(state, s0, revision, {}) /\ Old(s0, Rev)
      BY <1>1, <3>1, SourceEditedOK DEF Follows
    <3>3. /\ s0.run.status # "running" /\ s0.sourceRevision = rev /\ LastHash(s0) = None
          /\ s0.conditioning.attempt.status # "running"
      BY DEF SourceEdited, InitialState, RunIdle, RunSettled, LastHash, CompileIdle,
             ConditioningSettled
    <3>4. s0 \in States
      BY <3>2 DEF StateOK
    <3> HIDE DEF s0, rev, fresh, s1, p1
    <3>5. /\ s1.compile.status = "compiling" /\ s1.compile.requestId = t.id
          /\ s1.compile.revision = rev /\ s1.compile.priorIrHash = None
          /\ s1.sourceRevision = rev
      BY <3>1, <3>3, <3>4 DEF CompileStarted, States
    <3>6. /\ StateOK(s1) /\ Evolves(s0, s1, revision, {<<"compile", t.id>>}) /\ Old(s1, Rev)
      <4>1. /\ Follows(s0, CompileStarted(s0, t.id, rev), Rev, {<<"compile", t.id>>})
            /\ Old(CompileStarted(s0, t.id, rev), Rev)
        BY <1>1, <3>1, <3>2, <3>3, CompileStartedOK
      <4>2. s1.sourceRevision = s0.sourceRevision /\ s1.generation = s0.generation
            /\ s1.conditioning = s0.conditioning /\ LastHash(s0) = None
            /\ s1.compile.requestId = t.id
            /\ s1.conditioning.attempt.status # "running"
        BY <3>1, <3>3, <3>4, <3>5 DEF CompileStarted, States
      <4>3. Evolves(s0, s1, revision, {<<"compile", t.id>>})
        BY <4>2 DEF Evolves
      <4> QED BY <3>1, <4>1, <4>3 DEF Follows
    <3>7. PICK begun : begun = {<<"compile", t.id>>}
      OBVIOUS
    <3>8. {} \cup begun = begun
      OBVIOUS
    <3>9. PICK none : none = {} /\ none \cup begun = begun
      BY <3>8
    <3>10. Evolves(state, s1, revision, begun)
      BY <3>2, <3>6, <3>7, <3>9, EvolvesTwice
    <3> QED BY <1>1, <3>1, <3>2, <3>3, <3>5, <3>6, <3>7, <3>10 DEF CompileRuns
  <2> QED BY <2>1, <2>2
<1> HIDE DEF s1, p1, rev
<1>4. /\ StateOK(s2) /\ Old(s2, revision + 2) /\ Evolves(s1, s2, revision, {})
      /\ s2.compile = s1.compile /\ s2.sourceRevision = s1.sourceRevision
  <2>1. Old(s1, Rev + 1) /\ Rev + 1 \in Nat /\ Rev + 1 > revision /\ Rev + 1 = revision + 2
    BY <1>1, <1>3, OldGrows
  <2>2. CASE ~authored
    BY <1>3, <2>1, <2>2 DEF Evolves
  <2>3. CASE authored
    BY <1>1, <1>3, <2>1, <2>3, GenerationEditedOK DEF Follows
  <2> QED BY <2>2, <2>3
<1> HIDE DEF s2
<1>5. CompileRuns(s2, t.id, s2.sourceRevision) /\ rev = s2.sourceRevision
  BY <1>3, <1>4 DEF CompileRuns
<1>6. /\ StateOK(s3) /\ Evolves(s2, s3, revision, {}) /\ s3.compile.status = "compiled"
      /\ Old(s3, revision + 2)
  <2>1. revision + 2 \in Nat /\ s2.compile.priorIrHash \in {None, hash}
    BY <1>1, <1>3, <1>4
  <2>2. PICK id \in Nat : id = t.id
    BY <1>1
  <2>3. /\ Follows(s2, CompileSucceeded(s2, id, rev, hash), revision, {})
        /\ \A x \in Nat : Old(s2, x) => Old(CompileSucceeded(s2, id, rev, hash), x)
        /\ CompileRuns(s2, id, s2.sourceRevision) /\ rev = s2.sourceRevision =>
             CompileSucceeded(s2, id, rev, hash).compile.status = "compiled"
    BY <1>1, <1>3, <1>4, <2>1, CompileSucceededOK
  <2> QED BY <1>4, <1>5, <2>1, <2>2, <2>3 DEF Follows
<1> HIDE DEF s3
<1>7. PICK begun : begun = {<<"compile", t.id>>}
  OBVIOUS
<1>8. begun \cup {} = begun
  OBVIOUS
<1>9. PICK none : none = {} /\ begun \cup none = begun /\ none \cup none = none
  BY <1>8
<1>10. Evolves(s1, s3, revision, none)
  BY <1>4, <1>6, <1>9, EvolvesTwice
<1>11. Evolves(state, s3, revision, begun) /\ Evolves(p1, s3, revision, begun)
  BY <1>3, <1>7, <1>9, <1>10, EvolvesTwice
<1>12. <<"conditioning", s3.conditioning.attempt.requestId>> \notin begun
  BY <1>7
<1>13. \A p \in {p1, s2, s3} : \/ s3.conditioning.attempt.status # "running"
                               \/ s3.conditioning.attempt.datasetSource # "generated"
                               \/ p.generation.selected # None
  <2>1. \/ s3.conditioning.attempt.status # "running"
        \/ s3.conditioning.attempt.datasetSource # "generated"
        \/ p1.generation.selected # None
    BY <1>3, <1>11, <1>12, PassedOK
  <2>2. \/ s3.conditioning.attempt.status # "running"
        \/ s3.conditioning.attempt.datasetSource # "generated"
        \/ s2.generation.selected # None
    BY <1>4, <1>6, PassedOK
  <2>3. \/ s3.conditioning.attempt.status # "running"
        \/ s3.conditioning.attempt.datasetSource # "generated"
        \/ s3.generation.selected # None
    BY <1>6 DEF StateOK, AttemptsOK
  <2> QED BY <2>1, <2>2, <2>3
<1>14. Evolves(state, s3, revision, {})
  BY <1>6, <1>7, <1>11, CompiledWithin
<1> QED BY <1>2, <1>6, <1>13, <1>14 DEF Follows

\* A compile that lands keeps the invariant, stale or not.
LEMMA CompileOkInv ==
  ASSUME IInv, NEW t \in tasks, CompileOk(t)
  PROVE  IInv'
<1>1. /\ t.kind = "compile" /\ t \in CompileTasks /\ CompileTaskOK(t, state)
      /\ revision \in Nat
  BY TasksByKind DEF CompileOk, At, IInv, Numbered
<1>2. CASE CompileStale(t)
  <2>1. /\ tasks' = tasks \ {t} /\ active' = Finish(active, t.kind, t.id)
        /\ UNCHANGED <<state, form, revision, requests>>
    BY <1>2 DEF CompileOk
  <2>2. ~Current(t, state)
    BY <1>1, <1>2 DEF Current, CompileStale, CompileTaskOK
  <2> QED BY <2>1, <2>2, EndOK
<1>3. CASE ~CompileStale(t)
  <2>1. PICK hash \in IrHashes, authored \in BOOLEAN :
          LET path == Adopt(t, hash, authored)
          IN Complete(t, path[3], {path[i] : i \in 1..3})
    BY <1>3 DEF CompileOk
  <2>2. revision' = revision + 2
    BY <1>3 DEF CompileOk, Bump
  <2> DEFINE path == Adopt(t, hash, authored)
             states == {path[i] : i \in 1..3}
             s == path[3]
  <2>3. /\ Follows(state, s, revision, {}) /\ Old(s, revision + 2)
        /\ s.compile.status = "compiled"
        /\ \A i \in 1..3 : \/ s.conditioning.attempt.status # "running"
                           \/ s.conditioning.attempt.datasetSource # "generated"
                           \/ path[i].generation.selected # None
    BY <1>1, <1>3, AdoptOK
  <2>4. Complete(t, s, states) /\ s \in states
    BY <2>1
  <2> HIDE DEF path
  <2>5. \A p \in states : \/ s.conditioning.attempt.status # "running"
                          \/ s.conditioning.attempt.datasetSource # "generated"
                          \/ p.generation.selected # None
    BY <2>3
  <2>6. ~Current(t, s)
    BY <1>1, <2>3 DEF Current
  <2> HIDE DEF s, states
  <2>7. revision' \in Nat /\ revision <= revision' /\ Old(s, revision')
    BY <1>1, <2>2, <2>3
  <2> QED BY <2>3, <2>4, <2>5, <2>6, <2>7, CompleteOK
<1> QED BY <1>2, <1>3

\* One dispatch of a driver that has ended its attempt.
LEMMA CompleteOneOK ==
  ASSUME IInv, NEW t \in tasks, NEW s, Follows(state, s, revision, {}), Old(s, revision'),
         t.pc # "keying" => ~Current(t, s),
         \/ Complete(t, s, {s})
         \/ Block(s, {s}, form, tasks \ {t}, active) /\ requests' = requests,
         revision' \in Nat, revision <= revision'
  PROVE  IInv'
<1>1. PICK path : path = {s}
  OBVIOUS
<1>2. \A p \in path : \/ s.conditioning.attempt.status # "running"
                      \/ s.conditioning.attempt.datasetSource # "generated"
                      \/ p.generation.selected # None
  BY <1>1 DEF Follows, StateOK, AttemptsOK
<1>3. /\ s \in path
      /\ \/ Complete(t, s, path)
         \/ Block(s, path, form, tasks \ {t}, active) /\ requests' = requests
  BY <1>1
<1> QED BY <1>2, <1>3, CompleteOK

\* A generation whose plan has been hashed starts, or is stale, with the
\* invariant kept.
LEMMA GenerationKeyedInv ==
  ASSUME IInv, NEW t \in tasks, GenerationKeyed(t)
  PROVE  IInv'
<1> DEFINE s == GenerationStarted(state, t.id, t.guard)
           u == [t EXCEPT !.pc = "running"]
<1>1. /\ StateOK(state) /\ Old(state, revision) /\ revision \in Nat /\ FormOK(state, form)
      /\ requests \in Nat /\ t.id \in 1..requests
      /\ \A v \in tasks : v.id = t.id => v = t
  BY DEF IInv, Numbered
<1>2. /\ t \in GenerationTasks /\ GenerationTaskOK(t, state, revision)
      /\ t.kind = "generation" /\ t.pc = "keying" /\ revision' = revision
      /\ requests' = requests
  BY TasksByKind DEF GenerationKeyed, At
<1>3. PICK id \in Nat, guard \in GenerationGuards : id = t.id /\ guard = t.guard
  <2>1. t.id \in Nat /\ t.guard \in GenerationGuards
    BY <1>2 DEF GenerationTasks
  <2> QED BY <2>1
<1> DEFINE s2 == GenerationStarted(state, id, guard)
<1>4. /\ Follows(state, s2, revision, {<<"generation", id>>})
      /\ \A x \in Nat : Old(state, x) => Old(s2, x)
      /\ s2 # state => GenerationRuns(s2, id)
      /\ MatchesGenerationGuard(state, guard) =>
           /\ s2.generation.attempt.sourceKind = guard.sourceKind
           /\ s2.generation.attempt.sourceFitLineageKey = guard.fitLineageKey
      /\ s2.sourceRevision = state.sourceRevision /\ s2.compile = state.compile
      /\ s2.conditioning = state.conditioning
  <2>1. StateOK(state) /\ revision \in Nat
    BY <1>1
  <2>2. CASE MatchesGenerationGuard(state, guard)
    BY <2>1, <2>2, GenerationStartedOK
  <2>3. CASE ~MatchesGenerationGuard(state, guard)
    BY <2>1, <2>3, GenerationStartedOK
  <2> QED BY <2>2, <2>3
<1>5. ~MatchesGenerationGuard(state, guard) => s2 = state
  BY DEF GenerationStarted
<1>6. s = s2
  BY <1>3
<1> HIDE DEF s, s2
<1>7. CASE ~GenerationRuns(s, t.id)
  <2>1. s = state /\ Block(s, {s}, form, tasks \ {t}, active)
    BY <1>3, <1>4, <1>6, <1>7 DEF GenerationKeyed, s
  <2>2. Follows(state, state, revision, {})
    BY <1>1 DEF Follows, Evolves
  <2> QED BY <1>1, <1>2, <2>1, <2>2, CompleteOneOK
<1>8. CASE GenerationRuns(s, t.id)
  <2>1. Block(s, {s}, form, Launched(u), Begin(active, "generation", t.id))
    BY <1>8 DEF GenerationKeyed, s
  <2>2. MatchesGenerationGuard(state, guard)
    BY <1>2, <1>3, <1>5, <1>6, <1>8, OneDriver
  <2>3. t.guard.compileRevision = s.sourceRevision
    BY <1>1, <1>2, <1>3, <1>4, <1>6, <2>2, NoneAssumption
       DEF MatchesGenerationGuard, StateOK, CompileOK, GenerationTasks, GenerationGuards
  <2>4. /\ u \in GenerationTasks /\ u.kind = "generation" /\ u.id = t.id /\ u.pc = "running"
        /\ u.guard = t.guard /\ u.irHash = t.irHash
    BY <1>2 DEF GenerationTasks
  <2> HIDE DEF u
  <2>5. LastHash(s) = LastHash(state)
    BY <1>4, <1>6 DEF LastHash
  <2>6. TaskOK(u, s, form, revision)
    BY <1>2, <1>3, <1>4, <1>6, <2>2, <2>3, <2>4, <2>5 DEF TaskOK, GenerationTaskOK
  <2>7. Follows(state, s, revision, {<<u.kind, u.id>>}) /\ Old(s, revision)
    BY <1>1, <1>3, <1>4, <1>6, <2>4
  <2>8. /\ u.kind \in Kinds /\ u.pc # "keying" /\ u.id \in 1..requests'
        /\ requests' \in {requests, requests + 1}
        /\ \A v \in tasks : v.id = u.id => v.pc = "keying"
        /\ s.conditioning.attempt.status = "running" =>
             form.dataset = s.conditioning.attempt.datasetSource
    BY <1>1, <1>2, <1>4, <1>6, <2>4 DEF Kinds, FormOK
  <2>9. Block(s, {s}, form, Launched(u), Begin(active, u.kind, u.id)) /\ revision' = revision
    BY <1>2, <2>1, <2>4
  <2> QED BY <2>6, <2>7, <2>8, <2>9, LaunchedOK
<1> QED BY <1>7, <1>8

\* A composed scenario goes on only as the current attempt.
LEMMA ScenarioComposedInv ==
  ASSUME IInv, NEW t \in tasks, ScenarioComposed(t)
  PROVE  IInv'
<1>1. /\ t \in GenerationTasks /\ GenerationTaskOK(t, state, revision)
      /\ t.kind = "generation" /\ t.pc = "composing"
  BY TasksByKind DEF ScenarioComposed, At
<1>2. CASE state.generation.attempt.requestId = t.id
  <2> DEFINE u == [t EXCEPT !.pc = "running"]
  <2>1. /\ u \in GenerationTasks /\ u.kind = t.kind /\ u.id = t.id /\ u.pc = "running"
        /\ u.guard = t.guard /\ u.irHash = t.irHash /\ u.aborted = t.aborted
    BY <1>1 DEF GenerationTasks
  <2>2. /\ tasks' = Resumed(t, u)
        /\ UNCHANGED <<state, form, active, revision, requests>>
    BY <1>2 DEF ScenarioComposed
  <2> HIDE DEF u
  <2>3. TaskOK(u, state, form, revision)
    BY <1>1, <2>1 DEF TaskOK, GenerationTaskOK
  <2>4. t.pc # "keying" /\ u.pc # "keying"
    BY <1>1, <2>1
  <2> QED BY <2>1, <2>2, <2>3, <2>4, ResumeOK
<1>3. CASE state.generation.attempt.requestId # t.id
  <2>1. End(t)
    BY <1>3 DEF ScenarioComposed
  <2>2. ~Current(t, state)
    BY <1>1, <1>3 DEF Current, GenerationRuns
  <2> QED BY <2>1, <2>2, EndOK DEF End
<1> QED BY <1>2, <1>3

\* A collection that lands keeps the invariant.
LEMMA GenerationOkInv ==
  ASSUME IInv, NEW t \in tasks, GenerationOk(t)
  PROVE  IInv'
<1> DEFINE coll == CollectionOf(t)
           pair == [gen |-> t.id, index |-> 0]
           s == GenerationSucceeded(state, t.id, coll, pair, Rev)
<1>1. /\ StateOK(state) /\ Old(state, revision) /\ revision \in Nat
  BY DEF IInv, Numbered
<1>2. /\ t \in GenerationTasks /\ GenerationTaskOK(t, state, revision)
      /\ t.kind = "generation" /\ t.pc = "running"
      /\ Complete(t, s, {s}) /\ revision' = Rev
  BY TasksByKind DEF GenerationOk, At, Bump, Rev
<1>3. coll \in Collections /\ coll.irHash = t.irHash /\ coll.gen = t.id
  BY <1>2 DEF CollectionOf, Collections, GenerationTasks, GenerationGuards, Opt
<1>4. pair \in Pairs /\ pair.gen = coll.gen
  BY <1>2, <1>3, FirstPairAssumption DEF Pairs, GenerationTasks
<1>5. GenerationRuns(state, t.id) => coll.irHash = LastHash(state)
  BY <1>2, <1>3 DEF GenerationTaskOK
<1>6. Rev \in Nat /\ Rev > revision /\ revision <= Rev /\ Old(state, Rev)
  BY <1>1, OldGrows DEF Rev
<1> HIDE DEF coll, pair
<1>7. Follows(state, s, revision, {}) /\ Old(s, Rev) /\ ~GenerationRuns(s, t.id)
  BY <1>1, <1>3, <1>4, <1>5, <1>6, GenerationSucceededOK
<1> HIDE DEF s
<1>8. ~Current(t, s)
  BY <1>2, <1>7 DEF Current
<1> QED BY <1>2, <1>6, <1>7, <1>8, CompleteOneOK

\* A failed generation keeps the invariant.
LEMMA GenerationErrorInv ==
  ASSUME IInv, NEW t \in tasks, GenerationError(t)
  PROVE  IInv'
<1> DEFINE s == GenerationFailed(state, t.id)
<1>1. StateOK(state) /\ Old(state, revision) /\ revision \in Nat
  BY DEF IInv, Numbered
<1>2. t.kind = "generation" /\ Complete(t, s, {s}) /\ revision' = revision
  BY DEF GenerationError, At
<1>3. /\ Follows(state, s, revision, {}) /\ Old(s, revision)
      /\ state.generation.attempt.requestId = t.id => s.generation.attempt.status # "running"
  BY <1>1, GenerationFailedOK
<1> HIDE DEF s
<1>4. ~Current(t, s)
  BY <1>2, <1>3 DEF Current, GenerationRuns, Follows, Evolves
<1>5. revision' \in Nat /\ revision <= revision' /\ Old(s, revision')
  BY <1>1, <1>2, <1>3
<1> QED BY <1>2, <1>3, <1>4, <1>5, CompleteOneOK

\* A fit whose digests are computed starts its attempt and its run, or leaves
\* neither behind.
LEMMA FitKeyedInv ==
  ASSUME IInv, NEW t \in tasks, FitKeyed(t)
  PROVE  IInv'
<1>1. /\ StateOK(state) /\ Old(state, revision) /\ revision \in Nat /\ FormOK(state, form)
      /\ requests \in Nat /\ t.id \in 1..requests
      /\ \A v \in tasks : v.id = t.id => v = t
  BY DEF IInv, Numbered
<1>2. /\ t \in FitTasks /\ FitTaskOK(t, state, form, revision)
      /\ t.kind = "conditioning" /\ t.pc = "keying"
  BY TasksByKind DEF FitKeyed, At
<1>3. ~ConditioningRuns(state, t.id)
  BY <1>2, OneDriver
<1>4. CASE form.dataset # t.dataset.source
  <2>1. End(t)
    BY <1>4 DEF FitKeyed
  <2> QED BY <1>2, <2>1, EndOK DEF End
<1>5. CASE form.dataset = t.dataset.source
  <2>1. /\ t.id \in Nat /\ t.projectRevision \in Nat /\ t.dataset.source \in DatasetSources
        /\ t.guard.compileRevision \in Nat
        /\ t.dataset.source = "generated" => state.generation.selected # None
    <3>1. t.dataset.source \in DatasetSources
      BY <1>2 DEF FitTasks, Datasets, DatasetSources
    <3> QED BY <1>1, <1>2, <1>5, <3>1 DEF FitTasks, FormOK
  <2>2. PICK id \in Nat, rev \in Nat, src \in DatasetSources, guard \in {t.guard} :
          id = t.id /\ rev = t.projectRevision /\ src = t.dataset.source
    BY <2>1
  <2> DEFINE s1 == ConditioningStarted(state, id, src, guard)
             s2 == RunStarted(s1, id, rev, src)
             s3 == ConditioningFailed(s2, id)
             u == [t EXCEPT !.pc = "running", !.irHash = s2.compile.irHash]
  <2>3. /\ ConditioningRuns(s1, id) <=> MatchesConditioningGuard(state, guard)
        /\ ~ConditioningRuns(s1, id) => s1 = state
        /\ ConditioningRuns(s1, id) /\ ~RunRuns(s2, id, rev) =>
             /\ Follows(state, s3, revision, {}) /\ \A x \in Nat : Old(state, x) => Old(s3, x)
             /\ s3.conditioning.attempt.status # "running"
        /\ ConditioningRuns(s1, id) /\ RunRuns(s2, id, rev) =>
             /\ Follows(state, s2, revision, {<<"conditioning", id>>})
             /\ \A x \in Nat : Old(state, x) => Old(s2, x)
             /\ ConditioningRuns(s2, id) /\ s2.projectRevision = rev
             /\ s2.conditioning.attempt.datasetSource = src
             /\ s2.compile = state.compile /\ s2.generation = state.generation
             /\ s2.observed = state.observed /\ s2.sourceRevision = state.sourceRevision
    <3>1. /\ StateOK(state) /\ revision \in Nat /\ ~ConditioningRuns(state, id)
          /\ src = "generated" => state.generation.selected # None
      BY <1>1, <1>3, <2>1, <2>2
    <3>2. StartsFit(state, revision, id, rev, src, guard)
      BY <3>1, FitStartedOK
    <3> QED BY <3>2 DEF StartsFit
  <2>4. /\ ~ConditioningRuns(s1, id) => Block(s1, {s1}, form, tasks \ {t}, active)
        /\ ConditioningRuns(s1, id) /\ ~RunRuns(s2, id, rev) =>
             Block(s3, {s1, s2, s3}, form, tasks \ {t}, active)
        /\ ConditioningRuns(s1, id) /\ RunRuns(s2, id, rev) =>
             Block(s2, {s2}, form, Launched(u), Begin(active, "conditioning", id))
        /\ revision' = revision /\ requests' = requests
    BY <1>5, <2>2 DEF FitKeyed
  <2> HIDE DEF s1, s2, s3
  <2>5. CASE ~ConditioningRuns(s1, id)
    <3>1. s1 = state /\ Block(s1, {s1}, form, tasks \ {t}, active)
      BY <2>3, <2>4, <2>5
    <3>2. Follows(state, state, revision, {})
      BY <1>1 DEF Follows, Evolves
    <3> QED BY <1>1, <1>2, <2>4, <3>1, <3>2, CompleteOneOK
  <2>6. CASE ConditioningRuns(s1, id) /\ ~RunRuns(s2, id, rev)
    <3>1. PICK path : path = {s1, s2, s3}
      OBVIOUS
    <3>2. /\ Follows(state, s3, revision, {}) /\ Old(s3, revision')
          /\ s3.conditioning.attempt.status # "running"
          /\ s3 \in path /\ Block(s3, path, form, tasks \ {t}, active)
      BY <1>1, <2>3, <2>4, <2>6, <3>1
    <3> QED BY <1>1, <1>2, <2>4, <3>2, CompleteOK
  <2>7. CASE ConditioningRuns(s1, id) /\ RunRuns(s2, id, rev)
    <3>1. /\ Follows(state, s2, revision, {<<"conditioning", id>>}) /\ Old(s2, revision)
          /\ ConditioningRuns(s2, id) /\ s2.projectRevision = rev
          /\ s2.conditioning.attempt.datasetSource = src
          /\ s2.compile = state.compile /\ s2.generation = state.generation
          /\ s2.observed = state.observed /\ s2.sourceRevision = state.sourceRevision
          /\ MatchesConditioningGuard(state, guard)
          /\ Block(s2, {s2}, form, Launched(u), Begin(active, "conditioning", id))
      BY <1>1, <2>3, <2>4, <2>7
    <3>2. s2.compile.irHash \in Opt(IrHashes) /\ StateOK(s2)
      BY <3>1 DEF Follows, StateOK, States, CompileStates
    <3>3. /\ u \in FitTasks /\ u.kind = "conditioning" /\ u.id = t.id /\ u.pc = "running"
          /\ u.guard = t.guard /\ u.dataset = t.dataset /\ u.settings = t.settings
          /\ u.projectRevision = t.projectRevision /\ u.irHash = s2.compile.irHash
      BY <1>2, <3>2 DEF FitTasks
    <3> HIDE DEF u
    <3>4. /\ t.guard.compileRevision = state.sourceRevision
          /\ t.guard.settingsRevision = state.conditioning.settingsRevision
          /\ src = "generated" => t.guard.selectionRevision = state.generation.selectionRevision
          /\ src # "generated" => t.guard.observed = state.observed
      BY <1>1, <1>2, <2>1, <2>2, <3>1, NoneAssumption
         DEF MatchesConditioningGuard, StateOK, CompileOK, FitTaskOK
    <3>5. /\ t.settings = form.settings
          /\ t.dataset.source = "observed" => t.dataset.document = state.observed
          /\ t.dataset.source = "generated" => t.dataset.pair = state.generation.selected
      BY <1>2, <2>1, <2>2, <3>4 DEF FitTaskOK
    <3>6. s2.compile.irHash # None => s2.compile.status = "compiled"
      BY <3>2 DEF StateOK, CompileOK
    <3>7. FitTaskOK(u, s2, form, revision)
      BY <1>2, <2>2, <2>7, <3>1, <3>3, <3>5, <3>6 DEF FitTaskOK
    <3>8. TaskOK(u, s2, form, revision)
      BY <3>3, <3>7 DEF TaskOK
    <3>9. /\ u.kind \in Kinds /\ u.pc # "keying" /\ u.id \in 1..requests'
          /\ requests' \in {requests, requests + 1}
          /\ \A v \in tasks : v.id = u.id => v.pc = "keying"
          /\ s2.conditioning.attempt.status = "running" =>
               form.dataset = s2.conditioning.attempt.datasetSource
      BY <1>1, <1>2, <1>5, <2>2, <2>4, <3>1, <3>3 DEF Kinds
    <3>10. /\ Block(s2, {s2}, form, Launched(u), Begin(active, u.kind, u.id))
           /\ revision' = revision
           /\ Follows(state, s2, revision, {<<u.kind, u.id>>}) /\ Old(s2, revision)
      BY <2>2, <2>4, <3>1, <3>3
    <3> QED BY <3>8, <3>9, <3>10, LaunchedOK
  <2> QED BY <2>5, <2>6, <2>7
<1> QED BY <1>4, <1>5

\* A fit that has been sampled goes on to be hashed.
LEMMA FitSampledInv ==
  ASSUME IInv, NEW t \in tasks, FitSampled(t)
  PROVE  IInv'
<1> DEFINE u == [t EXCEPT !.pc = "hashing"]
<1>1. /\ t \in FitTasks /\ FitTaskOK(t, state, form, revision)
      /\ t.pc = "running" /\ t.irHash # None
  BY TasksByKind DEF FitSampled, At
<1>2. /\ u \in FitTasks /\ u.kind = t.kind /\ u.id = t.id /\ u.pc = "hashing"
      /\ u.aborted = t.aborted /\ u.guard = t.guard /\ u.dataset = t.dataset
      /\ u.settings = t.settings /\ u.projectRevision = t.projectRevision
      /\ u.irHash = t.irHash
  BY <1>1 DEF FitTasks
<1>3. /\ tasks' = Resumed(t, u)
      /\ UNCHANGED <<state, form, active, revision, requests>>
  BY DEF FitSampled
<1> HIDE DEF u
<1>4. FitTaskOK(u, state, form, revision)
  BY <1>1, <1>2 DEF FitTaskOK
<1>5. TaskOK(u, state, form, revision) /\ t.pc # "keying" /\ u.pc # "keying"
  BY <1>1, <1>2, <1>4 DEF TaskOK
<1> QED BY <1>2, <1>3, <1>5, ResumeOK

\* A failed fit ends its run and its attempt.
LEMMA FitErrorInv ==
  ASSUME IInv, NEW t \in tasks, FitError(t)
  PROVE  IInv'
<1> DEFINE s1 == RunFailed(state, t.id, t.projectRevision)
           s2 == ConditioningFailed(s1, t.id)
<1>1. StateOK(state) /\ Old(state, revision) /\ revision \in Nat
  BY DEF IInv, Numbered
<1>2. t.kind = "conditioning" /\ Complete(t, s2, {s1, s2}) /\ revision' = revision
  BY DEF FitError, At
<1>3. RunRuns(state, t.id, t.projectRevision) /\ state.conditioning.attempt.status = "running"
        => t.id = state.conditioning.attempt.requestId
  BY <1>1 DEF RunRuns, StateOK, RunOK
<1>4. /\ Follows(state, s2, revision, {}) /\ Evolves(s1, s2, revision, {})
      /\ Old(s2, revision)
      /\ state.conditioning.attempt.requestId = t.id =>
           s2.conditioning.attempt.status # "running"
  BY <1>1, <1>3, FitFailedOK DEF Follows
<1>5. StateOK(s1)
  BY <1>1, RunFailedOK
<1> HIDE DEF s1, s2
<1>6. ~Current(t, s2)
  BY <1>2, <1>4 DEF Current, ConditioningRuns, Follows, Evolves
<1>7. PICK path : path = {s1, s2}
  OBVIOUS
<1>8. \A p \in path : \/ s2.conditioning.attempt.status # "running"
                      \/ s2.conditioning.attempt.datasetSource # "generated"
                      \/ p.generation.selected # None
  BY <1>4, <1>5, <1>7, PassedOK DEF Follows, StateOK, AttemptsOK
<1>9. s2 \in path /\ Complete(t, s2, path) /\ revision' \in Nat /\ revision <= revision'
      /\ Old(s2, revision')
  BY <1>1, <1>2, <1>4, <1>7
<1> QED BY <1>4, <1>6, <1>8, <1>9, CompleteOK

\* What a driver commits is the fit of what it captured, and while its attempt
\* is current all of that is still what the page holds.
LEMMA FitCommits ==
  ASSUME IInv, NEW t \in tasks, At(t, "conditioning", "hashing"), NEW results \in FitResults(t)
  PROVE  /\ t \in FitTasks /\ FitTaskOK(t, state, form, revision)
         /\ FitOf(t) \in Fits /\ results \in SUBSET Artifacts
         /\ \A a \in results : a.lineageKey = FitOf(t).lineageKey
         /\ \E a \in results : a.name = "posterior.ndjson"
         /\ \E a \in results : a.name = "data.json"
         /\ FitOf(t).lineageKey.dataset.source = FitOf(t).datasetSource
         /\ ConditioningRuns(state, t.id) =>
              /\ RunRuns(state, t.id, t.projectRevision)
              /\ FitOf(t).lineageKey.irHash = LastHash(state)
              /\ FitOf(t).datasetSource = "generated" =>
                   FitOf(t).lineageKey.dataset.pair = state.generation.selected
<1>1. /\ t \in FitTasks /\ FitTaskOK(t, state, form, revision) /\ t.pc = "hashing"
  BY TasksByKind DEF At
<1>2. t.irHash \in IrHashes
  BY <1>1 DEF FitTaskOK, FitTasks, Opt
<1>3. t.dataset.source \in DatasetSources
  BY <1>1 DEF FitTasks, Datasets, DatasetSources
<1>4. /\ FitOf(t) \in Fits /\ FitOf(t).lineageKey \in LineageKeys
      /\ FitOf(t).lineageKey.dataset = t.dataset /\ FitOf(t).datasetSource = t.dataset.source
      /\ FitOf(t).lineageKey.irHash = t.irHash
  BY <1>1, <1>2, <1>3 DEF FitOf, Fits, LineageKeys, FitTasks
<1> DEFINE key == FitOf(t).lineageKey
<1>5. PICK extra \in SUBSET PosteriorDependents :
        results = {[name |-> n, lineageKey |-> key] :
                     n \in {"model.ir.json", "data.json", "posterior.ndjson"} \cup extra}
  BY DEF FitResults
<1> HIDE DEF key
<1>6. /\ results \in SUBSET Artifacts /\ \A a \in results : a.lineageKey = key
      /\ \E a \in results : a.name = "posterior.ndjson"
      /\ \E a \in results : a.name = "data.json"
  <2> DEFINE names == {"model.ir.json", "data.json", "posterior.ndjson"} \cup extra
  <2>1. /\ names \subseteq ArtifactNames
        /\ "posterior.ndjson" \in names /\ "data.json" \in names
    BY DEF ArtifactNames, FitDescendantArtifacts, PosteriorDependents
  <2>2. key \in LineageKeys
    BY <1>4 DEF key
  <2>3. results = {[name |-> n, lineageKey |-> key] : n \in names}
    BY <1>5
  <2> HIDE DEF names
  <2>4. \A n \in names : [name |-> n, lineageKey |-> key] \in Artifacts
    BY <2>1, <2>2 DEF Artifacts
  <2>5. \A a \in results : a \in Artifacts /\ a.lineageKey = key
    BY <2>3, <2>4
  <2>6. ASSUME NEW n \in names
        PROVE  \E a \in results : a.name = n
    <3>1. [name |-> n, lineageKey |-> key] \in results
      BY <2>3
    <3> QED BY <3>1
  <2> QED BY <2>1, <2>5, <2>6
<1>7. ConditioningRuns(state, t.id) =>
        /\ RunRuns(state, t.id, t.projectRevision)
        /\ t.irHash = LastHash(state)
        /\ t.dataset.source = "generated" => t.dataset.pair = state.generation.selected
  BY <1>1, <1>2, NoneAssumption DEF FitTaskOK, LastHash
<1> QED BY <1>1, <1>4, <1>6, <1>7 DEF key

\* A commit keeps the invariant.
LEMMA FitCommitInv ==
  ASSUME IInv, NEW t \in tasks, FitCommit(t)
  PROVE  IInv'
<1>1. StateOK(state) /\ Old(state, revision) /\ revision \in Nat
  BY DEF IInv, Numbered
<1>2. PICK results \in FitResults(t) :
        LET s == ConditioningCommitted(state, t.id, t.projectRevision, FitOf(t), results)
        IN Complete(t, s, {s})
  BY DEF FitCommit
<1>3. At(t, "conditioning", "hashing") /\ revision' = revision /\ t.kind = "conditioning"
  BY DEF FitCommit, At
<1> DEFINE rev == t.projectRevision
           fit == FitOf(t)
           s == ConditioningCommitted(state, t.id, rev, fit, results)
<1>4. /\ t \in FitTasks /\ fit \in Fits /\ results \in SUBSET Artifacts
      /\ \A a \in results : a.lineageKey = fit.lineageKey
      /\ \E a \in results : a.name = "posterior.ndjson"
      /\ \E a \in results : a.name = "data.json"
      /\ fit.lineageKey.dataset.source = fit.datasetSource
      /\ ConditioningRuns(state, t.id) =>
           /\ RunRuns(state, t.id, rev)
           /\ fit.lineageKey.irHash = LastHash(state)
           /\ fit.datasetSource = "generated" =>
                fit.lineageKey.dataset.pair = state.generation.selected
  BY <1>3, FitCommits
<1>5. rev \in Nat
  BY <1>4 DEF FitTasks
<1>6. Complete(t, s, {s})
  BY <1>2
<1> HIDE DEF fit, rev
<1>7. /\ Follows(state, s, revision, {}) /\ \A x \in Nat : Old(state, x) => Old(s, x)
      /\ RunRuns(state, t.id, rev) => ~ConditioningRuns(s, t.id)
  <2>1. ConditioningRuns(state, t.id) /\ RunRuns(state, t.id, rev) =>
           /\ fit.lineageKey.irHash = LastHash(state)
           /\ fit.datasetSource = "generated" =>
                fit.lineageKey.dataset.pair = state.generation.selected
    BY <1>4
  <2>2. PICK none : none = {}
    OBVIOUS
  <2>3. Follows(state, s, revision, none) /\ (RunRuns(state, t.id, rev) => ~ConditioningRuns(s, t.id))
    BY <1>1, <1>4, <1>5, <2>1, <2>2, ConditioningCommittedOK
  <2>4. \A x \in Nat : Old(state, x) => Old(s, x)
    BY <1>1, <1>4, <1>5, <2>1, ConditioningCommittedOK
  <2> QED BY <2>2, <2>3, <2>4
<1> HIDE DEF s
<1>8. ConditioningRuns(s, t.id) => ConditioningRuns(state, t.id)
  BY <1>7 DEF Follows, Evolves, ConditioningRuns
<1>9. ~Current(t, s)
  BY <1>3, <1>4, <1>7, <1>8 DEF Current
<1>10. revision' \in Nat /\ revision <= revision' /\ Old(s, revision')
  BY <1>1, <1>3, <1>7
<1> QED BY <1>6, <1>7, <1>9, <1>10, CompleteOneOK

\* Every settlement keeps the invariant.
LEMMA SettlementInv ==
  ASSUME IInv, NEW t \in tasks, Settlement(t)
  PROVE  IInv'
<1>1. CASE CompileOk(t)
  BY <1>1, CompileOkInv
<1>2. CASE CompileError(t)
  BY <1>2, CompileErrorInv
<1>3. CASE GenerationKeyed(t)
  BY <1>3, GenerationKeyedInv
<1>4. CASE ScenarioComposed(t)
  BY <1>4, ScenarioComposedInv
<1>5. CASE GenerationOk(t)
  BY <1>5, GenerationOkInv
<1>6. CASE GenerationError(t)
  BY <1>6, GenerationErrorInv
<1>7. CASE FitKeyed(t)
  BY <1>7, FitKeyedInv
<1>8. CASE FitSampled(t)
  BY <1>8, FitSampledInv
<1>9. CASE FitError(t)
  BY <1>9, FitErrorInv
<1>10. CASE FitCommit(t)
  BY <1>10, FitCommitInv
<1> QED BY <1>1, <1>2, <1>3, <1>4, <1>5, <1>6, <1>7, <1>8, <1>9, <1>10 DEF Settlement

\* The page opens with nothing compiled, nothing running and no revision used.
LEMMA InitInv ==
  ASSUME Init
  PROVE  IInv
<1>1. PICK d \in Documents : state = InitialState(d)
  BY DEF Init
<1>2. state \in States
  BY <1>1, InitialTyped
<1>3. /\ state.sourceRevision = 0 /\ state.projectRevision = 0
      /\ state.compile = CompileIdle /\ state.run = RunIdle /\ state.artifacts = {}
      /\ state.fitDatasetSource = None
      /\ state.generation.attempt = GenerationSettled("idle")
      /\ state.generation.collection = None /\ state.generation.selected = None
      /\ state.generation.selectionRevision = 0
      /\ state.conditioning.attempt = ConditioningSettled("idle")
      /\ state.conditioning.fit = None /\ state.conditioning.settingsRevision = 0
  BY <1>1 DEF InitialState
<1>4. /\ state.compile.status = "idle" /\ state.compile.revision = None
      /\ state.compile.irHash = None /\ state.run.status = "idle"
      /\ state.generation.attempt.status = "idle"
      /\ state.conditioning.attempt.status = "idle"
      /\ state.conditioning.attempt.datasetSource = None
  BY <1>3 DEF CompileIdle, RunIdle, RunSettled, GenerationSettled, ConditioningSettled
<1>5. StateOK(state)
  BY <1>2, <1>3, <1>4 DEF StateOK, CompileOK, RunOK, AttemptsOK, ArtifactsOK, ResultsOK
<1>6. Old(state, revision)
  BY <1>3 DEF Init, Old
<1>7. FormOK(state, form)
  BY <1>4 DEF Init, FormOK, Forms, DatasetSources, ParamSources
<1>8. Numbered
  BY DEF Init, Numbered, Opt
<1>9. OrphansAreAborted /\ \A t \in tasks : TaskOK(t, state, form, revision)
  BY DEF Init, OrphansAreAborted
<1>10. DrivenIn(tasks, state)
  BY <1>4 DEF DrivenIn
<1> QED BY <1>5, <1>6, <1>7, <1>8, <1>9, <1>10 DEF IInv

\* Every step keeps the invariant.
LEMMA NextInv ==
  ASSUME IInv, [Next]_vars
  PROVE  IInv'
<1>1. CASE LoadProject
  BY <1>1, LoadProjectInv
<1>2. CASE Edits /\ ~LoadProject
  BY <1>2, EditsInv
<1>3. CASE Clicks
  BY <1>3, CancelInv, CompileClickInv, GenerateClickInv, ComposeClickInv, FitClickInv
     DEF Clicks
<1>4. CASE \E t \in tasks : Settlement(t)
  BY <1>4, SettlementInv
<1>5. CASE UNCHANGED vars
  BY <1>5 DEF vars, IInv, Numbered, OrphansAreAborted
<1> QED BY <1>1, <1>2, <1>3, <1>4, <1>5 DEF Next

-----------------------------------------------------------------------------
\* The inductive invariant holds of every behaviour.
THEOREM Invariance == Spec => []IInv
<1>1. Init => IInv
  BY InitInv
<1>2. IInv /\ [Next]_vars => IInv'
  BY NextInv
<1> QED BY <1>1, <1>2, PTL DEF Spec

\* The artifacts shown are those of the fit the page holds.
THEOREM ArtifactsAreOfTheFit == Spec => []ArtifactsMatchFit
<1>1. IInv => ArtifactsMatchFit
  BY DEF IInv, StateOK, ArtifactsOK, ArtifactsMatchFit
<1> QED BY <1>1, Invariance, PTL

\* The fit and the collection are of the model as last compiled, and a fit of a
\* simulated pair is of the selected one.
THEOREM ResultsAreOfTheModel == Spec => []ResultsMatchModel
<1>1. IInv => ResultsMatchModel
  BY DEF IInv, StateOK, ResultsOK, ResultsMatchModel
<1> QED BY <1>1, Invariance, PTL

\* A driver that is no longer current has been aborted.
THEOREM OrphansAbort == Spec => []OrphansAreAborted
<1>1. IInv => OrphansAreAborted
  BY DEF IInv
<1> QED BY <1>1, Invariance, PTL

\* Every attempt shown as running has a driver, and a driver about to commit
\* that has not been aborted will not be refused.
THEOREM AttemptsAreDriven == Spec => []AttemptsHaveDrivers
<1>1. ASSUME IInv
      PROVE  AttemptsHaveDrivers
  <2>1. DrivenIn(tasks, state)
    BY <1>1 DEF IInv
  <2>2. ASSUME NEW t \in tasks, At(t, "conditioning", "hashing"), ~t.aborted
        PROVE  RunRuns(state, t.id, t.projectRevision) /\ t.projectRevision = state.projectRevision
    <3>1. t.kind = "conditioning" /\ t.pc = "hashing"
      BY <2>2 DEF At
    <3>2. Matches(t.kind, t.id, state)
      BY <1>1, <2>2, <3>1 DEF IInv, OrphansAreAborted
    <3>3. ConditioningRuns(state, t.id)
      BY <3>1, <3>2 DEF Matches
    <3>4. FitTaskOK(t, state, form, revision)
      BY <1>1, <3>1, TasksByKind
    <3>5. RunRuns(state, t.id, t.projectRevision)
      BY <3>1, <3>3, <3>4 DEF FitTaskOK
    <3> QED BY <1>1, <3>5 DEF IInv, StateOK, RunOK, RunRuns
  <2> QED BY <2>1, <2>2 DEF AttemptsHaveDrivers, DrivenIn, Driven
<1> QED BY <1>1, Invariance, PTL

-----------------------------------------------------------------------------
\* A state with the fields of a state, and a step that leaves the fit and the
\* collection alone or drops them.
Shaped(s) ==
  /\ DOMAIN s = {"sourceRevision", "projectRevision", "observed", "compile", "run",
                 "generation", "conditioning", "artifacts", "fitDatasetSource"}
  /\ DOMAIN s.generation = {"attempt", "collection", "selected", "inputRevision",
                            "settingsRevision", "selectionRevision"}
  /\ DOMAIN s.conditioning = {"attempt", "fit", "settingsRevision", "datasetSource",
                              "datasetSourceRevision"}
Keeps(s, s2) ==
  /\ Shaped(s2)
  /\ s2.conditioning.fit \in {None, s.conditioning.fit}
  /\ s2.generation.collection \in {None, s.generation.collection}

\* Nothing new in two steps is nothing new.
LEMMA KeepsTwice ==
  ASSUME NEW s1, NEW s2, NEW s3, Keeps(s1, s2), Keeps(s2, s3)
  PROVE  Keeps(s1, s3)
BY DEF Keeps

\* The states of the model have the shape.
LEMMA TypedIsShaped ==
  ASSUME NEW s \in States
  PROVE  Shaped(s) /\ Keeps(s, s)
BY DEF Shaped, Keeps, States, GenerationStates, ConditioningStates

\* The events of the compiler and of the project bring neither a fit nor a
\* collection.
LEMMA ProjectKeeps ==
  ASSUME NEW s, Shaped(s), NEW rev, NEW id, NEW doc, NEW hash
  PROVE  /\ Keeps(s, SourceEdited(s, rev))
         /\ Keeps(s, DocumentsEdited(s, doc, rev))
         /\ Keeps(s, CompileStarted(s, id, rev))
         /\ Keeps(s, CompileSucceeded(s, id, rev, hash))
         /\ Keeps(s, CompileFailed(s, id, rev))
         /\ Keeps(s, RunFailed(s, id, rev))
<1>1. Keeps(s, s)
  BY DEF Keeps
<1>2. Keeps(s, SourceEdited(s, rev))
  BY DEF Keeps, Shaped, SourceEdited, InitialState
<1>3. Keeps(s, DocumentsEdited(s, doc, rev))
  BY DEF Keeps, Shaped, DocumentsEdited, ClearGeneration
<1>4. Keeps(s, CompileStarted(s, id, rev))
  BY <1>1 DEF Keeps, Shaped, CompileStarted
<1>5. Keeps(s, CompileSucceeded(s, id, rev, hash))
  BY <1>1 DEF Keeps, Shaped, CompileSucceeded
<1>6. Keeps(s, CompileFailed(s, id, rev))
  BY <1>1 DEF Keeps, Shaped, CompileFailed
<1>7. Keeps(s, RunFailed(s, id, rev))
  BY <1>1 DEF Keeps, Shaped, RunFailed
<1> QED BY <1>2, <1>3, <1>4, <1>5, <1>6, <1>7

\* A generated fit is dropped, and nothing else of conditioning.
LEMMA ClearedFitShape ==
  ASSUME NEW s, Shaped(s)
  PROVE  LET c == ClearGeneratedFit(s.conditioning) IN
         /\ DOMAIN c = DOMAIN s.conditioning
         /\ c.fit \in {None, s.conditioning.fit}
BY DEF Shaped, ClearGeneratedFit

\* Nor do the edits, and what starts or fails a generation or a fit.
LEMMA EditsKeep ==
  ASSUME NEW s, Shaped(s), NEW rev, NEW id, NEW doc, NEW pair, NEW src, NEW guard
  PROVE  /\ Keeps(s, GenerationStarted(s, id, guard))
         /\ Keeps(s, GenerationFailed(s, id))
         /\ Keeps(s, GenerationInputEdited(s, rev))
         /\ Keeps(s, GenerationSettingsEdited(s, rev))
         /\ Keeps(s, SelectionEdited(s, pair, rev))
         /\ Keeps(s, ObservedInputEdited(s, doc, rev))
         /\ Keeps(s, DatasetSourceEdited(s, src, rev))
         /\ Keeps(s, InferenceSettingsEdited(s, rev))
         /\ Keeps(s, ConditioningStarted(s, id, src, guard))
         /\ Keeps(s, RunStarted(s, id, rev, src))
         /\ Keeps(s, ConditioningFailed(s, id))
<1>1. Keeps(s, s)
  BY DEF Keeps
<1>2. Keeps(s, GenerationStarted(s, id, guard))
  BY <1>1 DEF Keeps, Shaped, GenerationStarted
<1>3. Keeps(s, GenerationFailed(s, id))
  BY <1>1 DEF Keeps, Shaped, GenerationFailed
<1>4. Keeps(s, ConditioningStarted(s, id, src, guard))
  BY <1>1 DEF Keeps, Shaped, ConditioningStarted
<1>5. Keeps(s, RunStarted(s, id, rev, src))
  BY <1>1 DEF Keeps, Shaped, RunStarted
<1>6. Keeps(s, ConditioningFailed(s, id))
  BY <1>1 DEF Keeps, Shaped, ConditioningFailed
<1>7. Keeps(s, DatasetSourceEdited(s, src, rev))
  BY DEF Keeps, Shaped, DatasetSourceEdited
<1>8. Keeps(s, InferenceSettingsEdited(s, rev))
  BY DEF Keeps, Shaped, InferenceSettingsEdited
<1>9. Keeps(s, GenerationInputEdited(s, rev)) /\ Keeps(s, GenerationSettingsEdited(s, rev))
  <2> DEFINE s1 == IF GeneratedFit(s) THEN DropFitView(s, rev) ELSE s
             c == ClearGeneratedFit(s.conditioning)
             g == ClearGeneration(s.generation)
             s2 == GenerationEdited(s, rev)
  <2>1. Shaped(s1) /\ s1.generation = s.generation /\ s1.conditioning = s.conditioning
    BY DEF Shaped, DropFitView
  <2>2. /\ DOMAIN c = DOMAIN s.conditioning
        /\ c.fit \in {None, s.conditioning.fit}
    BY ClearedFitShape
  <2>3. DOMAIN g = DOMAIN s.generation /\ g.collection = None
    BY DEF Shaped, ClearGeneration
  <2>4. s2 = [s1 EXCEPT !.generation = g, !.conditioning = c]
    BY <2>1 DEF GenerationEdited, Shaped
  <2> HIDE DEF s1, c, g, s2
  <2>5. Shaped(s2) /\ s2.generation = g /\ s2.conditioning = c
    BY <2>1, <2>2, <2>3, <2>4 DEF Shaped
  <2>6. /\ GenerationInputEdited(s, rev) = [s2 EXCEPT !.generation.inputRevision = rev]
        /\ GenerationSettingsEdited(s, rev) = [s2 EXCEPT !.generation.settingsRevision = rev]
    BY DEF GenerationInputEdited, GenerationSettingsEdited, s2
  <2>7. Keeps(s2, GenerationInputEdited(s, rev)) /\ Keeps(s2, GenerationSettingsEdited(s, rev))
    BY <2>5, <2>6 DEF Shaped, Keeps
  <2>8. Keeps(s, s2)
    BY <2>2, <2>3, <2>5 DEF Keeps
  <2> QED BY <2>7, <2>8, KeepsTwice
<1>10. Keeps(s, SelectionEdited(s, pair, rev))
  <2>1. CASE s.generation.collection = None
    BY <1>1, <2>1 DEF SelectionEdited
  <2>2. CASE s.generation.collection # None
    <3>1. PICK drop \in BOOLEAN :
            drop <=> GeneratedFit(s) \/ s.run.datasetSource = "generated"
      OBVIOUS
    <3> DEFINE s1 == IF drop THEN DropFitView(s, rev) ELSE s
               c == ClearGeneratedFit(s.conditioning)
               s2 == SelectionEdited(s, pair, rev)
    <3>2. Shaped(s1) /\ s1.generation = s.generation /\ s1.conditioning = s.conditioning
      BY DEF Shaped, DropFitView
    <3>3. /\ DOMAIN c = DOMAIN s.conditioning
          /\ c.fit \in {None, s.conditioning.fit}
      BY ClearedFitShape
    <3>4. PICK attempt : s2 = [s1 EXCEPT !.generation.attempt = attempt,
                                         !.generation.selected = pair,
                                         !.generation.selectionRevision = rev,
                                         !.conditioning = c]
      BY <2>2, <3>1, <3>2 DEF SelectionEdited, Shaped
    <3> HIDE DEF s1, c, s2
    <3>5. Shaped(s2) /\ s2.conditioning = c /\ s2.generation.collection = s.generation.collection
      BY <3>2, <3>3, <3>4 DEF Shaped
    <3> QED BY <3>3, <3>5 DEF Keeps, s2
  <2> QED BY <2>1, <2>2
<1>11. Keeps(s, ObservedInputEdited(s, doc, rev))
  <2>1. \A g \in {s.generation, ClearGeneration(s.generation)} :
          /\ DOMAIN g = DOMAIN s.generation
          /\ g.collection \in {None, s.generation.collection}
    BY DEF Shaped, ClearGeneration
  <2>2. PICK g \in {s.generation, ClearGeneration(s.generation)} :
          g = IF PosteriorGeneration(s) THEN ClearGeneration(s.generation) ELSE s.generation
    OBVIOUS
  <2> DEFINE edited == [s EXCEPT !.observed = doc]
             idled == [edited EXCEPT !.projectRevision = rev, !.run = RunIdle,
                                     !.generation = g,
                                     !.conditioning.attempt = ConditioningSettled("idle")]
             bare == [idled EXCEPT !.artifacts = WithoutFitArtifacts(@),
                                   !.fitDatasetSource = None, !.conditioning.fit = None]
  <2>3. Keeps(s, edited) /\ edited.generation = s.generation
    BY DEF Keeps, Shaped
  <2>4. ObservedInputEdited(s, doc, rev) \in {edited, idled, bare}
    BY <2>2, <2>3 DEF ObservedInputEdited, Shaped, Keeps
  <2>5. Keeps(s, idled)
    <3> HIDE DEF edited
    <3> QED BY <2>1, <2>3 DEF Keeps, Shaped
  <2>6. Keeps(idled, bare)
    <3> HIDE DEF idled
    <3> QED BY <2>5 DEF Keeps, Shaped
  <2> QED BY <2>3, <2>4, <2>5, <2>6, KeepsTwice
<1> QED BY <1>2, <1>3, <1>4, <1>5, <1>6, <1>7, <1>8, <1>9, <1>10, <1>11

\* A finished generation drops fits and brings its own collection, if it is
\* the current one.
LEMMA GenerationSucceededKeeps ==
  ASSUME NEW s, Shaped(s), NEW id, NEW coll, NEW pair, NEW rev
  PROVE  LET s2 == GenerationSucceeded(s, id, coll, pair, rev) IN
         /\ s2.conditioning.fit \in {None, s.conditioning.fit}
         /\ s2.generation.collection # s.generation.collection =>
              GenerationRuns(s, id) /\ s2.generation.collection = coll
<1> DEFINE s1 == IF GeneratedFit(s) THEN DropFitView(s, rev) ELSE s
           c == ClearGeneratedFit(s.conditioning)
           g == [s.generation EXCEPT !.attempt = GenerationSettled("completed"),
                                     !.collection = coll, !.selected = pair,
                                     !.selectionRevision = rev]
           s2 == GenerationSucceeded(s, id, coll, pair, rev)
<1>1. Shaped(s1) /\ s1.generation = s.generation /\ s1.conditioning = s.conditioning
  BY DEF Shaped, DropFitView
<1>2. c.fit \in {None, s.conditioning.fit}
  BY ClearedFitShape
<1>3. g.collection = coll
  BY DEF Shaped
<1>4. CASE ~GenerationRuns(s, id)
  BY <1>4 DEF GenerationSucceeded
<1>5. CASE GenerationRuns(s, id)
  <2>1. s2 = [s1 EXCEPT !.generation = g, !.conditioning = c]
    BY <1>1, <1>5 DEF GenerationSucceeded, Shaped
  <2> HIDE DEF s1, c, g, s2
  <2>2. s2.generation = g /\ s2.conditioning = c
    BY <1>1, <2>1 DEF Shaped
  <2> QED BY <1>2, <1>3, <1>5, <2>2 DEF s2
<1> QED BY <1>4, <1>5

\* A commit brings its own fit, if it is the current one, and at most drops the
\* collection.
LEMMA CommitKeeps ==
  ASSUME NEW s, Shaped(s), NEW id, NEW rev, NEW fit, NEW added
  PROVE  LET s2 == ConditioningCommitted(s, id, rev, fit, added) IN
         /\ s2.generation.collection \in {None, s.generation.collection}
         /\ s2.conditioning.fit # s.conditioning.fit =>
              ConditioningRuns(s, id) /\ s2.conditioning.fit = fit
<1> DEFINE g == GenerationAfterFit(s.generation, fit.lineageKey)
           s2 == ConditioningCommitted(s, id, rev, fit, added)
<1>1. g.collection \in {None, s.generation.collection}
  BY DEF GenerationAfterFit, Shaped
<1>2. CASE s2 = s
  BY <1>2
<1>3. CASE s2 # s
  <2>1. ConditioningRuns(s, id)
    BY <1>3 DEF ConditioningCommitted
  <2>2. s2.generation = g /\ s2.conditioning.fit = fit
    <3> HIDE DEF g
    <3>1. s2 = [s EXCEPT !.run = RunSettled("completed", rev),
                         !.artifacts = MergeArtifacts(s.artifacts, added),
                         !.fitDatasetSource = fit.datasetSource,
                         !.generation = g,
                         !.conditioning.attempt = ConditioningSettled("completed"),
                         !.conditioning.fit = fit]
      BY <1>3 DEF ConditioningCommitted, Shaped, g
    <3> HIDE DEF s2
    <3> QED BY <3>1 DEF Shaped
  <2> QED BY <1>1, <2>1, <2>2
<1> QED BY <1>2, <1>3

\* Every action but the two commits brings nothing new.
LEMMA NothingNew ==
  ASSUME IInv, Next,
         ~ \E t \in tasks : GenerationOk(t) \/ FitCommit(t)
  PROVE  Keeps(state, state')
<1>1. state \in States /\ Shaped(state) /\ Keeps(state, state)
  BY TypedIsShaped DEF IInv, StateOK
<1>2. CASE LoadProject
  <2>1. PICK d \in Documents, sampler \in BOOLEAN, generation \in BOOLEAN :
          LET s1 == SourceEdited(state, Rev)
              s2 == DocumentsEdited(s1, d, Rev + 1)
              s3 == IF sampler THEN InferenceSettingsEdited(s2, Rev + 2) ELSE s2
              s4 == IF generation THEN GenerationSettingsEdited(s3, Rev + 3) ELSE s3
          IN state' = s4
    BY <1>2 DEF LoadProject, Block
  <2> DEFINE s1 == SourceEdited(state, Rev)
             s2 == DocumentsEdited(s1, d, Rev + 1)
             s3 == IF sampler THEN InferenceSettingsEdited(s2, Rev + 2) ELSE s2
             s4 == IF generation THEN GenerationSettingsEdited(s3, Rev + 3) ELSE s3
  <2>2. Keeps(state, s1)
    BY <1>1, ProjectKeeps
  <2> HIDE DEF s1
  <2>3. Keeps(s1, s2)
    BY <2>2, ProjectKeeps DEF Keeps
  <2> HIDE DEF s2
  <2>4. Keeps(s2, s2) /\ Keeps(s2, InferenceSettingsEdited(s2, Rev + 2))
    BY <2>3, EditsKeep DEF Keeps
  <2>5. Keeps(s2, s3)
    BY <2>4
  <2> HIDE DEF s3
  <2>6. Keeps(s3, s3) /\ Keeps(s3, GenerationSettingsEdited(s3, Rev + 3))
    BY <2>5, EditsKeep DEF Keeps
  <2>7. Keeps(s3, s4)
    BY <2>6
  <2>8. state' = s4
    BY <2>1 DEF s1, s2, s3
  <2> HIDE DEF s4
  <2> QED BY <2>2, <2>3, <2>5, <2>7, <2>8, KeepsTwice
<1>3. CASE Edits /\ ~LoadProject
  <2>1. \/ \E rev : state' = SourceEdited(state, rev)
        \/ \E rev, doc : state' = ObservedInputEdited(state, doc, rev)
        \/ \E rev : state' = GenerationInputEdited(state, rev)
        \/ \E rev : state' = GenerationSettingsEdited(state, rev)
        \/ \E rev, pair : state' = SelectionEdited(state, pair, rev)
        \/ \E rev, src : state' = DatasetSourceEdited(state, src, rev)
        \/ \E rev : state' = InferenceSettingsEdited(state, rev)
    BY <1>3 DEF Edits, EditSource, EditObserved, EditGenerationInputs, EditGenerationSettings,
                ChooseParameterSource, SelectPair, ChooseDataset, EditInferenceSettings, Edit,
                Block
  <2> QED BY <1>1, <2>1, ProjectKeeps, EditsKeep
<1>4. CASE Cancel
  <2> DEFINE s1 == IF state.run.status = "running"
                   THEN RunFailed(state, state.run.requestId, state.run.revision) ELSE state
             s2 == ConditioningFailed(s1, state.conditioning.attempt.requestId)
             s3 == GenerationFailed(s2, state.generation.attempt.requestId)
             s4 == CompileFailed(s3, state.compile.requestId, state.compile.revision)
  <2>1. state' = s4
    BY <1>4 DEF Cancel, CancellationPath, Block
  <2>2. Keeps(state, s1)
    BY <1>1, ProjectKeeps
  <2> HIDE DEF s1
  <2>3. Keeps(s1, s2)
    BY <2>2, EditsKeep DEF Keeps
  <2> HIDE DEF s2
  <2>4. Keeps(s2, s3)
    BY <2>3, EditsKeep DEF Keeps
  <2> HIDE DEF s3
  <2>5. Keeps(s3, s4)
    BY <2>4, ProjectKeeps DEF Keeps
  <2> HIDE DEF s4
  <2> QED BY <2>1, <2>2, <2>3, <2>4, <2>5, KeepsTwice
<1>5. CASE CompileClick \/ GenerateClick \/ ComposeClick \/ FitClick
  <2>1. \/ state' = state
        \/ \E rev, id : state' = CompileStarted(state, id, rev)
        \/ \E guard, id : state' = GenerationStarted(state, id, guard)
        \/ \E rev, src : state' = DatasetSourceEdited(state, src, rev)
    BY <1>5 DEF CompileClick, GenerateClick, ComposeClick, FitClick, Block
  <2> QED BY <1>1, <2>1, ProjectKeeps, EditsKeep
<1>6. ASSUME NEW t \in tasks, CompileOk(t)
      PROVE  Keeps(state, state')
  <2>1. CASE state' = state
    BY <1>1, <2>1
  <2>2. CASE state' # state
    <3>1. PICK hash \in IrHashes, authored \in BOOLEAN : state' = Adopt(t, hash, authored)[3]
      BY <1>6, <2>2 DEF CompileOk, Complete, Block
    <3> DEFINE fresh == t.priorIrHash \notin {None, hash}
               rev == IF fresh THEN Rev ELSE t.sourceRevision
               s0 == SourceEdited(state, rev)
               s1 == IF fresh THEN CompileStarted(s0, t.id, rev) ELSE state
               s2 == IF authored THEN GenerationInputEdited(s1, Rev + 1) ELSE s1
               s3 == CompileSucceeded(s2, t.id, rev, hash)
    <3>2. state' = s3
      BY <3>1 DEF Adopt
    <3> HIDE DEF rev
    <3>3. Keeps(state, s0)
      BY <1>1, ProjectKeeps
    <3> HIDE DEF s0
    <3>4. Keeps(s0, CompileStarted(s0, t.id, rev))
      BY <3>3, ProjectKeeps DEF Keeps
    <3>5. Keeps(state, s1)
      BY <1>1, <3>3, <3>4, KeepsTwice
    <3> HIDE DEF s1
    <3>6. Keeps(s1, s1) /\ Keeps(s1, GenerationInputEdited(s1, Rev + 1))
      BY <3>5, EditsKeep DEF Keeps
    <3>7. Keeps(s1, s2)
      BY <3>6
    <3> HIDE DEF s2
    <3>8. Keeps(s2, s3)
      BY <3>7, ProjectKeeps DEF Keeps
    <3> HIDE DEF s3
    <3> QED BY <3>2, <3>5, <3>7, <3>8, KeepsTwice
  <2> QED BY <2>1, <2>2
<1>7. ASSUME NEW t \in tasks, CompileError(t) \/ GenerationKeyed(t) \/ ScenarioComposed(t)
                                \/ GenerationError(t)
      PROVE  Keeps(state, state')
  <2>1. \/ state' = state
        \/ \E rev, id : state' = CompileFailed(state, id, rev)
        \/ \E id, guard : state' = GenerationStarted(state, id, guard)
        \/ \E id : state' = GenerationFailed(state, id)
    BY <1>7 DEF CompileError, GenerationKeyed, ScenarioComposed, GenerationError, Complete,
                Block, End
  <2> QED BY <1>1, <2>1, ProjectKeeps, EditsKeep
<1>8. ASSUME NEW t \in tasks, FitKeyed(t)
      PROVE  Keeps(state, state')
  <2> DEFINE s1 == ConditioningStarted(state, t.id, t.dataset.source, t.guard)
             s2 == RunStarted(s1, t.id, t.projectRevision, t.dataset.source)
             s3 == ConditioningFailed(s2, t.id)
  <2>1. state' \in {state, s1, s2, s3}
    BY <1>8 DEF FitKeyed, Block, End
  <2>2. Keeps(state, s1)
    BY <1>1, EditsKeep
  <2> HIDE DEF s1
  <2>3. Keeps(s1, s2)
    BY <2>2, EditsKeep DEF Keeps
  <2> HIDE DEF s2
  <2>4. Keeps(s2, s3)
    BY <2>3, EditsKeep DEF Keeps
  <2> HIDE DEF s3
  <2> QED BY <1>1, <2>1, <2>2, <2>3, <2>4, KeepsTwice
<1>9. ASSUME NEW t \in tasks, FitSampled(t) \/ FitError(t)
      PROVE  Keeps(state, state')
  <2> DEFINE s1 == RunFailed(state, t.id, t.projectRevision)
             s2 == ConditioningFailed(s1, t.id)
  <2>1. state' \in {state, s2}
    BY <1>9 DEF FitSampled, FitError, Complete, Block
  <2>2. Keeps(state, s1)
    BY <1>1, ProjectKeeps
  <2> HIDE DEF s1
  <2>3. Keeps(s1, s2)
    BY <2>2, EditsKeep DEF Keeps
  <2> HIDE DEF s2
  <2> QED BY <1>1, <2>1, <2>2, <2>3, KeepsTwice
<1> QED BY <1>2, <1>3, <1>4, <1>5, <1>6, <1>7, <1>8, <1>9 DEF Next, Clicks, Settlement

\* What a driver captured is what the page still holds when it commits.
LEMMA CommitIsCurrent ==
  ASSUME IInv, NEW t \in tasks, FitCommit(t),
         state'.conditioning.fit \notin {None, state.conditioning.fit}
  PROVE  FitLineage(state') = [irHash |-> state.compile.irHash, dataset |-> ChosenDataset,
                               settings |-> form.settings]
<1>1. Shaped(state) /\ t \in FitTasks /\ FitTaskOK(t, state, form, revision)
  BY TypedIsShaped, TasksByKind DEF IInv, StateOK, FitCommit, At
<1>2. PICK results :
        state' = ConditioningCommitted(state, t.id, t.projectRevision, FitOf(t), results)
  BY DEF FitCommit, Complete, Block
<1>3. ConditioningRuns(state, t.id) /\ state'.conditioning.fit = FitOf(t)
  BY <1>1, <1>2, CommitKeeps
<1>4. FitLineage(state') = [irHash |-> t.irHash, dataset |-> t.dataset, settings |-> t.settings]
  BY <1>3 DEF FitLineage, FitOf
<1>5. t.pc = "hashing"
  BY DEF FitCommit, At
<1>6. /\ state.conditioning.attempt.datasetSource = t.dataset.source
      /\ t.settings = form.settings /\ state.compile.irHash = t.irHash
      /\ t.dataset.source = "observed" => t.dataset.document = state.observed
      /\ t.dataset.source = "generated" => t.dataset.pair = state.generation.selected
  BY <1>1, <1>3, <1>5 DEF FitTaskOK
<1>7. form.dataset = t.dataset.source
  BY <1>3, <1>6 DEF IInv, FormOK, ConditioningRuns
<1>8. t.dataset = ChosenDataset
  <2>1. t.dataset \in Datasets
    BY <1>1 DEF FitTasks
  <2> QED BY <1>6, <1>7, <2>1 DEF ChosenDataset, Datasets
<1> QED BY <1>4, <1>6, <1>8

\* A posterior collection lands next to the fit it was drawn from.
LEMMA CollectionIsCurrent ==
  ASSUME IInv, NEW t \in tasks, GenerationOk(t),
         state'.generation.collection \notin {None, state.generation.collection},
         state'.generation.collection.sourceKind = "posterior"
  PROVE  state'.generation.collection.sourceFitLineageKey = FitLineage(state)
<1>1. Shaped(state) /\ t \in GenerationTasks /\ GenerationTaskOK(t, state, revision)
  BY TypedIsShaped, TasksByKind DEF IInv, StateOK, GenerationOk, At
<1>2. state' = GenerationSucceeded(state, t.id, CollectionOf(t), [gen |-> t.id, index |-> 0], Rev)
  BY DEF GenerationOk, Complete, Block
<1>3. GenerationRuns(state, t.id) /\ state'.generation.collection = CollectionOf(t)
  BY <1>1, <1>2, GenerationSucceededKeeps
<1>4. t.pc = "running" /\ t.guard.sourceKind = "posterior"
  BY <1>3 DEF GenerationOk, At, CollectionOf
<1>5. /\ state.generation.attempt.sourceKind = "posterior"
      /\ state.generation.attempt.sourceFitLineageKey = t.guard.fitLineageKey
  BY <1>1, <1>3, <1>4 DEF GenerationTaskOK
<1>6. t.guard.fitLineageKey = FitLineage(state)
  BY <1>3, <1>5 DEF IInv, StateOK, AttemptsOK, GenerationRuns
<1> QED BY <1>3, <1>6 DEF CollectionOf

\* A result that becomes current was computed from what is current when it
\* lands, although all of it can be edited while the engine works.
THEOREM CommitsLandCurrent == Spec => CommitsAreCurrent
<1> DEFINE FitIsCurrent ==
             state'.conditioning.fit \notin {None, state.conditioning.fit} =>
               FitLineage(state') = [irHash |-> state.compile.irHash, dataset |-> ChosenDataset,
                                     settings |-> form.settings]
           CollIsCurrent ==
             /\ state'.generation.collection \notin {None, state.generation.collection}
             /\ state'.generation.collection.sourceKind = "posterior"
             => state'.generation.collection.sourceFitLineageKey = FitLineage(state)
<1>1. ASSUME IInv, Next
      PROVE  FitIsCurrent /\ CollIsCurrent
  <2>1. CASE ~ \E t \in tasks : GenerationOk(t) \/ FitCommit(t)
    <3>1. Keeps(state, state')
      BY <1>1, <2>1, NothingNew
    <3> QED BY <3>1 DEF Keeps
  <2>2. ASSUME NEW t \in tasks, FitCommit(t)
        PROVE  FitIsCurrent /\ CollIsCurrent
    <3>1. PICK results :
            state' = ConditioningCommitted(state, t.id, t.projectRevision, FitOf(t), results)
      BY <2>2 DEF FitCommit, Complete, Block
    <3>2. state'.generation.collection \in {None, state.generation.collection}
      BY <1>1, <3>1, TypedIsShaped, CommitKeeps DEF IInv, StateOK
    <3> QED BY <1>1, <2>2, <3>2, CommitIsCurrent
  <2>3. ASSUME NEW t \in tasks, GenerationOk(t)
        PROVE  FitIsCurrent /\ CollIsCurrent
    <3>1. state' = GenerationSucceeded(state, t.id, CollectionOf(t),
                                       [gen |-> t.id, index |-> 0], Rev)
      BY <2>3 DEF GenerationOk, Complete, Block
    <3>2. state'.conditioning.fit \in {None, state.conditioning.fit}
      BY <1>1, <3>1, TypedIsShaped, GenerationSucceededKeeps DEF IInv, StateOK
    <3> QED BY <1>1, <2>3, <3>2, CollectionIsCurrent
  <2> QED BY <2>1, <2>2, <2>3
<1>2. IInv /\ [Next]_vars => [FitIsCurrent /\ CollIsCurrent]_vars
  BY <1>1
<1> QED BY <1>2, Invariance, PTL DEF Spec, CommitsAreCurrent

=============================================================================
