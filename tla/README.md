# Bayescycle: formal models

TLA+ modules, TLC configurations and TLAPS proofs for this repository: the
browser Playground's control plane (`playground/site/src`), the commands and
file-system protocols of `bayescycle` (`packages/bayescycle`), the artifacts it
exchanges with its readers (`_run_artifacts`, `packages/bayesite-idata`), the
model language (`packages/bayeswire`) and the binding and evaluation of models
(`packages/bayesjax`). `PROJECT.json` maps every definition to the source lines
it models, and lists the hazards the properties are about.

Paths below are relative to the repository root.

## 1. The system

### 1.1 Parts, state and operations

**Playground** (one web page, one event loop, workers for Python and the engine)

| Part | State | Operations | Talks to |
|---|---|---|---|
| Workflow state, `app/state.mjs` | source and project revisions; compile, run, generation and conditioning attempts; current fit, collection, selected pair; artifacts | one pure reducer, one case per event | dispatched to by the drivers |
| Drivers, `app/main.mjs` | revision counter, forms, closures suspended at awaits | edits, load, compile, generate, compose, fit, cancel | reducer (events), compiler client and runtime (calls with a signal) |
| Run controllers, `app/run-controllers.mjs` | the abort controller of each kind of attempt | begin, reconcile after each dispatch, finish | aborts the drivers' calls |
| Compiler client, `compile/index.mjs` | per call: worker, two timers, listener, digest | compile | a worker that runs the user's Python |
| Engine runtime, `runtime/browser-runtime.mjs` over `engine/verbs.mjs`, `engine/executor.mjs` | per run: workers, linked signals, artifacts so far | condition, sample, generate, diagnose, recover-check | one worker per engine execution |
| Documents, sharing, plan and artifact parsers, dashboard, critique | none | pure conversions and rendering | – |

**Python distributions**

| Part | State | Operations | Talks to |
|---|---|---|---|
| Run directories, `bayescycle/_workflow/operations.py`, `filesystem.py`, `_run_artifacts/run_metadata.py` | the files of a run directory | plan, materialize, execute; follow-up reports | the file system, the engine process |
| Replay, `_workflow/replay.py` | – (reads run directories) | verify sources, plan again, compare | run directories |
| Generation runs, `_workflow/generation_runs.py` | payloads and `run.json` of a generation directory | plan, materialize, verify, publish, load, replay | the file system, the engine process |
| Engine provisioning, `backends/bayesite/provisioning.py` | the install directory in the cache | ensure, force, download, verify, extract, swap | the network, the file system |
| Commands, `bayescycle/_cli.py`, `_backend_runtime.py`, `backends/`, `_settings.py` | none of their own | resolve a backend and its engine, preflight it, plan, show or execute, report, export | all of the above, the engine process |
| Artifact writers and strict readers, `bayescycle/_run_artifacts` | none that outlives a call | canonical data, posterior and prior-predictive streams, the portable posterior, generated datasets | run and generation directories |
| Lenient readers, `bayesite_idata` | none that outlives a call | read the streams, data and labels of a run, assemble the fit for the plots | run directories |
| Bayeswire, `bayeswire/model`, `ir.py`, `_ir_registry.py` | model classes and the registry of distributions of a process | `@model`, submodels, `with_prior`, registration, documents written and read | documents on disk |
| Bayesjax, `bayesjax/_backends/jax`, `compiler`, `simulation` | none that outlives a call | bind a model to data, evaluate its sites, simulate outcomes | Bayeswire metadata, the in-process backend |

### 1.2 What is hard

* **Interleaving at awaits.** The guard of a fit or a generation is captured at
  the click, checked after an awaited digest, and its result is committed much
  later; data, settings, selection and model can be edited in every window, and
  the buttons do not exclude several attempts that are still hashing.
* **Derived state.** A fit descends from a model, a dataset and settings; a
  generation may descend from a fit; a selected pair from a generation; artifacts
  from all of them. Every event has to drop exactly the descendants.
* **Cancellation.** Some calls listen to their signal, some only look at it after
  an await, and a result that had settled before the abort is still delivered.
* **Workers.** A call has to release its worker, timers and listeners on every
  exit; the user's Python can send any message in any order.
* **Processes without locks.** Two commands may be given the same directory; the
  checks and the writes are separate system calls; nothing cleans up after a
  crash; the user edits the source files meanwhile. An engine found while a
  command resolves may be another one, or none, when it is started.
* **Two readers of one format.** A stream is written by one program, read strictly
  by another and leniently by a third; lines get lost, moved, damaged or exchanged
  with those of another fit in between. What one reader takes, another must not
  take for something else.
* **Names and symbols.** A class body captures declarations as objects; submodels
  are copied under a prefix, priors are cut out and replaced, documents are read by
  a process with another registry. A reference must not end up at something else,
  and a factor must be counted once, after any sequence of these.
* **Checks ahead of time.** Evaluation does not check anything: an index out of
  range is clamped, shapes broadcast silently. Binding has to infer all of it.

### 1.3 What makes each part correct

* Playground: what is shown belongs together (results to the model, the data and
  the settings they are shown with); what runs is current or aborted; what is
  shown as running ends.
* Calls: settle once, hold nothing afterwards, never resolve once cancelled.
* Run directories: complete artifacts are append-only; an output belongs to the
  inputs beside it; "byte-identical" means computed from the same inputs.
* Generation runs: a run that loads is the one that was published.
* Provisioning: what is installed was verified; nothing verified is lost.
* Commands: nothing is written before every check has passed; `run.json` names the
  engine that ran; a replay runs the same command.
* Artifacts: what is written can be read; what is accepted is one whole fit; what is
  exported and generated is what was computed.
* Models: stand alone, keep their labels, mean the same after a round trip, and have
  each factor once.
* Bound models: evaluation has the shapes that binding inferred, no index is
  clamped, and what a model simulates can be fitted unless its parameters went astray.

## 2. Modules

| Module | Models | Composes |
|---|---|---|
| `WorkflowState` | the reducer, one operator per event, parameters for the event's fields | – |
| `Workflow`, `Workflow_proofs` | drivers, forms, controllers around the reducer; proofs | EXTENDS `WorkflowState` |
| `MCWorkflow` | instance of `Workflow`: the view that makes it finite | EXTENDS `Workflow` |
| `OneShot` | abstract: what the caller of a call may rely on | – |
| `CompilerClient`, `CompilerClient_proofs` | a compile call; proofs | implements `OneShot` |
| `EngineRun`, `EngineRun_proofs` | a run of the engine runtime; proofs | implements `OneShot` |
| `Provisioning`, `Provisioning_proofs` | concurrent `ensure_engine` calls; proofs | – |
| `Commands`, `Commands_proofs`, `MCCommands` | commands from their options to their end; proofs | EXTENDS `Provisioning`, implements it |
| `RunDirectory`, `RunDirectory_proofs`, `MCRunDirectory` | runs, reports and replays over run directories; proofs | – |
| `WriteOnce` | abstract: what the users of a published directory may rely on | – |
| `GenerationRun`, `GenerationRun_proofs`, `MCGenerationRun` | generation runs, loads and replays; proofs | implements `WriteOnce` |
| `PosteriorStream`, `PredictiveStreams` | the draw streams: writers, strict and lenient readers | the second EXTENDS the first |
| `DataDocuments` | data documents in all their spellings, labels of axes | – |
| `DenseFit` | the fit as the plots get it | EXTENDS the streams and `DataDocuments` |
| `GenerationPlan`, `GeneratedDatasets` | the plan document and the stream of generated datasets | EXTENDS `DenseFit` |
| `ArtifactFlow`, `ArtifactFlow_proofs`, `MCArtifactFlow` | artifacts written, damaged, read, exported and generated from; proofs | EXTENDS `GeneratedDatasets` |
| `ModelIR` | model metadata as values, the registry, documents | – |
| `ModelDeclarations`, `ModelBodies` | a class body becomes metadata; notation for bodies | EXTENDS `ModelIR` |
| `ModelComposition` | `with_prior` | EXTENDS `ModelDeclarations` |
| `ModelLanguage`, `MCModelLanguage` | the life of model classes over processes | EXTENDS `ModelComposition` |
| `ModelArrays`, `ModelBinding`, `ModelDensity`, `ModelSimulation` | arrays of JAX; binding; evaluation; prior simulation | each EXTENDS the one before |
| `ModelExecution`, `MCModelExecution` | a model class in use | EXTENDS `ModelSimulation` (and `ModelComposition` in the MC module) |

### 2.1 `WorkflowState` and `Workflow`

`state` is the reducer's record. An event `source-edited` is the operator
`SourceEdited(s, rev)`, and so on; helper functions keep their names
(`matchesConditioningGuard` is `MatchesConditioningGuard`). Revisions are numbers
the code compares for equality only. Document bytes are model values, IR bytes are
their hash, a fit is its lineage key: the model hash, the dataset and the sampler
settings it was computed from. The lineage the code computes is a hash of the
posterior bytes; a seeded sampler makes that a function of the three.

A driver suspended at an await is a record in `tasks` with what its closure
captured; `pc` says which await: `keying` (the digest before an attempt starts),
`composing` (the compile of a composed prior), `running` (the compiler or
the engine), `hashing` (the digest of a posterior). An action is one synchronous
block of the event loop. A block can dispatch several events, and after each one
the controllers reconcile and the page renders, so `Block` takes the whole path of
states. `active` is `RunControllers.#active`. An aborted call may still deliver a
result, or fail: both are allowed.

The handlers of state changing elements are the actions of `Edits` and `Clicks`;
what the buttons require (`render()`) is the guard. Loading an example or a shared
project is `LoadProject`, whose fetch may end at any time. The events
`run-succeeded` and `conditioning-succeeded` are handled by the reducer but
dispatched by nothing outside its unit tests, and are left out.

### 2.2 `OneShot`, `CompilerClient`, `EngineRun`

A compile call is one record of the variables its closures share (`settled`,
`disposed`, the timers, the listener, the signal); `Fail`, `Succeed` and `Dispose`
are its closures, the actions are messages, timers, the abort and the digest. The
worker is unconstrained, since it runs the user's code: `ready` may come again and
again, which arms a second timer that the code can no longer clear (`leaked`).

A run of the engine runtime is a record of its phase, its workers, the chains that
have answered and the artifacts published so far. Everything that promises
trigger without a new task of the event loop (merging chains, starting the
diagnosis, terminating siblings) belongs to the step of the message or the abort
that triggers it.

Both implement `OneShot` under a refinement mapping: a call settles at most once, never
changes its mind, its workers are gone when it settles, and it does not resolve after
its signal was aborted. To its caller a run is one such call, although it starts a group
of workers, then one worker per follow-up, and may have none at all while it hashes: the
mapping calls a run alive as long as it has a worker, and a run that ends between two of
its workers settles without one.

### 2.3 `RunDirectory`, `GenerationRun`, `Provisioning`

A command is a process with a program counter; a step is one file-system operation
(an open that truncates and the write that follows are two). Any process may be
killed or see a step raise, between any two steps. A file's content is `Absent`,
`Partial` (opened for writing, not written) or a value. Hashing and canonical
serialization are injective on values.

`RunDirectory`: `src` holds the user's model and document files, which can be
edited at any time; `files` the run directories. `planned` kinds (sample,
prior-predictive) parse the document while planning, `copied` kinds (recover, sbc)
copy it while materializing and hash the copy. The engine is a child process that
reads what is at the paths. `diagnose` stands for the follow-up commands. Replay
reads `run.json`, verifies the sources against it, plans again from the same
sources, and compares model, inputs and output.

`GenerationRun`: a plan is built in memory from files read once; `materialize`
writes its payloads, the engine writes the output, the output is verified
against the plan and `run.json`, opened exclusively, is published last. A load
reads `run.json`, then each payload against its digest, then resolves the plan
document against them. A replay generates from a loaded plan and loads both runs.
`published` and `contested` are history variables: what the command that wrote
`run.json` had planned, and the directories that two live commands were given.
`GenerationRun` implements `WriteOnce`: a directory is mapped to what was published in it
and a reader to the run it loaded last, so that publishing payload by payload and loading
payload by payload, next to commands that write to the same files, look like one write
and one read of a register that is written once.

`Provisioning`: a directory is named by the call that extracted it, as an inode
is, so a call that is deleting a directory goes on deleting that one although
another directory has been renamed to the path. `rmtree` unlinks file by file,
in the order the directory lists them, and raises as Python's does when an entry
has gone or the directory is not empty at its last `rmdir`. On a file already
unlinked, Python 3.12 raises and 3.13 does not; both are allowed.

### 2.4 `Commands`

`Commands` puts a command around a call of `Provisioning`: the call becomes the step
`Provision` of a command that needs the pinned engine. `at` is where a command is
outside of `ensure_engine`: it loads the run it replays, resolves backend and engine
(`_backend_runtime.py`), probes the engine (`preflight.py`), plans, materializes, executes;
`export` is `idata` and `plot`. `machine` is what is installed outside of the cache
(an engine on `PATH`, one the user built), which the user may change at any time
(`Rebuild`). `backend`, `command` and `ran` keep what the command resolved, what it
planned and which engine it started. A directory is the set of its files and its
`run.json`, written in one step, since `RunDirectory` has the steps of writing.
Settings are numbers or `Other`, a text that is no number; the external engine gets
them unparsed.

### 2.5 The artifacts

A file is its lines, and a line a function on the fields it has, so that a missing
field, a field of another type (`Other`) and a blank line can be told apart. The
writers (`WritePosterior`, `WritePriorPredictive`, `WrittenDataDoc`) build such files
from a sampler's result. A reader is a predicate that says whether it accepts the file
(`Portable` for the strict reader, `Readable` for the lenient one, `IsDataDoc`,
`ParsesAsGenerated`) with an operator that says what it makes of it (`PortableDraws`,
`ReadPosterior`, `DataDoc`, `Pairs`): every `raise` is a conjunct. Numbers keep the
bounds that decide (32 and 64 bits, the largest portable integer), scaled down.
`DenseFit` has the artifacts found in a run (`discover_run_dir`) and the assembly of the
groups from them (`dense.py`), `GenerationPlan` the plan, its document of hashes and its resolution
against payloads, `GeneratedDatasets` parsing, verification and selection.

`ArtifactFlow` is the life of one run directory. A command is one step. Between
commands a file may be damaged: lines lost, repeated, moved or blank, the final line
feed lost, a field lost, of another type or off by one, a line replaced by one of
another fit; or the whole posterior stream may be exchanged for that of another fit.
The external engine of a generation may return any of the streams of `EngineOutputs`:
right ones, damaged ones, ones that name another draw than they used.

### 2.6 The model language

`ModelIR` writes every dataclass instance as a record whose `node` field is its class,
so that `Nodes(e)`, the walk over fields of the code, serves all of them. A dotted name
is the sequence of its parts. `ModelDeclarations` runs a class body line by line:
a line creates an object with a symbol of its own and operands are captured as
objects, so a name that is bound again leaves earlier lines with a symbol that no name
has. `DeclarationAccepted` collects the errors `@model` raises, `Decorated` is the
metadata it attaches, `Prefixed` the copy of a child under a submodel's name,
`ResolvedDimensions` the labels. `ModelComposition` is `with_prior`: closure of both
models, the cut of the target's sites into priors and outcomes, the labels that stay.
`ModelLanguage` lets a process declare, compose, register, write and read in any
order, ends it, and lets another process read what it wrote.

The definitions of these modules are recursive over expressions and pure; they were
compared with the installed package on class bodies, submodels and pairs of models
enumerated from the instances, without a difference.

### 2.7 Binding and evaluating models

An array is a shape, a kind and a number at every index; `ModelArrays` states JAX's
rules (broadcasting, clamped gathers, the place of the axes of an array index), which
are external. `ModelBinding` is `bind_model_meta`: which data are accepted, the shape
of every expression, the bounds of missing coordinates. What may raise is a set, of one
result or none. `ModelDensity` splits the flat vector, constrains it and evaluates a
site with no check of its own, as the compiler's output does. `ModelSimulation` draws
the parameters and outcomes of a prior predictive; which number is drawn is reduced to
the side of the support it is on, and every value has a side of its own. A parameter
that was drawn may be anything its prior and constraint allow, and no code looks at it
before it is used: where it is outside the domain of a distribution (`InDomain`, the
conditions of `log_prob`), `Astray` gives what the formula of the sampler gives. A
Poisson or negative binomial count with a negative rate is -1, a binomial one with
negative trials or a probability outside 0 and 1 is a NaN made an integer, a Normal with a
negative scale is still a number, a truncated one is none. These rules are those of
`jax.random`, which is external. `Ordered` priors are drawn and sorted when they are
scalar and the same for all coordinates. `ModelExecution` binds, simulates, and binds
what was simulated.

So it is not true that every simulated outcome can be fitted: with `b ~ Normal` and
`Observed(Poisson(b))`, or with negative trials in the data, simulation succeeds and
binding refuses the draw. No document promises otherwise. What `DrawsCanBeFitted` says is
that this is the only reason: when the parameters drawn are in the domain of the
distributions of the observations, in shape, position and support what simulation
draws is what binding accepts.

## 3. Model checking

`tlc -config <run>.cfg <module>`; every run ends within three minutes on two workers.

| Run | Instance | Checks |
|---|---|---|
| `workflow_safety` | 2 model hashes, 2 documents, 2 pairs per collection, 2 suspended drivers; edits and attempts unlimited (240 000 states) | results, the selected pair included, belong to model, data and settings; artifacts belong to the fit; orphaned calls are aborted; running attempts have drivers; commits are current |
| `workflow_live` | 2 settings, 4 revisions, 3 attempts, fairness (116 000 states) | a conditioning attempt that lost its run is retired |
| `compiler_client` | 2 calls, 3 `ready` messages each | implements `OneShot` (settles once, never resolves after an abort); releases everything; always settles |
| `engine_run` | 2 runs, 3 chains | nothing outlives a run; a posterior is of all chains and survives a failed follow-up; implements `OneShot` (never resolves once cancelled); a cancelled run settles without any worker's help |
| `run_directory` | 3 commands, 2 directories, 2 versions of each source, 1 edit, 1 kill (2 264 000 states) | append-only; outputs belong to inputs; byte-identical replays had the same inputs |
| `generation_run` | 3 commands, 2 plans into one directory, replays into another, 1 kill (1 019 000 states) | loaded is what was published; published once; an uncontested run is whole; implements `WriteOnce` |
| `commands` | 3 commands with one intent of every kind that is decided differently, 4 machines, 3 directories, 2 files in the archive, 1 kill (1 010 000 states, depth 38) | installed means verified; removal only by force or for a verified replacement; an engine remains; nothing is written before every check; the recorded engine is the one that ran; replays run the same command |
| `artifact_flow` | 3 models with small fits, 1 simulation, data in every spelling, generations from each kind of source (107 000 states) | what is written can be read; a portable posterior is one fit; an export is of the fit; all readers agree on data; generated parameters are draws; generations reload as their plan only |
| `model_language` | 9 small code bases, up to 5 classes in a process, 1 document (63 000 states, depth 14) | models stand alone; a composed model is an ordinary one; documents keep their meaning |
| `model_execution` | 48 classes over data that bind and data that do not (11 400 states) | binding infers what evaluation does; covariance factors stay factors; partial vectors are whole; draws from parameters in their domain can be fitted |

**Bounds, and why they are enough.**
`MaxTasks = 2`: a hazard of the drivers is an attempt and another one, or an
attempt and an edit; edits need no task. `IrHashes`, `Documents` and `Indices` of
two are "the same" and "another". In `workflow_safety` the page counts on without
bound: `Observed`, used as a VIEW, identifies states that differ in the numbering
of ids, in revisions that can no longer become current, in what an aborted driver
captured (unless the run shown is still its own, which its failure would end), or in
which of two positions is the selected one. Its soundness argument
is in the module: ids and revisions are compared for equality only and new ones are
fresh. `MaxRevision` and `MaxRequests` are above what the deepest behaviour reaches.
Symmetry is by hashes, documents and settings, which the code compares for equality
only; because the representative of a symmetry class is chosen before the view is
applied, a few states are explored twice and the number of states may vary slightly
from run to run. Liveness is checked without view and without symmetry, so its
instance bounds revisions and attempts.
Calls and runs do not share state, so two of them show independence and one
would do for the rest; three chains are one that fails, one that has answered and
one that is still sampling. Three `ready` messages are one, the one that orphans
a timer, and one more. Of the provisioning calls two race at a time, one that installs
or removes and one that comes between, and a third may follow on what they left;
`Provisioning_proofs` covers any number. Two files are the binary and another. Three commands are a run, what races with it and
a retry or a replay of the two. One kill is enough since a killed process does
nothing more, and what it left is met by two others.
`MaxEdits = 1` makes a file differ between any two reads of it.

With `Bounded`, in `commands`, two commands run at once only if both may touch the engine cache
(`Undisturbed`); the others share nothing but a directory, and `RunDirectory`
interleaves those. After two commands the third is a replay of a replay (`AfterTwo`):
a replay needs a run, a replay of a replay needs both. In `artifact_flow`, `MaxSteps = 5`
is a preparation, a fit, a prediction or exchange, a damage and the export or generation;
one damage and one exchange may meet; only files of at most four lines are damaged, which
has room for a header, two draws and a trailer. Generations start from runs without
predictive streams, which a generation does not read. Two fits under one fingerprint have
different seeds, as the draws of a seeded sampler are a function of data and settings.
In `model_language` a code base holds the bodies of one question (priors, derived
expressions, labels, submodels in submodels, custom distributions, partial
observation, bodies that are refused); five classes are two declared, a composition,
its recomposition and a class read back; one document is written by one process and
read by any later one. `model_execution` needs no sequence beyond bind, or simulate and
bind again; its breadth is in the classes: indexes of every form over up to three axes,
partial observation with and without bounds, counts, covariance factors, sizes, labels,
ascending cutpoints, and outcomes whose rate, scale or probability is drawn with either
sign (`Wandering`) or whose trials are negative.

**Deadlock.** Checked for `RunDirectory` and `GenerationRun`, whose processes end in
`AllEnded`, an explicit stutter. Not checked for the others: a page on which nothing is
under way waits for its user, a call that has settled has no step left, a
model that is bound or a run that has been exported stays as it is, and the bounded
instance of `ModelLanguage` ends when its classes are used up. `Commands` cannot
deadlock as a whole, since the user can always rebuild an engine.

**Fairness.** Playground drivers: what settles without help, that is a digest, a
compile (both timers of the compiler client) and any call whose signal is aborted
(`CancelledRunSettles` and `EveryCallSettles` are the evidence). A live engine
call has no timeout, so nothing is assumed of it, nor of the user. Compiler client:
armed timers fire, a digest settles; nothing about the worker. Engine runs: a digest
settles; nothing about workers. Without those the page could only be said to have
stopped running. No liveness is claimed of the Python commands.

### Divergences

Two runs show that a documented statement is not what the code does; each checks
that one statement, and `PROJECT.json` quotes it.

* `workflow_observed`: editing the observed data while a fit of a simulated pair is
  under way keeps a fit of the old observed data (`state.mjs:212`;
  `playground/invariants.md:104-105`).
* `run_directory_shared`: of two commands given the same empty directory, the second
  truncates complete artifacts of the first (`operations.py:469`;
  `packages/bayescycle/docs/invariants.md:31-32`). `run_directory` checks the same
  statement, `AppendOnly`, with `Overlap = FALSE`: it holds when no two *live*
  commands write the same artifacts, across kills and retries.

Smaller differences were met while modelling. The definitions follow the code, the
properties exclude these cases by name, and no run is spent on them:

* A run can be shown as running when nothing computes it any more
  (`main.mjs:1267-1286`; `playground/invariants.md:112-115`). Two fits are clicked, and
  the revision of the project moves between the clicks without changing what the first
  guard captured. The second starts its attempt and its run; then the digest of the
  first settles, its attempt replaces the second, `run-started` is refused as stale and
  the attempt is retracted. The second driver is aborted by now; if it was past its
  engine, its commit finds no attempt and is dropped, and the run stays `running`, with
  the buttons disabled, until the user cancels. `AttemptsHaveDrivers` therefore speaks of
  attempts, and of the fits of drivers that have not been aborted.
* Choosing another simulated pair while a fit of a simulated pair is under way also
  erases a completed fit of the observed data (`state.mjs:390`;
  `playground/invariants.md:112-115`).
* A generation that was clicked before a recompile started is sent to an engine while
  the compile runs (`main.mjs:1182`; `playground/invariants.md:77-78`).
* A parameter of two or more axes is written as a flat list (`posterior_ndjson.py:343-350`)
  and the strict reader wants nested lists (`posterior_source.py:295-315`), as
  `spec/run-directory-v0.md:122,136-140` does: `FitsPortableFormat`.
* Settings admit seeds that no portable stream can hold (`_settings.py`,
  `posterior_source.py:353-361`): `FitsPortableFormat`.
* `spec/posterior-draws-v0.md:18` makes blank lines invalid; the lenient reader skips
  them (`protocol_v0.py:124-143`).
* `spec/dimension-sidecar-v1.md:28-30` allows null coordinates; the readers refuse
  them (`dims_json.py`, `_coord_value`).
* An empty axis before the last one is lost on the way to the in-process backend: shape
  (0, 3) becomes (0), as nested lists cannot say it. `ReadersAgreeOnData` says so.
* `engine path` reports an engine in the cache that a command with
  `--no-auto-provision` would not use (`_cli.py:1303-1314`, `_backend_runtime.py:176-205`).
* A plot reuses a `fit.nc` that is there, whatever changed beside it (`_cli.py:1421`).
* A declared label that two variables share is compared with one of their axes only
  (`decorator.py:835`; `packages/bayeswire/docs/invariants.md:61-63`).

## 4. Proofs

`tlapm <module>_proofs.tla`. All are for every value of the constants, under the
ASSUMEs of the modules, which TLC evaluates in the runs. Each follows the same
line: an invariant `IInv` that is inductive, `Init => IInv`, one lemma per action
or group of actions, and the theorems from `IInv`.

**`CompilerClient_proofs`** (any number of calls and `ready` messages). Calls do not
touch each other, so `IInv` is a predicate `Good` on one record. `Core` is the part
of it that `Fail` and `Succeed` meet in the middle of a handler, where `Good` does
not hold. Proved: `TypeOK`, `SettledHoldsNothing`, `PendingIsBounded` (what
`EveryCallSettles` needs besides fairness) and, as `SettlesOnce`, that `CompilerClient`
implements `OneShot`: `Moves`, `Settles` and `Cancels` say per action how the abstract call
moves, and an action that only moves timers is a stutter. `PendingIsBounded` alone is not
inductive: it needs that a call with a running worker is not hashing and is
listening, and that `leaked` timers are fewer than `ready` messages.
Assumption: `MaxReadyAssumption`.

**`EngineRun_proofs`** (any set of runs and of chains). Again one predicate `Good` on
a record; `Between` is what holds when a worker has been terminated and the next phase
has not been entered, where the functions of the verbs are called. `FitIsWhole` is not
inductive: it needs that a phase belongs to its verb, that a conditioning which diagnoses
has its posterior, that one which recovers has its diagnosis or a notice, and that a run
with a worker is not aborted, which the linked listener of a group gives. Proved:
`TypeOK`, `NothingOutlivesIt`, `FitIsWhole` and `SettlesOnce`, the refinement of
`OneShot`. For the last, one lemma per action says what it does to the abstract call:
most steps end one worker and start the next, in one block of the event loop, and only
those that leave the run without a phase settle it. Assumption: there
is a chain, and the single worker is none of them.

**`Provisioning_proofs`** (any set of calls, any archive, any number of kills).
`InstalledIsVerified` speaks of the path, but the files belong to whoever extracted
them. `IInv` says what each call's own directory holds at each of its steps, that
the directory at the path and every directory being removed belong to calls that
have returned, so that no removal touches a directory still being built, and that only
forced calls are at the steps of a forced removal. For `EngineRemains`, `RInv` orders the
removals: entries are unlinked in one order, so what is left of a directory is the tail of
that order and is on the list of each of its removers; the one that unlinked last has
exactly that on its list (`RemovalIsInHand`), so no unlink of its own fails and its rmdir
finds the directory empty, and while the path is free it or another is about to rename
(`PathIsTaken`). Proved: `TypeOK`, `InstalledIsVerified`, `RemovedForAReplacement`,
`EngineRemains`. Assumptions: the binary is one of
the files, the name for "no directory" is not a call, `MaxKills` is a number.

**`Commands_proofs`** (any set of commands, intents, machines and directories). Every step
of `Commands` is one of `Provisioning` or leaves its variables alone, so `CommandsSpec`
implements `Spec` and the invariant of `Provisioning` holds under the commands. On top of
it `CInv` says, per step of a command, what it has established (`Known`): the verb is one
of its backend, the backend is the one the request asks for and a provisioned one is at
the cache, the preflight has recorded the verbs and the version of what it found there,
the command is the request's, and the run directory holds `run.json` of this request and
backend. `DirsGrow` carries `Known` over the steps of other commands: a directory with
files keeps them and its `run.json`. A replay reads such a directory, and the settings it
drops are none, because a verb has its own options only. The engine of a provisioned
command is judged when it starts: what is then at the cache is verified, whoever put it
there. Proved: `CheckedBeforeWritten`, `RecordedEngineRuns`, `ReplaysRunTheSameCommand`,
with `Bounded` or without. Assumptions: a request has the fields and the options of its
verb (`IntentsAssumption`), a digest is not `Null` (`NullAssumption`).

**`Workflow_proofs`** (any set of hashes, documents, settings and positions, any number
of drivers, edits and attempts). A step of a driver is judged by what it captured at an
earlier one, so the invariant has to say when a captured value is still the current one.
What carries it is that a revision is never used twice: `Old` bounds every revision in
the state by the counter, so a guard that matches was captured after the last edit of
what it guards. `TaskOK` says this of each suspended driver: while its guard matches, or
once its attempt is the current one, the model, the data, the pair and the settings it
captured are those of the page (`FitTaskOK`, `GenerationTaskOK`, `CompileTaskOK`).
`StateOK` is the reducer's part: `ArtifactsMatchFit` and `ResultsMatchModel` need that
compile status and revision belong together (`CompileOK`), that a run is of the current
project and of the attempt (`RunOK`), that an attempt from a generated pair has a
selected pair and a posterior generation the current fit (`AttemptsOK`). Each event has
a lemma that it keeps `StateOK` and moves the state as `Evolves` allows: attempts stay
or end unless the event begins them, and what they depend on changes only under a new
revision. `Evolves` composes, so blocks that dispatch several events follow from their
events (`EvolvesTwice`), and it carries `TaskOK` of all the other drivers
(`TaskEvolves`). Proved: `ArtifactsMatchFit`, `ResultsMatchModel`, `OrphansAreAborted`,
`AttemptsHaveDrivers`, `CommitsAreCurrent`; for the last, `Keeps` shows that no action
but the two commits brings a fit or a collection. The proof does not use the bounds
`MaxTasks`, `MaxRevision` and `MaxRequests`. Assumptions: `None` is none of the values it
stands in for (`NoneAssumption`), a collection has a first pair (`FirstPairAssumption`).

**`RunDirectory_proofs`** (any set of commands, jobs, directories and versions, any number
of edits and kills). The theorems assume `~Overlap`: the run `run_directory_shared` shows
`AppendOnly` violated without it. `Alone` is what `~Overlap` gives, at most one live
command per directory and class of artifacts; that command found them absent, so
`Knows` can say, step by step, which files are absent, opened or complete, and which of
the values it holds in memory (`Held`) are those in the files. `OfOnePiece` is the rest
of a directory: an output has its record and its inputs beside it. A replay writes
nothing until it compares, when both outputs are complete and `OfOnePiece` gives what
each engine read. Proved: `TypeOK`, `AppendOnly`, `OutputIsOfItsInputs`,
`IdenticalMeansSameInputs`. Assumptions: jobs are typed (`JobsAssumption`), a missing or
half-written file differs from every content (`ValuesAssumption`), the bounds are numbers.

**`GenerationRun_proofs`** (any set of commands, jobs, plans and directories, any
number of kills). Everything turns on `run.json`: it has at most one writer
(`OneWriter`, from the exclusive open), it is complete exactly when the run was
published and then holds the digests of the published plan and of an output
that was verified against it (`RunIsPublished`), and a load in progress has read
that `run.json` and payloads with its digests (`LoadingAgrees`), even if the
payloads are being overwritten meanwhile. Proved: `TypeOK`,
`LoadedIsWhatWasPublished`, `PublishedOnce` and `RunsAreAtomic`, the refinement of
`WriteOnce`: the step that completes `run.json` is the abstract write, the step that
resolves a loaded plan is the abstract read, and `RunIsPublished` with `LoadingAgrees`
say that what the reader holds by then is what was written, whatever the files hold.
Assumptions: jobs name plans and directories of
the model (`JobsAssumption`), a missing or half-written file is not equal to
any content and "nothing" is not a run (`ValuesAssumption`), `MaxStops` is a number.

Its second half proves `UncontestedRunIsWhole`, which needs
to know whose files a directory holds. As long as it is not contested it has one live
command (`Alone`); that one found it empty, so the files are what it has written so far,
payload by payload (`WrittenSoFar`), then its verified output; and once `run.json` is
complete nobody is left who writes. A killed command leaves files that the next one's
test of the directory refuses, so they need no clause.

**`ArtifactFlow_proofs`** (any set of inputs, fits, simulations and requests, any number
of commands and damages, any stream an engine returns). `GenerationsReload` rests on what
the command that publishes has established of its plan (`Published`): the kind of its
source, and that its hashes have the form of hashes, which it learns from the header of
the stream it verified and not from the plan it built. From there the document parses
(`DocumentParses`), resolves to the plan (`PublishedReloads`), and payloads that resolve are
the ones that were hashed (`ResolvedIsHashed`), whatever stands beside the document
(`SubstitutesDiffer`). `PreparedInv` gives a posterior source its data: no command and no damage touches
the data of a prepared run.

Its second part proves `PortableIsOneFit` for fits of any size, of parameters of any
shapes (`PortableStreamsAreWhole`). `PosteriorInv` says what the stream can be: the one the
writer wrote for `fit`, or that one after one damage. Of its own lines, lost, repeated,
moved or blank, the strict reader accepts only all of them in their order, because a header,
a draw and a trailer have fields of their own, the header counts the draws and each draw has its
index (`OwnLinesAreWhole`). After damage to a field the reader may still accept the file
(a warmup off by one, say), but then every field the draws are read from is as written
(`Altered`, `AlteredTells`, `FieldDamageTells`). A line of another fit disagrees with the header or
the trailer (`SpliceIsRefused`). From a file that tells the fit (`Tells`) both readers
recover each cell: `DrawCells` and `CellDraws` are the division by the number of draws
both ways, `WrittenValue` says that flattening a written value gives its cells back, and
`DrawsPerChain` counts the lines of a chain. The theorem is about states where no other
fit of the model has the seed, the chains and the draws of this one (`Twinless`, true of
every state of the run): the format does not tell such fits apart line by line, so a
line exchanged between two runs of one seed and, say, another warmup can be accepted.

Its third part proves `GeneratedParametersAreDraws` (`PublishedPairsAreDraws`, for twinless fits
too). The command verifies a stream against the posterior bytes of its plan, which `DrawnInv`
says are still the run's, so that `PosteriorInv` applies and `DrawOfFit` leads from the strict
reader's draw to the cells of the fit. The design is compared as a parsed document and read by
the plots from the raw one; `CanonicalIsRead` relates the two, and `DesignIsRead` carries the
names and the order over. `FromEngine` is what is used of the stream that is not checked by the
reader: that the fields of a document are a sequence and an index is a number. Numbers are
compared by magnitude, since an engine may spell those of a float array as integers.

Assumptions: a written data document is not `Null` (`InputsAssumption`), a request asks
for one of the three kinds of source (`RequestsAssumption`), the variables of a parsed design are
a sequence (`DesignsAssumption`), a fit the writer accepts has at least
one chain and one draw, distinct parameter names and as many cells per parameter as its shape says
(`FitsAssumption`, what the sampler settings, the model and `ResultShapesMatch` ensure), `Null` and
`Other` are no numbers (`NullAssumption`).

**Only model-checked.** Liveness (`EveryCallSettles`, `CancelledRunSettles`,
`OrphanedFitRetires`), which is out of the prover's reach. Everything about the model
language and its execution: their definitions are recursive over expressions, and what
such a definition computes for every input needs an induction the prover cannot do. Three
properties of `ArtifactFlow` (`WrittenStreamsAreReadable`, `IdataIsOfTheFit`,
`ReadersAgreeOnData`): they compare statistics, nested lists of any depth and assembled groups,
which are folds and recursions over data. `RunDirectory` with `Overlap`,
where `AppendOnly` does not hold. The type invariants of `CompilerClient`,
`EngineRun`, `Provisioning`, `RunDirectory` and `GenerationRun` are the other way round: they are proved, and their
runs are spent on the properties that need them.

## 5. What is not modelled

* `generateCollection` builds the plan after the composition of a prior outside its
  `try` (`main.mjs:1175`): a failure there would leave the attempt running without a
  driver until it is cancelled. It needs a design whose canonical form exceeds 8 MiB
  and whose text does not exceed 4; sizes are not in the model.
* The counter that lets only the last chosen example load (`main.mjs:177`).
  `LoadProject` allows a project at any time, so nothing is hidden by leaving it out.
* The order of entries in a directory is fixed for all calls of `ensure_engine`, as
  on one file system. With orders that differ from call to call, two removals of the
  same directory could make each other raise, and `EngineRemains` would not hold.
* `rmtree` by path on platforms without descriptor-relative removal, temporary
  directories that a killed process leaves, and a child process that outlives its
  killed parent.
* `manifest.json`; both inputs of `simulate` together in `RunDirectory` (`Commands` has
  them as files); the source payloads of a posterior or fixed generation source, which are handled as the
  design is; the comparison of two loaded generation records.
* Whether an engine makes a report of a posterior that is still being written:
  the engine is not in the repository, and the model allows both.
* A recorded hash of a data file that was edited between the read that hashed it
  and the read that parsed it. The model contains it; no property forbids it.
* In `Commands`: `workflow-plan` (`backend_plan.py`), `generate`, which is in
  `GenerationRun`, `engine path`, `engine info`, and the warmup of the `uvx` runner.
* In the artifacts: duplicate keys, nesting depth and bytes of JSON texts, the dtype of a
  simulated site, diagnostics computed from draws (rank-normalized R-hat, ESS), writing
  netCDF, plots.
* In the model language: the limits of constants, reserved and keyword names, the texts
  of errors, the bytes of canonical JSON, unparseable user code.
* In Bayesjax: the numbers of densities, of transforms' Jacobians and of the sampler;
  boolean arrays; custom distributions. A number that is not an integer is represented
  by one of its sign, so a sum of such numbers has one of the signs it may have. What a
  truncated, Beta or interval-restricted sampler returns for parameters outside their
  domain is any number or none. Three checks are made by the log density and not by binding: the
  event length of a multivariate mean, an `OrderedLogistic` without cutpoints and an
  `Ordered` constraint on a scalar; models that fail them bind in the code, and the
  instances have none. A simulation does not check declared data for infinite numbers:
  `DrawsCanBeFitted` has finite data as a precondition.
* A follow-up of a fit that fails with the engine's own `Cancelled` error although its
  run was not cancelled (`browser-runtime.mjs:300`): the worker of the repository
  reports that error only after an abort.
* In the Playground: parsing and validation of documents and plans, rendering, sharing,
  dashboard and critique, which are pure.
* The specification corpus, experiments, release scripts and reference comparisons with
  Stan, which are data, builds and numerics.

## 6. What could be added

* The two inputs of `simulate` and the manifest in `RunDirectory`.
* Loading of examples (the counter of `main.mjs:177`) as a small module of its own.
* A specification like `WriteOnce` for the directories of `RunDirectory`. Their users do
  not read them in one step: a report is made of what is at the paths, and a replay
  compares files and not records, so it would have to be weaker than a register.
* The properties of `ModelLanguage` and `ModelExecution`, and those of `ArtifactFlow` that
  are not proved, are properties of definitions that recurse over data; a prover with
  induction over such definitions could prove them for all instances.
