---------------------------- MODULE ArtifactFlow ----------------------------
(* The artifacts of one run directory on their way from the command that     *)
(* prepares it to the plots and to generated datasets: its data normalised,  *)
(* a fit written by the in-process backend, a simulation, predictions by an  *)
(* external engine, files damaged or exchanged with those of another fit in  *)
(* between, the export, and the generation of datasets from the fit.         *)
(*                                                                           *)
(* A command is one step here: its steps are in RunDirectory and             *)
(* GenerationRun, and what it writes and what it accepts is here.            *)
EXTENDS GeneratedDatasets

CONSTANTS Inputs,      \* what a run is prepared from: a model, a data document, labels, ranks
          Fits,        \* what a sampler may return: a bound model, a result and settings
          Simulations, \* what a prior simulation may return, with its settings
          Requests,    \* what a generation is asked for: source, design, count, seed, parameters
          MaxSteps,    \* bound: how many commands and damages
          MaxLines     \* bound: only files of at most so many lines are damaged

\* A document that is written is not the null.
ASSUME InputsAssumption ==
  \A i \in Inputs : IsDataDoc(i.data) => WrittenDataDoc(DataDoc(i.data)) # Null
\* The fits the writer accepts have chains and draws, parameters of distinct
\* names, and for each draw the cells of each parameter.
WritableFits == {f \in Fits : Writable(f.bound, f.result, f.settings)}
ASSUME FitsAssumption == \A f \in WritableFits :
  /\ f.settings.chains \in Nat \ {0} /\ f.settings.draws \in Nat \ {0}
  /\ f.bound \in Seq([name : STRING, shape : Seq(Nat)]) /\ IsInjective(NamesOf(f.bound))
  /\ \A p \in Range(f.bound), c \in 1..f.settings.chains, d \in 1..f.settings.draws :
       /\ f.result.samples[p.name][c][d] \in Seq(Int \cup {NaN})
       /\ Len(f.result.samples[p.name][c][d]) = Product(p.shape)
\* The three kinds of parameter source.
ASSUME RequestsAssumption ==
  \A r \in Requests : r.kind \in {"fixed", "model-prior", "posterior"}
\* The fields of a document are a sequence, and so are its variables.
ASSUME DesignsAssumption == \A r \in Requests :
  IsGenerationDoc(r.design) => DataDoc(r.design) \in Seq(Range(DataDoc(r.design)))

VARIABLES run,        \* the artifacts, Null for the ones not written
          input,      \* what the run was prepared from
          fit,        \* the fit the posterior stream was written by
          simulation, \* the one the prior-predictive stream was written by
          idata,      \* the exported fit, Null before
          generation, \* the published generation, Null before
          damage,     \* the artifacts damaged, with the kind of the damage
          steps
vars == <<run, input, fit, simulation, idata, generation, damage, steps>>

Artifacts == {"model", "data", "dims", "posterior", "prior_predictive", "posterior_predictive"}
Step == steps < MaxSteps /\ steps' = steps + 1

Init == /\ run = [a \in Artifacts |-> Null]
        /\ input = Null /\ fit = Null /\ simulation = Null
        /\ idata = Null /\ generation = Null
        /\ damage = {} /\ steps = 0

\* A command prepares the run from a document it can read.
Prepare(i) ==
  /\ Step /\ input = Null
  /\ IsDataDoc(i.data) /\ SidecarIsValid(i.dims, i.ranks)
  /\ run' = [run EXCEPT !.model = i.model, !.data = WrittenDataDoc(DataDoc(i.data)),
                        !.dims = IF SidecarIsEmpty(i.dims) THEN Null ELSE i.dims]
  /\ input' = i
  /\ UNCHANGED <<fit, simulation, idata, generation, damage>>

Written(f) == WritePosterior(f.bound, f.result, f.settings, Fingerprint(run.model, run.data))

\* The in-process backend writes its draws of the model, once.
Sample(f) ==
  /\ Step /\ input # Null /\ run.posterior = Null /\ f.bound = input.model.bound
  /\ Writable(f.bound, f.result, f.settings)
  /\ run' = [run EXCEPT !.posterior = Written(f)]
  /\ fit' = f
  /\ UNCHANGED <<input, simulation, idata, generation, damage>>

Simulate(s) ==
  /\ Step /\ input # Null /\ run.prior_predictive = Null
  /\ SimulationIsWritable(s.result, s.settings)
  /\ run' = [run EXCEPT !.prior_predictive = WritePriorPredictive(s.result, s.settings)]
  /\ simulation' = s
  /\ UNCHANGED <<input, fit, idata, generation, damage>>

\* An external engine predicts the observed data from each draw of the fit:
\* a cell is predicted from the values of the draw.
PredictedCell(values, k) == 10 * FoldSet(LAMBDA n, acc : acc + values[n][1], 0, DOMAIN values) + k
PredictiveMarker == [posterior_predictive_format |-> "v0-provisional"]
Prediction(posterior, sites) ==
  LET common == PredictiveMarker @@ [source_fit_seed |-> posterior.seed,
                                     draw_count |-> Cardinality(DOMAIN posterior.records)]
      cells == SetToSortSeq(DOMAIN posterior.records,
                            LAMBDA a, b : a[1] < b[1] \/ (a[1] = b[1] /\ a[2] < b[2]))
      shape(n) == ReadDataArrays(run.data)[n].shape
      predicted(n, cell) == ParameterValue(
        [k \in 1..Product(shape(n)) |-> PredictedCell(posterior.records[cell].values, k)], shape(n))
  IN  [lines |-> <<common @@ [sites |-> [k \in DOMAIN sites |->
                                [name |-> sites[k], shape |-> shape(sites[k])]]]>>
                 \o [k \in DOMAIN cells |->
                      PredictiveMarker @@
                      [source_chain |-> cells[k][1], source_draw |-> cells[k][2],
                       values |-> [m \in DOMAIN sites |->
                         [name |-> sites[m], value |-> predicted(sites[m], cells[k])]]]]
                 \o <<[trailer |-> common]>>,
       ended |-> TRUE]
Predict ==
  /\ Step /\ run.posterior # Null /\ run.posterior_predictive = Null
  /\ Readable(run.posterior)
  /\ ObservedDataNames(run.model) \cap DOMAIN ReadDataArrays(run.data) # {}
  /\ run' = [run EXCEPT !.posterior_predictive =
               Prediction(ReadPosterior(run.posterior),
                          SetToSeq(ObservedDataNames(run.model) \cap DOMAIN ReadDataArrays(run.data)))]
  /\ UNCHANGED <<input, fit, simulation, idata, generation, damage>>

----------------------------------------------------------------------------
\* What can happen to a file between two commands.

Streams == {"posterior", "prior_predictive", "posterior_predictive"}
Swapped(s, i, j) == [s EXCEPT ![i] = s[j], ![j] = s[i]]
Dropped(d, f) == [g \in DOMAIN d \ {f} |-> d[g]]
IntegerFields == {"seed", "draw_index", "draw_count", "chain_count", "chain", "draw", "tree_depth",
                  "parameter_count", "draws_per_chain", "source_chain", "source_draw", "source_fit_seed"}

\* Lines lost, repeated, moved or blank; the end of the file lost.
LineDamage(file) ==
  LET s == file.lines
  IN  {[file EXCEPT !.lines = RemoveAt(s, i)] : i \in DOMAIN s}
      \cup {[file EXCEPT !.lines = InsertAt(s, i, s[j])] : i, j \in DOMAIN s}
      \cup {[file EXCEPT !.lines = Swapped(s, i, j)] : i, j \in DOMAIN s}
      \cup {[file EXCEPT !.lines = InsertAt(s, i, Blank)] : i \in DOMAIN s}
      \cup {[file EXCEPT !.ended = FALSE]}
\* A field lost, of another type, or an integer one too large.
DamagedFields(d) ==
  {Dropped(d, f) : f \in DOMAIN d}
  \cup {[d EXCEPT ![f] = Other] : f \in DOMAIN d}
  \cup {[d EXCEPT ![f] = @ + 1] : f \in {g \in DOMAIN d \cap IntegerFields : IsInt(d[g])}}
FieldDamage(file) ==
  {[file EXCEPT !.lines[p[1]] = p[2]] :
     p \in UNION {{<<i, d>> : d \in DamagedFields(file.lines[i])} : i \in DOMAIN file.lines}}
  \cup {[file EXCEPT !.lines[p[1]] = [trailer |-> p[2]]] :
     p \in UNION {{<<i, d>> : d \in DamagedFields(file.lines[i].trailer)} :
                    i \in {k \in DOMAIN file.lines : "trailer" \in DOMAIN file.lines[k]}}}
\* A line of another fit in the place of one of these.
SpliceDamage(file) ==
  UNION {{[file EXCEPT !.lines[i] = Written(f).lines[j]] :
            i \in DOMAIN file.lines, j \in DOMAIN Written(f).lines} :
          f \in {g \in WritableFits \ {fit} : g.bound = fit.bound}}

Damage(a, kind, files) ==
  /\ Step /\ run[a] # Null /\ Len(run[a].lines) <= MaxLines
  /\ idata = Null /\ generation = Null
  /\ \A d \in damage : d[2] = "exchange" \* bound: one damage, and one exchange
  /\ \E file \in files \ {run[a]} : run' = [run EXCEPT ![a] = file]
  /\ damage' = damage \cup {<<a, kind>>}
  /\ UNCHANGED <<input, fit, simulation, idata, generation>>

\* The posterior stream of another fit, of this data or of others, takes the
\* place of this one's; predictions stay.
Exchange(f, data) ==
  /\ Step /\ run.posterior # Null /\ f # fit /\ idata = Null /\ generation = Null
  /\ \A d \in damage : d[2] # "exchange"
  /\ Writable(f.bound, f.result, f.settings)
  /\ run' = [run EXCEPT !.posterior =
               WritePosterior(f.bound, f.result, f.settings, Fingerprint(run.model, data))]
  /\ fit' = f
  /\ damage' = damage \cup {<<"posterior", "exchange">>}
  /\ UNCHANGED <<input, simulation, idata, generation>>

\* The export; a plot reuses the one there is.
ExportRun ==
  /\ Step /\ idata = Null /\ CanExport(run)
  /\ idata' = Export(run)
  /\ UNCHANGED <<run, input, fit, simulation, generation, damage>>

----------------------------------------------------------------------------
\* Generation: a plan is built from the artifacts of the run, an external
\* engine returns a stream, and it is published if it is one of the plan.

PlanOf(r) ==
  GenerateDatasets(CASE r.kind = "fixed" -> Fixed(r.parameters)
                     [] r.kind = "model-prior" -> ModelPrior(run.model, Null)
                     [] r.kind = "posterior" -> PosteriorOf(run.model, run.data, run.posterior),
                   run.model, r.design, r.count, r.seed)
CanMaterialize(plan) ==
  plan.source.kind = "posterior" =>
    Portable(plan.source.posterior, plan.source.model, plan.source.data)

Float(n, shape, numbers) ==
  Field(n, VariableJson([dtype |-> "float64", shape |-> shape,
                         values |-> [k \in DOMAIN numbers |-> Real(numbers[k])]]))
CanonicalDoc(fields) ==
  Object(<<Field("format", Text("bayescycle.data.json.v1")), Field("variables", Object(fields))>>)
DrawDoc(file, index) ==
  LET d == PortableDraws(file)[index + 1]
  IN  CanonicalDoc([k \in DOMAIN d.values |->
        Float(d.values[k].name, Head(file.lines).params[k].shape, d.values[k].numbers)])
PriorDoc(index) == CanonicalDoc(<<Float("mu", <<>>, <<index>>)>>)

\* The draws an engine may say a pair is of, and what it may use.
SourceIndexes(plan) ==
  IF plan.source.kind = "posterior" THEN 0..Len(PortableDraws(plan.source.posterior)) ELSE 0..1
ParametersUsed(plan, index) ==
  CASE plan.source.kind = "fixed" -> plan.source.parameters
    [] plan.source.kind = "model-prior" -> PriorDoc(index)
    [] OTHER -> DrawDoc(plan.source.posterior,
                        index % Len(PortableDraws(plan.source.posterior)))
Lineage(plan, index, pair) ==
  CASE plan.source.kind = "fixed" -> [kind |-> "fixed"]
    [] plan.source.kind = "model-prior" -> [kind |-> "model-prior", source_draw_index |-> pair - 1]
    [] OTHER -> LET draws == PortableDraws(plan.source.posterior)
                    d == draws[(index % Len(draws)) + 1]
                IN  [kind |-> "posterior", source_draw_index |-> index, chain |-> d.chain, draw |-> d.draw]

\* The dataset of a pair: the design and an outcome; what an engine must not
\* return is another design, a dataset without it, or an outcome that is no array.
DesignFields(design) ==
  [k \in DOMAIN DataDoc(design) |-> Field(DataDoc(design)[k].name, VariableJson(DataDoc(design)[k].value))]
Outcome(values) ==
  Field("y", VariableJson([dtype |-> "float64", shape |-> <<1>>, values |-> values]))
Dataset(design, pair) == CanonicalDoc(DesignFields(design) \o <<Outcome(<<Real(pair)>>)>>)
WrongDatasets(design) ==
  {CanonicalDoc(<<Float("x", <<1>>, <<99>>)>> \o SubSeq(DesignFields(design), 2, Len(DataDoc(design)))
                 \o <<Outcome(<<Real(1)>>)>>),
   CanonicalDoc(<<Outcome(<<Real(1)>>)>> \o DesignFields(design)),
   CanonicalDoc(DesignFields(design) \o <<Outcome(<<Real(1), Real(2)>>)>>),
   CanonicalDoc(DesignFields(design) \o <<Outcome(<<Real(NotFinite)>>)>>),
   Object(DesignFields(design) \o <<Outcome(<<Real(1)>>)>>)}

GeneratedStream(plan, named, used, datasets) ==
  LET shared == Joined(GeneratedMarker,
        [workflow_phases |-> GenerationPhases, generation_model_hash |-> Hash(plan.model),
         design_hash |-> Hash(plan.design), parameter_source |-> SourceDocument(plan.source),
         count |-> plan.count, seed |-> plan.seed])
  IN  [lines |->
        <<Joined(shared, [draw_index_base |-> "zero_based_generation_order",
                          parameter_schema |-> SchemaOf(DataDoc(ParametersUsed(plan, used[1]))),
                          dataset_schema |-> SchemaOf(DataDoc(datasets[1]))])>>
        \o [k \in 1..plan.count |->
              Joined(GeneratedMarker,
              [draw_index |-> k - 1, draw_count |-> plan.count,
               parameters |-> ParametersUsed(plan, used[k]), dataset |-> datasets[k],
               source_lineage |-> Lineage(plan, named[k], k)])]
        \o <<[trailer |-> Joined(shared, [draw_count |-> plan.count, complete |-> TRUE])]>>,
       ended |-> TRUE]
\* The streams of the named draws, and one damaged or with a wrong dataset.
OutputsOf(plan, first, right) ==
  {GeneratedStream(plan, named, used, right) : named, used \in [1..plan.count -> SourceIndexes(plan)]}
  \cup LineDamage(GeneratedStream(plan, first, first, right))
  \cup FieldDamage(GeneratedStream(plan, first, first, right))
  \cup {GeneratedStream(plan, first, first, [right EXCEPT ![1] = dataset]) :
          dataset \in WrongDatasets(plan.design)}
EngineOutputs(plan) ==
  OutputsOf(plan, [k \in 1..plan.count |-> 0], [k \in 1..plan.count |-> Dataset(plan.design, k)])

Generate(r) ==
  /\ Step /\ input # Null /\ generation = Null
  /\ run.prior_predictive = Null /\ run.posterior_predictive = Null /\ idata = Null \* bound
  /\ r.kind = "posterior" <=> run.posterior # Null                                  \* bound
  /\ IsPlan(PlanOf(r).source, run.model, r.count, r.seed)
  /\ CanMaterialize(PlanOf(r))
  /\ \E output \in EngineOutputs(PlanOf(r)) :
       /\ ParsesAsGenerated(output)
       /\ VerifiesAgainst(output, PlanOf(r))
       /\ generation' = [plan |-> PlanOf(r), output |-> output]
  /\ UNCHANGED <<run, input, fit, simulation, idata, damage>>

Next == \/ \E i \in Inputs : Prepare(i)
        \/ \E f \in Fits : Sample(f)
        \/ \E f \in Fits, data \in {run.data, Null} : Exchange(f, data)
        \/ \E s \in Simulations : Simulate(s)
        \/ Predict
        \/ \E a \in Streams : Damage(a, "lines", LineDamage(run[a]))
        \/ \E a \in Streams : Damage(a, "field", FieldDamage(run[a]))
        \/ fit # Null /\ Damage("posterior", "splice", SpliceDamage(run.posterior))
        \/ ExportRun
        \/ \E r \in Requests : Generate(r)
Spec == Init /\ [][Next]_vars

----------------------------------------------------------------------------
\* What a fit, a simulation and the data say, to compare the artifacts with.

SampleOf(f, n, at) == f.result.samples[n][at[1]][at[2] + 1]
FitCells(f) == (1..f.settings.chains) \X (0..f.settings.draws - 1)
FitVariables(f) ==
  {[name |-> p.name, shape |-> p.shape, cells |-> [at \in FitCells(f) |-> SampleOf(f, p.name, at)]] :
     p \in Range(f.bound)}
ValuesAt(f, at) == [n \in Range(NamesOf(f.bound)) |-> SampleOf(f, n, at)]
StatOf(f, stat, at) ==
  LET traces == f.result
  IN  CASE stat = "diverging" -> traces.is_divergent[at[1]][at[2] + 1]
        [] stat = "tree_depth" -> traces.num_trajectory_expansions[at[1]][at[2] + 1]
        [] stat = "tree_accept" -> Clamped(traces.acceptance_rate[at[1]][at[2] + 1])
        [] stat = "energy" -> traces.energy[at[1]][at[2] + 1]
SimulationVariables(s) ==
  {[name |-> a.name, shape |-> Tail(a.shape),
    cells |-> [at \in {1} \X (0..s.settings.draws - 1) |-> a.cells[at[2] + 1]]] :
     a \in Range(SiteArrays(s.result))}
ArrayOf(v) == [shape |-> v.value.shape, values |-> v.value.values]
Damaged(a) == \E d \in damage : d[1] = a /\ d[2] # "exchange"
PosteriorDamage(kind) == <<"posterior", kind>> \in damage

\* A fit that the portable format can hold: no parameter of more than one
\* axis, and nothing beyond its bounds.
FitsPortableFormat(f) ==
  /\ \A p \in Range(f.bound) : Len(p.shape) <= 1
  /\ f.settings.seed <= MaxSafeInteger
  /\ f.settings.max_tree_depth <= MaxTreeDepth
  /\ f.settings.chains * f.settings.draws + 2 <= MaxSourceLines

----------------------------------------------------------------------------
\* Properties.

\* What the writers write, the readers read: the posterior stream gives back
\* every cell of the sampler's result (posterior_ndjson.py, protocol_v0.py), it
\* is a portable source where the format can hold it (posterior_source.py),
\* and the prior-predictive stream gives back the simulation.
WrittenStreamsAreReadable ==
  /\ run.posterior # Null /\ ~Damaged("posterior") =>
       /\ Readable(run.posterior)
       /\ PosteriorVariables(ReadPosterior(run.posterior)) = FitVariables(fit)
       /\ FitsPortableFormat(fit) /\ ~PosteriorDamage("exchange") =>
            Portable(run.posterior, run.model, run.data)
  /\ run.prior_predictive # Null /\ ~Damaged("prior_predictive") =>
       /\ PriorPredictiveIsReadable(run.prior_predictive)
       /\ UNION {PriorVariables(ReadPriorPredictive(run.prior_predictive), b) : b \in BOOLEAN} =
            SimulationVariables(simulation)

\* A stream that the strict reader takes as a source for this model and data is
\* the whole of one fit, in its order, whatever lines were lost, moved or came
\* from another fit; the lenient reader reads the same of it (posterior_source.py,
\* protocol_v0.py).  The fits of a model differ in their seed, chains or draws:
\* nothing else in a line tells one from another.
PortableIsOneFit ==
  run.posterior # Null /\ Portable(run.posterior, run.model, run.data) =>
    /\ LET draws == PortableDraws(run.posterior)
       IN  /\ Len(draws) = fit.settings.chains * fit.settings.draws
           /\ \A k \in DOMAIN draws :
                /\ draws[k].source_draw_index = k - 1
                /\ draws[k].chain * fit.settings.draws + draws[k].draw = k - 1
                /\ \A v \in Range(draws[k].values) :
                     v.numbers = SampleOf(fit, v.name, <<draws[k].chain + 1, draws[k].draw>>)
    /\ Readable(run.posterior)
    /\ PosteriorVariables(ReadPosterior(run.posterior)) = FitVariables(fit)

\* An exported fit is the whole fit: no draw is lost, repeated or given to
\* another cell by lost, moved or damaged lines, the predictions beside a draw
\* were made from it, and the priors and data are the run's own.  (Neither
\* holds of a stream with a line of another fit: the plots read leniently.)
IdataIsOfTheFit ==
  idata # Null /\ ~PosteriorDamage("splice") =>
    /\ idata.posterior = FitVariables(fit)
    /\ ~PosteriorDamage("field") =>
         /\ \A s \in idata.sample_stats : \A at \in DOMAIN s.cells :
              s.cells[at] = <<StatOf(fit, s.name, at)>>
         /\ \A v \in idata.posterior_predictive :
              /\ DOMAIN v.cells = FitCells(fit)
              /\ \A at \in DOMAIN v.cells : \A k \in DOMAIN v.cells[at] :
                   v.cells[at][k] = PredictedCell(ValuesAt(fit, at), k)
    /\ idata.prior \cup idata.prior_predictive # {} =>
         idata.prior \cup idata.prior_predictive = SimulationVariables(simulation)
    /\ {v.name : v \in idata.observed_data} \cap {v.name : v \in idata.constant_data} = {}
    /\ {<<v.name, v.shape, v.cells>> : v \in idata.observed_data \cup idata.constant_data} =
         {<<v.name, v.value.shape, v.value.values>> : v \in Range(DataDoc(input.data))}

\* Every accepted spelling of the data, that of the run and that of a dataset
\* selected from a published generation, gives the in-process backend and the
\* plots the same arrays, and normalising a normalised document changes
\* nothing.  (An empty axis before the last one is lost to the backend: nested
\* lists cannot say how many elements an empty row would have.)
SelectedDatasets ==
  IF generation = Null THEN {}
  ELSE {Select(generation.output, i).dataset : i \in 0..generation.plan.count - 1}
ReadersAgreeOnData ==
  /\ input # Null => IsDataDoc(run.data) /\ WrittenDataDoc(DataDoc(run.data)) = run.data
  /\ \A doc \in SelectedDatasets \cup {i.data : i \in {input} \ {Null}} :
       /\ IsDataDoc(doc)
       /\ CanReadArrays(WrittenDataDoc(DataDoc(doc)))
       /\ \A v \in Range(DataDoc(doc)) :
            /\ ReadDataArrays(WrittenDataDoc(DataDoc(doc)))[v.name] = ArrayOf(v)
            /\ (\A axis \in 1..Len(v.value.shape) - 1 : v.value.shape[axis] # 0) =>
                 BoundArray(v.value) = ArrayOf(v)

\* A published pair is what its lineage says: its parameters are the fixed
\* ones or those of the named draw of the fit, and the plots read the design of
\* its dataset as they read the one that was given (generated_datasets.py).
\* The engine may spell a number of a float array as an integer.
Magnitudes(array) ==
  [shape |-> array.shape, numbers |-> [k \in DOMAIN array.values |-> array.values[k].n]]
GeneratedParametersAreDraws ==
  generation # Null =>
    LET plan == generation.plan
        pairs == Pairs(generation.output)
        design == ReadDataArrays(plan.design)
    IN  /\ Len(pairs) = plan.count
        /\ \A k \in DOMAIN pairs :
             LET l == pairs[k].source_lineage
             IN  /\ l.kind = plan.source.kind
                 /\ l.kind = "fixed" => DataDoc(pairs[k].parameters) = DataDoc(plan.source.parameters)
                 /\ l.kind = "posterior" =>
                      {<<v.name, Magnitudes(v.value).numbers>> : v \in Range(DataDoc(pairs[k].parameters))} =
                      {<<n, SampleOf(fit, n, <<l.chain + 1, l.draw>>)>> : n \in Range(NamesOf(fit.bound))}
                 /\ \A n \in DOMAIN design :
                      Magnitudes(ReadDataArrays(pairs[k].dataset)[n]) = Magnitudes(design[n])

\* A published generation loads again as the plan it was made for, and with no
\* other model, design or source beside its plan document.
PayloadsOf(plan) ==
  LET s == plan.source
  IN  [model |-> plan.model, design |-> plan.design,
       parameters |-> IF s.kind = "fixed" THEN s.parameters ELSE Null,
       posterior |-> IF s.kind = "posterior" THEN s.posterior ELSE Null,
       fit_data |-> IF s.kind = "posterior" THEN s.data ELSE Null]
Substituted(payloads) ==
  {[payloads EXCEPT !.design = r.design] : r \in Requests}
  \cup {[payloads EXCEPT !.model = i.model] : i \in Inputs}
  \cup (IF payloads.parameters = Null THEN {}
        ELSE {[payloads EXCEPT !.parameters = r.parameters] : r \in {q \in Requests : q.kind = "fixed"}})
  \cup (IF payloads.posterior = Null THEN {}
        ELSE {[payloads EXCEPT !.posterior = file] : file \in LineDamage(payloads.posterior)}
             \cup {[payloads EXCEPT !.fit_data = i.data] : i \in Inputs})
GenerationsReload ==
  generation # Null =>
    LET file == SerializePlan(generation.plan)
        payloads == PayloadsOf(generation.plan)
    IN  /\ Resolves(file, payloads)
        /\ ResolvedPlan(file, payloads) = generation.plan
        /\ \A other \in Substituted(payloads) \ {payloads} : ~Resolves(file, other)
=============================================================================
