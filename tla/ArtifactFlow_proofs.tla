------------------------- MODULE ArtifactFlow_proofs -------------------------
(***************************************************************************)
(* Proofs about ArtifactFlow, for every set of inputs, fits, simulations   *)
(* and requests and any number of commands and damages.                    *)
(***************************************************************************)
EXTENDS ArtifactFlow, TLAPS, SequenceTheorems, FiniteSetTheorems, WellFoundedInduction

-----------------------------------------------------------------------------
(***************************************************************************)
(* Published generations.  The plan document holds a hash of every payload *)
(* and the verified stream repeats them, so a payload that resolves is the *)
(* one that was hashed.                                                    *)
(***************************************************************************)

PlannedSource(s) ==
    \/ \E parameters : s = Fixed(parameters) /\ parameters # Null
    \/ \E model : s = ModelPrior(model, Null)
    \/ \E model, data, posterior :
         s = PosteriorOf(model, data, posterior) /\ data # Null /\ posterior # Null

\* What the command that published a generation has established of its plan.
Published(plan) ==
    /\ plan = GenerateDatasets(plan.source, plan.model, plan.design, plan.count, plan.seed)
    /\ PlannedSource(plan.source)
    /\ IsPlan(plan.source, plan.model, plan.count, plan.seed)
    /\ IsSourceDocument(SourceDocument(plan.source))
    /\ IsHash(Hash(plan.model)) /\ IsHash(Hash(plan.design))

LEMMA HashIsInjective == \A x, y : Hash(x) = Hash(y) <=> x = y
  BY DEF Hash

LEMMA SourceKinds ==
    ASSUME NEW s, PlannedSource(s)
    PROVE  /\ s.kind \in {"fixed", "model-prior", "posterior"}
           /\ s.kind = "fixed" =>
                /\ s = Fixed(s.parameters) /\ s.parameters # Null
                /\ SourceDocument(s) = [kind |-> "fixed", parameters_hash |-> Hash(s.parameters)]
           /\ s.kind = "model-prior" =>
                /\ s = ModelPrior(s.model, Null)
                /\ SourceDocument(s) = [kind |-> "model-prior", model_hash |-> Hash(s.model),
                                        authored_provenance |-> Null]
           /\ s.kind = "posterior" =>
                /\ s = PosteriorOf(s.model, s.data, s.posterior)
                /\ s.data # Null /\ s.posterior # Null
                /\ SourceDocument(s) = [kind |-> "posterior", fit_hash |-> Hash(s.posterior),
                                        fit_model_hash |-> Hash(s.model),
                                        fit_data_hash |-> Hash(s.data)]
<1>1. CASE \E parameters : s = Fixed(parameters) /\ parameters # Null
  BY <1>1 DEF Fixed, SourceDocument
<1>2. CASE \E model : s = ModelPrior(model, Null)
  BY <1>2 DEF ModelPrior, SourceDocument
<1>3. CASE \E model, data, posterior :
             s = PosteriorOf(model, data, posterior) /\ data # Null /\ posterior # Null
  BY <1>3 DEF PosteriorOf, SourceDocument
<1> QED BY <1>1, <1>2, <1>3 DEF PlannedSource

LEMMA DocumentParses ==
    ASSUME NEW plan, Published(plan)
    PROVE  ParsesAsPlan(SerializePlan(plan))
<1> DEFINE d == SerializePlan(plan).document
<1> DEFINE s == SourceDocument(plan.source)
<1>1. /\ d.generation_plan_format = "v0-provisional" /\ d.kind = "draw"
      /\ d.count = plan.count /\ d.seed = plan.seed
      /\ DOMAIN d = {"generation_plan_format", "kind", "count", "seed", "distribution"}
      /\ d.distribution = [kind |-> "joint-predict", parameters |-> s,
                           outcomes |-> [kind |-> "model-outcomes", model_hash |-> Hash(plan.model),
                                         design_hash |-> Hash(plan.design)]]
  BY DEF SerializePlan
<1>2. IsIn(d.count, 1..MaxGenerationCount) /\ IsIn(d.seed, 0..MaxSafeInteger)
  <2>1. plan.count \in 1..MaxGenerationCount /\ plan.seed \in 0..MaxSafeInteger
    BY DEF Published, IsPlan
  <2> QED BY <1>1, <2>1, NullAssumption DEF IsIn
<1>3. SourceModelHashes(s) \subseteq {Hash(plan.model)}
  <2>1. SourceModels(plan.source) \subseteq {plan.model}
    BY DEF Published, IsPlan
  <2> QED BY <2>1, SourceKinds DEF Published, SourceModels, SourceModelHashes
<1>4. IsDistribution(d.distribution)
  <2> DEFINE e == d.distribution
  <2>1. /\ DOMAIN e = {"kind", "parameters", "outcomes"} /\ e.kind = "joint-predict"
        /\ e.parameters = s
        /\ DOMAIN e.outcomes = {"kind", "model_hash", "design_hash"}
        /\ e.outcomes.kind = "model-outcomes"
        /\ e.outcomes.model_hash = Hash(plan.model) /\ e.outcomes.design_hash = Hash(plan.design)
    BY <1>1
  <2>2. IsSourceDocument(s) /\ IsHash(Hash(plan.model)) /\ IsHash(Hash(plan.design))
    BY DEF Published
  <2> HIDE DEF d, s, e
  <2>3. IsDistribution(e)
    BY <2>1, <2>2, <1>3 DEF IsDistribution
  <2> QED BY <2>3 DEF e
<1> QED BY <1>1, <1>2, <1>4 DEF ParsesAsPlan

\* What a published plan's document resolves with is what was hashed.
LEMMA ResolvedIsHashed ==
    ASSUME NEW plan, Published(plan),
           NEW payloads, Resolves(SerializePlan(plan), payloads)
    PROVE  /\ payloads.model = plan.model /\ payloads.design = plan.design
           /\ plan.source.kind = "fixed" => payloads.parameters = plan.source.parameters
           /\ plan.source.kind = "posterior" =>
                payloads.posterior = plan.source.posterior /\ payloads.fit_data = plan.source.data
<1> DEFINE file == SerializePlan(plan)
<1> DEFINE source == ResolvedSource(file, payloads)
<1>1. SerializePlan(ResolvedPlan(file, payloads)) = SerializePlan(plan)
  BY DEF Resolves
<1>2. /\ SerializePlan(ResolvedPlan(file, payloads)).document.distribution
           = [kind |-> "joint-predict", parameters |-> SourceDocument(source),
              outcomes |-> [kind |-> "model-outcomes", model_hash |-> Hash(payloads.model),
                            design_hash |-> Hash(payloads.design)]]
      /\ SerializePlan(plan).document.distribution
           = [kind |-> "joint-predict", parameters |-> SourceDocument(plan.source),
              outcomes |-> [kind |-> "model-outcomes", model_hash |-> Hash(plan.model),
                            design_hash |-> Hash(plan.design)]]
  BY DEF SerializePlan, ResolvedPlan, GenerateDatasets
<1> HIDE DEF file, source
<1>3. /\ SourceDocument(source) = SourceDocument(plan.source)
      /\ Hash(payloads.model) = Hash(plan.model) /\ Hash(payloads.design) = Hash(plan.design)
  BY <1>1, <1>2
<1>4. payloads.model = plan.model /\ payloads.design = plan.design
  BY <1>3, HashIsInjective
<1>5. file.document.distribution.parameters = SourceDocument(plan.source)
  BY DEF file, SerializePlan
<1>6. PlannedSource(plan.source)
  BY DEF Published
<1>7. plan.source.kind = "fixed" => payloads.parameters = plan.source.parameters
  <2> SUFFICES ASSUME plan.source.kind = "fixed" PROVE payloads.parameters = plan.source.parameters
    OBVIOUS
  <2>1. SourceDocument(plan.source) = [kind |-> "fixed", parameters_hash |-> Hash(plan.source.parameters)]
    BY <1>6, SourceKinds
  <2>2. source = Fixed(payloads.parameters)
    BY <2>1, <1>5 DEF source, ResolvedSource
  <2>3. SourceDocument(source) = [kind |-> "fixed", parameters_hash |-> Hash(payloads.parameters)]
    BY <2>2 DEF Fixed, SourceDocument
  <2>4. Hash(payloads.parameters) = Hash(plan.source.parameters)
    BY <1>3, <2>1, <2>3
  <2> QED BY <2>4, HashIsInjective
<1>8. plan.source.kind = "posterior" =>
        payloads.posterior = plan.source.posterior /\ payloads.fit_data = plan.source.data
  <2> SUFFICES ASSUME plan.source.kind = "posterior"
               PROVE  payloads.posterior = plan.source.posterior /\ payloads.fit_data = plan.source.data
    OBVIOUS
  <2>1. SourceDocument(plan.source) = [kind |-> "posterior", fit_hash |-> Hash(plan.source.posterior),
                                       fit_model_hash |-> Hash(plan.source.model),
                                       fit_data_hash |-> Hash(plan.source.data)]
    BY <1>6, SourceKinds
  <2>2. source = PosteriorOf(payloads.model, payloads.fit_data, payloads.posterior)
    BY <2>1, <1>5 DEF source, ResolvedSource
  <2>3. SourceDocument(source) = [kind |-> "posterior", fit_hash |-> Hash(payloads.posterior),
                                  fit_model_hash |-> Hash(payloads.model),
                                  fit_data_hash |-> Hash(payloads.fit_data)]
    BY <2>2 DEF PosteriorOf, SourceDocument
  <2>4. Hash(payloads.posterior) = Hash(plan.source.posterior) /\ Hash(payloads.fit_data) = Hash(plan.source.data)
    BY <1>3, <2>1, <2>3
  <2> QED BY <2>4, HashIsInjective
<1> QED BY <1>4, <1>7, <1>8

LEMMA PublishedReloads ==
    ASSUME NEW plan, Published(plan)
    PROVE  /\ Resolves(SerializePlan(plan), PayloadsOf(plan))
           /\ ResolvedPlan(SerializePlan(plan), PayloadsOf(plan)) = plan
<1> DEFINE file == SerializePlan(plan)
<1> DEFINE payloads == PayloadsOf(plan)
<1>1. PlannedSource(plan.source) /\ SourceModels(plan.source) \subseteq {plan.model}
  BY DEF Published, IsPlan
<1>2. /\ payloads.model = plan.model /\ payloads.design = plan.design
      /\ plan.source.kind = "fixed" => payloads.parameters = plan.source.parameters
      /\ plan.source.kind = "posterior" =>
           payloads.posterior = plan.source.posterior /\ payloads.fit_data = plan.source.data
  BY <1>1, SourceKinds DEF PayloadsOf
<1>3. /\ file.document.distribution.parameters = SourceDocument(plan.source)
      /\ file.document.count = plan.count /\ file.document.seed = plan.seed
  BY DEF SerializePlan
<1> HIDE DEF file, payloads
<1>4. plan.source.kind # "fixed" => plan.source.model = plan.model
  BY <1>1 DEF SourceModels
<1>5. SourceDocument(plan.source).kind = plan.source.kind
  BY <1>1, SourceKinds
<1>6. ResolvedSource(file, payloads) = plan.source
  <2>1. CASE plan.source.kind = "fixed"
    BY <2>1, <1>1, <1>2, <1>3, <1>5, SourceKinds DEF ResolvedSource
  <2>2. CASE plan.source.kind = "model-prior"
    <3>1. /\ SourceDocument(plan.source).authored_provenance = Null
          /\ plan.source = ModelPrior(plan.source.model, Null)
      BY <2>2, <1>1, SourceKinds
    <3>2. ResolvedSource(file, payloads) = ModelPrior(payloads.model, Null)
      BY <2>2, <3>1, <1>3, <1>5 DEF ResolvedSource
    <3> QED BY <3>1, <3>2, <2>2, <1>2, <1>4
  <2>3. CASE plan.source.kind = "posterior"
    <3>1. plan.source = PosteriorOf(plan.source.model, plan.source.data, plan.source.posterior)
      BY <2>3, <1>1, SourceKinds
    <3>2. ResolvedSource(file, payloads)
            = PosteriorOf(payloads.model, payloads.fit_data, payloads.posterior)
      BY <2>3, <1>3, <1>5 DEF ResolvedSource
    <3> QED BY <3>1, <3>2, <2>3, <1>2, <1>4
  <2> QED BY <2>1, <2>2, <2>3, <1>1, SourceKinds
<1>7. ResolvedPlan(file, payloads) = plan
  BY <1>2, <1>3, <1>6 DEF ResolvedPlan, Published
<1>8. HasItsPayloads(file, payloads)
  <2>1. plan.source.kind = "fixed" => payloads.parameters # Null
    BY <1>1, <1>2, SourceKinds
  <2>2. plan.source.kind = "posterior" => payloads.fit_data # Null /\ payloads.posterior # Null
    BY <1>1, <1>2, SourceKinds
  <2> QED BY <2>1, <2>2, <1>3, <1>5 DEF HasItsPayloads
<1>9. ParsesAsPlan(file)
  BY DocumentParses DEF file
<1> QED BY <1>7, <1>8, <1>9 DEF Resolves, file, payloads

LEMMA SubstitutesDiffer ==
    ASSUME NEW plan, Published(plan),
           NEW other \in Substituted(PayloadsOf(plan)) \ {PayloadsOf(plan)}
    PROVE  ~Resolves(SerializePlan(plan), other)
<1> DEFINE payloads == PayloadsOf(plan)
<1> SUFFICES ASSUME Resolves(SerializePlan(plan), other) PROVE other = payloads
  OBVIOUS
<1>1. payloads = [model |-> payloads.model, design |-> payloads.design,
                  parameters |-> payloads.parameters, posterior |-> payloads.posterior,
                  fit_data |-> payloads.fit_data]
  BY DEF PayloadsOf
<1>2. /\ other.model = plan.model /\ other.design = plan.design
      /\ plan.source.kind = "fixed" => other.parameters = plan.source.parameters
      /\ plan.source.kind = "posterior" =>
           other.posterior = plan.source.posterior /\ other.fit_data = plan.source.data
  BY ResolvedIsHashed
<1>3. /\ payloads.model = plan.model /\ payloads.design = plan.design
      /\ payloads.parameters = IF plan.source.kind = "fixed" THEN plan.source.parameters ELSE Null
      /\ payloads.posterior = IF plan.source.kind = "posterior" THEN plan.source.posterior ELSE Null
      /\ payloads.fit_data = IF plan.source.kind = "posterior" THEN plan.source.data ELSE Null
  BY DEF PayloadsOf
<1> HIDE DEF payloads
<1>4. CASE \E x : other = [payloads EXCEPT !.design = x]
  BY <1>4, <1>1, <1>2, <1>3
<1>5. CASE \E x : other = [payloads EXCEPT !.model = x]
  BY <1>5, <1>1, <1>2, <1>3
<1>6. CASE payloads.parameters # Null /\ \E x : other = [payloads EXCEPT !.parameters = x]
  <2>1. plan.source.kind = "fixed"
    BY <1>6, <1>3
  <2> QED BY <2>1, <1>6, <1>1, <1>2, <1>3
<1>7. CASE payloads.posterior # Null /\ \E x : other = [payloads EXCEPT !.posterior = x]
  <2>1. plan.source.kind = "posterior"
    BY <1>7, <1>3
  <2> QED BY <2>1, <1>7, <1>1, <1>2, <1>3
<1>8. CASE payloads.posterior # Null /\ \E x : other = [payloads EXCEPT !.fit_data = x]
  <2>1. plan.source.kind = "posterior"
    BY <1>8, <1>3
  <2> QED BY <2>1, <1>8, <1>1, <1>2, <1>3
<1>9. other \in Substituted(payloads)
  BY DEF payloads
<1> QED BY <1>9, <1>4, <1>5, <1>6, <1>7, <1>8 DEF Substituted

\* A published generation has an established plan, and its stream was parsed
\* and verified against it.
GenerationInv ==
    generation # Null =>
        /\ Published(generation.plan)
        /\ ParsesAsGenerated(generation.output)
        /\ VerifiesAgainst(generation.output, generation.plan)
\* A prepared run has a model and data, which no command and no damage touches.
PreparedInv ==
    /\ DOMAIN run = Artifacts
    /\ input # Null => run.data # Null

LEMMA GenerationMatters == GenerationInv => GenerationsReload
<1> SUFFICES ASSUME GenerationInv, generation # Null PROVE GenerationsReload
  BY DEF GenerationsReload
<1>1. Published(generation.plan)
  BY DEF GenerationInv
<1> QED BY <1>1, PublishedReloads, SubstitutesDiffer DEF GenerationsReload

LEMMA PreparedInit == Init => PreparedInv
  BY DEF Init, PreparedInv

LEMMA PreparedStep == PreparedInv /\ [Next]_vars => PreparedInv'
<1> SUFFICES ASSUME PreparedInv, [Next]_vars PROVE PreparedInv'
  OBVIOUS
<1>1. ASSUME NEW i \in Inputs, Prepare(i) PROVE PreparedInv'
  <2> DEFINE dims == IF SidecarIsEmpty(i.dims) THEN Null ELSE i.dims
  <2> DEFINE data == WrittenDataDoc(DataDoc(i.data))
  <2>1. data # Null
    BY <1>1, InputsAssumption DEF Prepare
  <2>2. run' = [run EXCEPT !.model = i.model, !.data = data, !.dims = dims]
    BY <1>1 DEF Prepare
  <2> HIDE DEF data, dims
  <2> QED BY <2>1, <2>2 DEF PreparedInv, Artifacts
<1>2. ASSUME NEW a \in Artifacts \ {"model", "data", "dims"}, NEW file,
             run' = [run EXCEPT ![a] = file], input' = input
      PROVE PreparedInv'
  BY <1>2 DEF PreparedInv, Artifacts
<1>3. ASSUME NEW f \in Fits, Sample(f) PROVE PreparedInv'
  <2> DEFINE file == Written(f)
  <2>1. run' = [run EXCEPT !.posterior = file] /\ input' = input
    BY <1>3 DEF Sample
  <2> HIDE DEF file
  <2> QED BY <2>1, <1>2 DEF Artifacts
<1>4. ASSUME NEW f \in Fits, NEW data, Exchange(f, data) PROVE PreparedInv'
  <2> DEFINE file == WritePosterior(f.bound, f.result, f.settings, Fingerprint(run.model, data))
  <2>1. run' = [run EXCEPT !.posterior = file] /\ input' = input
    BY <1>4 DEF Exchange
  <2> HIDE DEF file
  <2> QED BY <2>1, <1>2 DEF Artifacts
<1>5. ASSUME NEW s \in Simulations, Simulate(s) PROVE PreparedInv'
  <2> DEFINE file == WritePriorPredictive(s.result, s.settings)
  <2>1. run' = [run EXCEPT !.prior_predictive = file] /\ input' = input
    BY <1>5 DEF Simulate
  <2> HIDE DEF file
  <2> QED BY <2>1, <1>2 DEF Artifacts
<1>6. CASE Predict
  <2> DEFINE file == Prediction(ReadPosterior(run.posterior),
                       SetToSeq(ObservedDataNames(run.model) \cap DOMAIN ReadDataArrays(run.data)))
  <2>1. run' = [run EXCEPT !.posterior_predictive = file] /\ input' = input
    BY <1>6 DEF Predict
  <2> HIDE DEF file
  <2> QED BY <2>1, <1>2 DEF Artifacts
<1>7. ASSUME NEW a \in Streams, NEW kind, NEW files, Damage(a, kind, files) PROVE PreparedInv'
  <2>1. PICK file : run' = [run EXCEPT ![a] = file]
    BY <1>7 DEF Damage
  <2>2. input' = input
    BY <1>7 DEF Damage
  <2> QED BY <2>1, <2>2, <1>2 DEF Artifacts, Streams
<1>8. CASE ExportRun
  BY <1>8 DEF ExportRun, PreparedInv
<1>9. ASSUME NEW r \in Requests, Generate(r) PROVE PreparedInv'
  BY <1>9 DEF Generate, PreparedInv
<1>10. CASE UNCHANGED vars
  BY <1>10 DEF vars, PreparedInv
<1>11. CASE fit # Null /\ Damage("posterior", "splice", SpliceDamage(run.posterior))
  BY <1>11, <1>7 DEF Streams
<1> QED BY <1>1, <1>3, <1>4, <1>5, <1>6, <1>7, <1>8, <1>9, <1>10, <1>11 DEF Next

\* The plan of a request.
LEMMA PlanOfRequest ==
    ASSUME NEW r \in Requests
    PROVE  LET plan == PlanOf(r)
           IN  /\ plan = GenerateDatasets(plan.source, run.model, r.design, r.count, r.seed)
               /\ plan.model = run.model /\ plan.design = r.design
               /\ plan.count = r.count /\ plan.seed = r.seed
               /\ r.kind = "fixed" => plan.source = Fixed(r.parameters)
               /\ r.kind = "model-prior" => plan.source = ModelPrior(run.model, Null)
               /\ r.kind = "posterior" => plan.source = PosteriorOf(run.model, run.data, run.posterior)
<1> DEFINE plan == PlanOf(r)
<1>1. PICK source : /\ plan = GenerateDatasets(source, run.model, r.design, r.count, r.seed)
                    /\ r.kind = "fixed" => source = Fixed(r.parameters)
                    /\ r.kind = "model-prior" => source = ModelPrior(run.model, Null)
                    /\ r.kind = "posterior" => source = PosteriorOf(run.model, run.data, run.posterior)
  <2>1. CASE r.kind = "fixed"
    BY <2>1 DEF PlanOf
  <2>2. CASE r.kind = "model-prior"
    BY <2>2 DEF PlanOf
  <2>3. CASE r.kind = "posterior"
    BY <2>3 DEF PlanOf
  <2> QED BY <2>1, <2>2, <2>3, RequestsAssumption
<1> HIDE DEF plan
<1>2. /\ plan.source = source /\ plan.model = run.model /\ plan.design = r.design
      /\ plan.count = r.count /\ plan.seed = r.seed
  BY <1>1 DEF GenerateDatasets
<1> QED BY <1>1, <1>2 DEF plan

\* Only the command that publishes a generation sets one, and what it has
\* checked establishes the plan: the kinds of its source and the form of its
\* hashes are those of a stream that parses.
LEMMA GenerateEstablishes ==
    ASSUME PreparedInv, NEW r \in Requests, Generate(r)
    PROVE  GenerationInv'
<1> DEFINE plan == PlanOf(r)
<1>1. PICK output : /\ ParsesAsGenerated(output) /\ VerifiesAgainst(output, plan)
                    /\ generation' = [plan |-> plan, output |-> output]
  BY DEF Generate
<1>2. IsPlan(plan.source, run.model, r.count, r.seed)
  BY DEF Generate
<1>3. /\ plan = GenerateDatasets(plan.source, run.model, r.design, r.count, r.seed)
      /\ r.kind = "fixed" => plan.source = Fixed(r.parameters)
      /\ r.kind = "model-prior" => plan.source = ModelPrior(run.model, Null)
      /\ r.kind = "posterior" => plan.source = PosteriorOf(run.model, run.data, run.posterior)
      /\ plan.model = run.model /\ plan.design = r.design
      /\ plan.count = r.count /\ plan.seed = r.seed
  BY PlanOfRequest
<1>4. r.kind = "posterior" => run.posterior # Null /\ run.data # Null
  BY DEF Generate, PreparedInv
<1> HIDE DEF plan
<1> DEFINE h == output.lines[1]
<1>5. /\ HeaderParses(h)
      /\ h.generation_model_hash = Hash(plan.model) /\ h.design_hash = Hash(plan.design)
      /\ SourceIsVerified(output, plan)
  BY <1>1 DEF ParsesAsGenerated, VerifiesAgainst
<1>6. /\ h.parameter_source = SourceDocument(plan.source)
      /\ h.parameter_source.kind = "fixed" => IsGenerationDoc(plan.source.parameters)
  BY <1>5 DEF SourceIsVerified
<1>7. /\ IsSourceDocument(SourceDocument(plan.source))
      /\ IsHash(Hash(plan.model)) /\ IsHash(Hash(plan.design))
  BY <1>5, <1>6 DEF HeaderParses
<1>8. PlannedSource(plan.source)
  <2>1. CASE r.kind = "fixed"
    <3>1. plan.source = Fixed(r.parameters)
      BY <2>1, <1>3
    <3>2. SourceDocument(plan.source).kind = "fixed"
      BY <3>1 DEF Fixed, SourceDocument
    <3>3. plan.source.parameters # Null
      BY <3>2, <1>6 DEF IsGenerationDoc
    <3> QED BY <3>1, <3>3 DEF PlannedSource, Fixed
  <2>2. CASE r.kind = "model-prior"
    BY <2>2, <1>3 DEF PlannedSource
  <2>3. CASE r.kind = "posterior"
    BY <2>3, <1>3, <1>4 DEF PlannedSource
  <2> QED BY <2>1, <2>2, <2>3, RequestsAssumption
<1>9. Published(plan)
  BY <1>2, <1>3, <1>7, <1>8 DEF Published
<1> QED BY <1>1, <1>9 DEF GenerationInv

LEMMA GenerationStep == PreparedInv /\ GenerationInv /\ [Next]_vars => GenerationInv'
<1> SUFFICES ASSUME PreparedInv, GenerationInv, [Next]_vars PROVE GenerationInv'
  OBVIOUS
<1>1. CASE UNCHANGED generation
  BY <1>1 DEF GenerationInv
<1>2. ASSUME NEW r \in Requests, Generate(r) PROVE GenerationInv'
  BY <1>2, GenerateEstablishes
<1>3. ASSUME NEW i \in Inputs, Prepare(i) PROVE UNCHANGED generation
  BY <1>3 DEF Prepare
<1>4. ASSUME NEW f \in Fits, Sample(f) PROVE UNCHANGED generation
  BY <1>4 DEF Sample
<1>5. ASSUME NEW f \in Fits, NEW data, Exchange(f, data) PROVE UNCHANGED generation
  BY <1>5 DEF Exchange
<1>6. ASSUME NEW s \in Simulations, Simulate(s) PROVE UNCHANGED generation
  BY <1>6 DEF Simulate
<1>7. CASE Predict
  BY <1>7, <1>1 DEF Predict
<1>8. ASSUME NEW a, NEW kind, NEW files, Damage(a, kind, files) PROVE UNCHANGED generation
  BY <1>8 DEF Damage
<1>9. CASE ExportRun
  BY <1>9, <1>1 DEF ExportRun
<1>10. CASE UNCHANGED vars
  BY <1>10, <1>1 DEF vars
<1> QED BY <1>1, <1>2, <1>3, <1>4, <1>5, <1>6, <1>7, <1>8, <1>9, <1>10 DEF Next

LEMMA Generations == Spec => [](PreparedInv /\ GenerationInv)
<1>1. Init => PreparedInv /\ GenerationInv
  BY PreparedInit DEF Init, GenerationInv
<1>2. PreparedInv /\ GenerationInv /\ [Next]_vars => (PreparedInv /\ GenerationInv)'
  BY PreparedStep, GenerationStep
<1> QED BY <1>1, <1>2, PTL DEF Spec

\* A published generation loads again as the plan it was made for, and with no
\* other model, design or source beside its plan document
\* (generation_plan.py), whatever the run was prepared from, whatever happened
\* to its files before the command and whatever the engine returned.
THEOREM GenerationsReloadAlways == Spec => []GenerationsReload
<1>1. PreparedInv /\ GenerationInv => GenerationsReload
  BY GenerationMatters
<1> QED BY <1>1, Generations, PTL

-----------------------------------------------------------------------------
(***************************************************************************)
(* The posterior stream.  Every line carries the kind, the count and, for  *)
(* a draw, the index that place it, so of the lines of one stream the      *)
(* strict reader accepts only all of them in their order; a damaged field  *)
(* is refused or says nothing of the fit; a line of a fit with another     *)
(* seed or size disagrees with the header or the trailer.                  *)
(***************************************************************************)

\* Numbers.
LEMMA LeastNumber == ASSUME NEW S \in SUBSET Nat, S # {} PROVE \E n \in S : \A m \in S : n <= m
<1> DEFINE T == {0..n : n \in S}
<1>1. T \subseteq FiniteSubsetsOf(Nat)
  <2> SUFFICES ASSUME NEW n \in S PROVE 0..n \in FiniteSubsetsOf(Nat)
    OBVIOUS
  <2>1. IsFiniteSet(0..n)
    BY FS_Interval
  <2> QED BY <2>1 DEF FiniteSubsetsOf
<1>2. PICK x \in T : \A y \in T : <<y, x>> \notin StrictSubsetOrdering(Nat)
  <2>1. T # {}
    OBVIOUS
  <2> HIDE DEF T
  <2> QED BY <1>1, <2>1, FS_StrictSubsetOrderingWellFounded, WFMin
<1>3. PICK n \in S : x = 0..n
  BY <1>2
<1>4. ASSUME NEW m \in S, m < n PROVE FALSE
  <2>1. <<0..m, 0..n>> \notin StrictSubsetOrdering(Nat)
    BY <1>2, <1>3
  <2>2. 0..m \in SUBSET (0..n) /\ n \in 0..n /\ n \notin 0..m
    BY <1>4
  <2> QED BY <2>1, <2>2 DEF StrictSubsetOrdering
<1> QED BY <1>4

LEMMA Division ==
    ASSUME NEW D \in Nat \ {0}, NEW i \in Nat
    PROVE  /\ i \div D \in Nat /\ (i % D) \in 0..D - 1
           /\ i = (i \div D) * D + (i % D)
  OBVIOUS
LEMMA DivisionBound ==
    ASSUME NEW C \in Nat, NEW D \in Nat \ {0}, NEW i \in 0..C * D - 1
    PROVE  i \div D \in 0..C - 1
<1>1. i \in Nat
  OBVIOUS
<1>2. i \div D \in Nat /\ (i % D) \in 0..D - 1 /\ i = (i \div D) * D + (i % D)
  BY <1>1, Division
<1> DEFINE q == i \div D
<1> DEFINE r == i % D
<1>3. q \in Nat /\ r \in 0..D - 1 /\ i = q * D + r
  BY <1>2
<1> HIDE DEF q, r
<1>4. ASSUME q >= C PROVE FALSE
  <2>1. q * D >= C * D
    BY <1>3, <1>4
  <2> QED BY <1>3, <2>1
<1> QED BY <1>3, <1>4 DEF q
LEMMA DivisionUnique ==
    ASSUME NEW D \in Nat \ {0}, NEW q \in Nat, NEW r \in 0..D - 1
    PROVE  (q * D + r) \div D = q /\ ((q * D + r) % D) = r
  OBVIOUS
LEMMA Cancellation ==
    ASSUME NEW C \in Nat \ {0}, NEW D \in Nat, NEW E \in Nat, C * D = C * E
    PROVE  D = E
  OBVIOUS

LEMMA Framed ==
    ASSUME NEW S, NEW a \in S, NEW b \in S, NEW m \in Seq(S)
    PROVE  LET s == <<a>> \o m \o <<b>>
           IN  /\ s \in Seq(S) /\ Len(s) = Len(m) + 2 /\ DOMAIN s = 1..Len(m) + 2
               /\ s[1] = a /\ s[Len(m) + 2] = b /\ \A k \in 1..Len(m) : s[k + 1] = m[k]
<1>1. <<a>> \in Seq(S) /\ <<b>> \in Seq(S)
  OBVIOUS
<1>2. /\ <<a>> \o m \in Seq(S) /\ Len(<<a>> \o m) = Len(m) + 1
      /\ (<<a>> \o m)[1] = a /\ \A k \in 1..Len(m) : (<<a>> \o m)[k + 1] = m[k]
  BY <1>1, ConcatProperties
<1> QED BY <1>1, <1>2, ConcatProperties

\* What each line of a stream carries of its fit.
Stamp(f) == <<f.settings.seed, f.settings.chains, f.settings.draws>>

\* The stream of a fit, and its lines.
StreamOf(f, fp) == WritePosterior(f.bound, f.result, f.settings, fp)
Total(f) == f.settings.chains * f.settings.draws
HeaderOf(f, fp) == HeaderLine(f.bound, f.settings, fp)
DrawOf(f, k) == DrawLine(f.bound, f.result, f.settings, (k - 1) \div f.settings.draws, (k - 1) % f.settings.draws)
TrailerOf(f, fp) == TrailerLine(f.bound, f.result, f.settings, fp)
LinesOf(f, fp) == {HeaderOf(f, fp), TrailerOf(f, fp)} \cup {DrawOf(f, k) : k \in 1..Total(f)}

LEMMA DrawsArePositive == \A f \in WritableFits : Total(f) \in Nat \ {0}
<1> SUFFICES ASSUME NEW f \in WritableFits PROVE Total(f) \in Nat \ {0}
  OBVIOUS
<1>1. ASSUME NEW C \in Nat \ {0}, NEW D \in Nat \ {0} PROVE C * D \in Nat \ {0}
  BY <1>1
<1> QED BY <1>1, FitsAssumption DEF Total

LEMMA StreamLines ==
    ASSUME NEW f \in WritableFits, NEW fp
    PROVE  LET s == StreamOf(f, fp).lines
           IN  /\ StreamOf(f, fp) = [lines |-> s, ended |-> TRUE]
               /\ s \in Seq(LinesOf(f, fp))
               /\ Len(s) = Total(f) + 2 /\ DOMAIN s = 1..Total(f) + 2
               /\ s[1] = HeaderOf(f, fp) /\ s[Total(f) + 2] = TrailerOf(f, fp)
               /\ \A k \in 1..Total(f) : s[k + 1] = DrawOf(f, k)
<1> DEFINE m == [k \in 1..Total(f) |-> DrawOf(f, k)]
<1> DEFINE s == PosteriorDocuments(f.bound, f.result, f.settings, fp)
<1>1. Total(f) \in Nat
  BY DrawsArePositive
<1>2. s = <<HeaderOf(f, fp)>> \o m \o <<TrailerOf(f, fp)>>
  BY DEF PosteriorDocuments, HeaderOf, TrailerOf, DrawOf, Total
<1>3. StreamOf(f, fp) = [lines |-> s, ended |-> TRUE]
  BY DEF StreamOf, WritePosterior
<1>4. m \in [1..Total(f) -> LinesOf(f, fp)] /\ \A k \in 1..Total(f) : m[k] = DrawOf(f, k)
  BY DEF LinesOf
<1> HIDE DEF m, s
<1>5. m \in Seq(LinesOf(f, fp)) /\ Len(m) = Total(f)
  BY <1>1, <1>4, SeqDef, LenProperties
<1>6. HeaderOf(f, fp) \in LinesOf(f, fp) /\ TrailerOf(f, fp) \in LinesOf(f, fp)
  BY DEF LinesOf
<1>7. /\ s \in Seq(LinesOf(f, fp)) /\ Len(s) = Total(f) + 2 /\ DOMAIN s = 1..Total(f) + 2
      /\ s[1] = HeaderOf(f, fp) /\ s[Total(f) + 2] = TrailerOf(f, fp)
      /\ \A k \in 1..Total(f) : s[k + 1] = m[k]
  BY <1>2, <1>5, <1>6, Framed
<1> QED BY <1>3, <1>4, <1>7

\* What the lines say.
LEMMA HeaderFields ==
    ASSUME NEW f, NEW fp
    PROVE  LET h == HeaderOf(f, fp)
           IN  /\ {"draw_index", "trailer"} \cap DOMAIN h = {}
               /\ h = [x \in DOMAIN h |-> h[x]]
               /\ h.params = [k \in DOMAIN f.bound |->
                               [name |-> f.bound[k].name, shape |-> f.bound[k].shape,
                                coordinate_order |-> CoordinateOrder(f.bound[k].shape)]]
               /\ h.settings.num_draws = f.settings.draws /\ h.seed = f.settings.seed
               /\ h.chain_count = f.settings.chains /\ h.chain_order = UpTo(f.settings.chains)
               /\ h.draw_count = Total(f) /\ h.sample_stats_mode = "per_draw_v2"
  BY DEF HeaderOf, HeaderLine, Joined, Marked, Total
LEMMA DrawFields ==
    ASSUME NEW f, NEW k
    PROVE  LET d == DrawOf(f, k)
           IN  /\ {"params", "trailer"} \cap DOMAIN d = {}
               /\ d = [x \in DOMAIN d |-> d[x]]
               /\ d.draw_index = ((k - 1) \div f.settings.draws) * f.settings.draws + ((k - 1) % f.settings.draws)
               /\ d.seed = f.settings.seed /\ d.chain_count = f.settings.chains
               /\ d.draw_count = Total(f)
               /\ d.values = [j \in DOMAIN f.bound |->
                    [name |-> f.bound[j].name,
                     value |-> ParameterValue(
                       f.result.samples[f.bound[j].name][((k - 1) \div f.settings.draws) + 1][((k - 1) % f.settings.draws) + 1],
                       f.bound[j].shape)]]
  BY DEF DrawOf, DrawLine, Joined, Marked, Total
LEMMA TrailerFields ==
    ASSUME NEW f, NEW fp
    PROVE  LET e == TrailerOf(f, fp)
           IN  /\ DOMAIN e = {"trailer"} /\ e = [trailer |-> e.trailer]
               /\ e.trailer = [x \in DOMAIN e.trailer |-> e.trailer[x]]
               /\ e.trailer.seed = f.settings.seed /\ e.trailer.chain_count = f.settings.chains
               /\ e.trailer.draws_per_chain = f.settings.draws
  BY DEF TrailerOf, TrailerLine, Joined, Marked

\* What the strict reader has checked of a file it accepts.
LEMMA PortableSays ==
    ASSUME NEW file, NEW S, file.lines \in Seq(S), NEW model, NEW data, Portable(file, model, data),
           NEW n, n = Len(file.lines) - 2
    PROVE  LET h == file.lines[1]
               t == file.lines[n + 2].trailer
           IN  /\ n \in Nat \ {0} /\ DOMAIN file.lines = 1..n + 2 /\ file.ended
               /\ \A k \in 1..n + 2 : file.lines[k] # Blank
               /\ DOMAIN file.lines[n + 2] = {"trailer"} /\ t \notin {Null, Other}
               /\ Marker(h) /\ HeaderIsSound(h) /\ h.draw_count = n
               /\ TrailerAgrees(h, t)
               /\ \A k \in 1..n : DrawIsSound(h, file.lines[k + 1], k - 1)
<1> DEFINE s == file.lines
<1> DEFINE h == s[1]
<1> DEFINE t == s[n + 2].trailer
<1> DEFINE draws == SubSeq(s, 2, Len(s) - 1)
<1>1. /\ s \in Seq(S) /\ DOMAIN s = 1..Len(s) /\ Len(s) \in Nat /\ n = Len(s) - 2
  BY LenProperties
<1>2. Len(s) >= 3 /\ n \in Nat \ {0} /\ Len(s) = n + 2
  BY <1>1 DEF Portable
<1>3. Head(s) = h /\ Last(s) = s[n + 2]
  BY <1>1, <1>2 DEF Last
<1>4. Len(draws) = n /\ DOMAIN draws = 1..n /\ \A k \in 1..n : draws[k] = s[k + 1]
  BY <1>1, <1>2
<1>5. /\ file.ended /\ \A k \in DOMAIN s : s[k] # Blank
      /\ DOMAIN s[n + 2] = {"trailer"} /\ t \notin {Null, Other}
      /\ Marker(h) /\ HeaderIsSound(h) /\ h.draw_count = Len(draws)
      /\ TrailerAgrees(h, t)
      /\ \A k \in DOMAIN draws : DrawIsSound(h, draws[k], k - 1)
  BY <1>3 DEF Portable
<1> HIDE DEF s, draws, h, t
<1>6. \A k \in 1..n : DrawIsSound(h, s[k + 1], k - 1)
  BY <1>4, <1>5
<1> QED BY <1>1, <1>2, <1>4, <1>5, <1>6 DEF s, h, t

LEMMA Present == \A d, x : Get(d, x) # Null => x \in DOMAIN d /\ Get(d, x) = d[x]
  BY DEF Get

LEMMA HeaderSays ==
    ASSUME NEW h, HeaderIsSound(h)
    PROVE  /\ {"params", "settings", "chain_order", "sample_stats_mode"} \subseteq DOMAIN h
           /\ h.params \notin {Null, Other} /\ h.settings \notin {Null, Other}
           /\ h.chain_order \notin {Null, Other} /\ h.sample_stats_mode \notin {Null, Other}
           /\ h.chain_count = Len(h.chain_order)
           /\ h.draw_count = h.chain_count * h.settings.num_draws
<1>1. "params" \in DOMAIN h /\ h.params \notin {Null, Other}
  BY Present DEF HeaderIsSound, ParametersAreSound, Listed
<1>2. "settings" \in DOMAIN h /\ h.settings \notin {Null, Other}
  BY Present DEF HeaderIsSound, SettingsAreSound
<1>3. "chain_order" \in DOMAIN h /\ h.chain_order \notin {Null, Other}
  BY Present DEF HeaderIsSound, SafeIntegers, Listed
<1>4. "sample_stats_mode" \in DOMAIN h /\ h.sample_stats_mode \notin {Null, Other}
  BY Present DEF HeaderIsSound, IsOneOf
<1> QED BY <1>1, <1>2, <1>3, <1>4 DEF HeaderIsSound

LEMMA DrawSays ==
    ASSUME NEW h, NEW d, NEW index, DrawIsSound(h, d, index)
    PROVE  /\ {"draw_index", "chain", "draw", "values", "seed", "chain_count", "draw_count"} \subseteq DOMAIN d
           /\ d.draw_index = index /\ d.seed = h.seed
           /\ d.chain_count = h.chain_count /\ d.draw_count = h.draw_count
           /\ d.chain = h.chain_order[(index \div h.settings.num_draws) + 1]
           /\ d.draw = index % h.settings.num_draws
           /\ d.values \notin {Null, Other}
<1>1. \A x, n : Agrees(d, x, n) => x \in DOMAIN d /\ d[x] = n
  BY Present DEF Agrees, SafeInteger
<1>2. "draw_index" \in DOMAIN d /\ d.draw_index = index
  BY <1>1 DEF DrawIsSound
<1>3. "seed" \in DOMAIN d /\ d.seed = h.seed
  BY <1>1 DEF DrawIsSound
<1>4. "chain_count" \in DOMAIN d /\ d.chain_count = h.chain_count
  BY <1>1 DEF DrawIsSound
<1>5. "draw_count" \in DOMAIN d /\ d.draw_count = h.draw_count
  BY <1>1 DEF DrawIsSound
<1>6. "chain" \in DOMAIN d /\ d.chain = h.chain_order[(index \div h.settings.num_draws) + 1]
  BY <1>1 DEF DrawIsSound
<1>7. "draw" \in DOMAIN d /\ d.draw = index % h.settings.num_draws
  BY <1>1 DEF DrawIsSound
<1>8. "values" \in DOMAIN d /\ d.values \notin {Null, Other}
  BY Present DEF DrawIsSound
<1> QED BY <1>2, <1>3, <1>4, <1>5, <1>6, <1>7, <1>8

LEMMA TrailerSays ==
    ASSUME NEW h, NEW t, TrailerAgrees(h, t)
    PROVE  /\ t.seed = h.seed /\ t.chain_count = h.chain_count
           /\ t.draws_per_chain = h.settings.num_draws
           /\ {"seed", "chain_count", "draws_per_chain", "draw_count"} \subseteq DOMAIN t
           /\ t.draw_count = h.draw_count
           /\ \A x \in {"draw_count", "draws_per_chain"} : t[x] \notin {Null, Other}
<1>1. \A x, n : Agrees(t, x, n) => x \in DOMAIN t /\ t[x] = n /\ t[x] \notin {Null, Other}
  BY Present DEF Agrees, SafeInteger
<1>2. "seed" \in DOMAIN t /\ t.seed = h.seed
  BY <1>1 DEF TrailerAgrees
<1>3. "chain_count" \in DOMAIN t /\ t.chain_count = h.chain_count
  BY <1>1 DEF TrailerAgrees
<1>4. /\ "draws_per_chain" \in DOMAIN t /\ t.draws_per_chain = h.settings.num_draws
      /\ t.draws_per_chain \notin {Null, Other}
  BY <1>1 DEF TrailerAgrees
<1>5. "draw_count" \in DOMAIN t /\ t.draw_count = h.draw_count /\ t.draw_count \notin {Null, Other}
  BY <1>1 DEF TrailerAgrees
<1> QED BY <1>2, <1>3, <1>4, <1>5

\* A line that is another one but for integers and fields of another type.
Altered(d, w) ==
  \A x \in DOMAIN d : x \in DOMAIN w /\ (x \notin IntegerFields => d[x] \in {w[x], Other})

\* The cells of parameter j in draw k of a fit.
CellsAt(f, j, k) ==
  f.result.samples[f.bound[j].name][((k - 1) \div f.settings.draws) + 1][((k - 1) % f.settings.draws) + 1]
\* A file with the parameters and draws of a fit, in its order.
Tells(file, f) ==
  LET h == file.lines[1]
  IN  /\ Len(file.lines) = Total(f) + 2
      /\ h.params = HeaderOf(f, Null).params
      /\ h.settings.num_draws = f.settings.draws
      /\ h.chain_count = f.settings.chains /\ h.chain_order = UpTo(f.settings.chains)
      /\ h.draw_count = Total(f) /\ h.sample_stats_mode = "per_draw_v2"
      /\ \A k \in 1..Total(f) : file.lines[k + 1].values = DrawOf(f, k).values

LEMMA AlteredTells ==
    ASSUME NEW f \in WritableFits, NEW fp, NEW file, NEW S, file.lines \in Seq(S),
           NEW model, NEW data, Portable(file, model, data),
           Len(file.lines) = Total(f) + 2,
           \A k \in 1..Total(f) + 1 : Altered(file.lines[k], StreamOf(f, fp).lines[k])
    PROVE  Tells(file, f)
<1> DEFINE n == Total(f)
<1> DEFINE h == file.lines[1]
<1> DEFINE w == HeaderOf(f, fp)
<1>1. n \in Nat \ {0} /\ n = Len(file.lines) - 2
  BY DrawsArePositive
<1>2. /\ HeaderIsSound(h) /\ h.draw_count = n
      /\ \A k \in 1..n : DrawIsSound(h, file.lines[k + 1], k - 1)
  BY <1>1, PortableSays
<1>3. Altered(h, w) /\ \A k \in 1..n : Altered(file.lines[k + 1], DrawOf(f, k))
  <2> DEFINE s == StreamOf(f, fp).lines
  <2>1. s[1] = w /\ \A k \in 1..n : s[k + 1] = DrawOf(f, k)
    BY StreamLines
  <2>2. \A k \in 1..n + 1 : Altered(file.lines[k], s[k])
    OBVIOUS
  <2> HIDE DEF s, n, w
  <2>3. Altered(h, w)
    BY <1>1, <2>1, <2>2
  <2>4. ASSUME NEW k \in 1..n PROVE Altered(file.lines[k + 1], DrawOf(f, k))
    <3>1. k + 1 \in 1..n + 1
      BY <1>1
    <3> QED BY <3>1, <2>1, <2>2
  <2> QED BY <2>3, <2>4
<1> HIDE DEF n, h, w
<1>4. \A x \in {"params", "settings", "chain_order", "sample_stats_mode"} : h[x] = w[x]
  BY <1>2, <1>3, HeaderSays DEF Altered, IntegerFields
<1>5. /\ h.params = w.params /\ h.settings = w.settings /\ h.chain_order = w.chain_order
      /\ h.sample_stats_mode = w.sample_stats_mode
  BY <1>4
<1>6. /\ w.settings.num_draws = f.settings.draws /\ w.chain_order = UpTo(f.settings.chains)
      /\ w.sample_stats_mode = "per_draw_v2" /\ w.params = HeaderOf(f, Null).params
  BY HeaderFields DEF w
<1>7. Len(UpTo(f.settings.chains)) = f.settings.chains
  BY FitsAssumption DEF UpTo
<1>8. h.chain_count = f.settings.chains
  BY <1>2, <1>5, <1>6, <1>7, HeaderSays
<1>9. ASSUME NEW k \in 1..n PROVE file.lines[k + 1].values = DrawOf(f, k).values
  <2>1. "values" \in DOMAIN file.lines[k + 1] /\ file.lines[k + 1].values # Other
    BY <1>2, DrawSays
  <2> QED BY <2>1, <1>3 DEF Altered, IntegerFields
<1> QED BY <1>1, <1>2, <1>5, <1>6, <1>8, <1>9 DEF Tells, n, h

\* A line is known by the fields it has.
LEMMA LineKinds ==
    ASSUME NEW f, NEW fp, NEW x \in LinesOf(f, fp)
    PROVE  /\ "params" \in DOMAIN x => x = HeaderOf(f, fp)
           /\ "draw_index" \in DOMAIN x => \E k \in 1..Total(f) : x = DrawOf(f, k)
           /\ "trailer" \in DOMAIN x => x = TrailerOf(f, fp)
<1>1. CASE x = HeaderOf(f, fp)
  BY <1>1, HeaderFields
<1>2. CASE x = TrailerOf(f, fp)
  <2>1. DOMAIN TrailerOf(f, fp) = {"trailer"}
    BY TrailerFields
  <2>2. "params" \notin DOMAIN x /\ "draw_index" \notin DOMAIN x
    BY <1>2, <2>1
  <2> QED BY <1>2, <2>2
<1>3. CASE \E k \in 1..Total(f) : x = DrawOf(f, k)
  BY <1>3, DrawFields
<1> QED BY <1>1, <1>2, <1>3 DEF LinesOf

LEMMA DrawIndex ==
    ASSUME NEW f \in WritableFits, NEW k \in 1..Total(f)
    PROVE  DrawOf(f, k).draw_index = k - 1
<1>1. k - 1 \in Nat /\ f.settings.draws \in Nat \ {0}
  BY DrawsArePositive, FitsAssumption
<1>2. k - 1 = ((k - 1) \div f.settings.draws) * f.settings.draws + ((k - 1) % f.settings.draws)
  BY <1>1, Division
<1> QED BY <1>2, DrawFields

\* Of the lines of one stream, lost, repeated, moved or blank, the strict reader
\* accepts only all of them in their order.
LEMMA OwnLinesAreWhole ==
    ASSUME NEW f \in WritableFits, NEW fp, NEW file, file.lines \in Seq(LinesOf(f, fp) \cup {Blank}),
           NEW model, NEW data, Portable(file, model, data)
    PROVE  file.lines = StreamOf(f, fp).lines
<1> DEFINE s == file.lines
<1> DEFINE w == StreamOf(f, fp).lines
<1> DEFINE S == LinesOf(f, fp) \cup {Blank}
<1> DEFINE n == Len(s) - 2
<1> DEFINE m == Total(f)
<1>1. /\ n \in Nat \ {0} /\ DOMAIN s = 1..n + 2 /\ \A k \in 1..n + 2 : s[k] # Blank
      /\ DOMAIN s[n + 2] = {"trailer"} /\ HeaderIsSound(s[1]) /\ s[1].draw_count = n
      /\ \A k \in 1..n : DrawIsSound(s[1], s[k + 1], k - 1)
  BY PortableSays
<1>2. m \in Nat \ {0} /\ w \in Seq(S) /\ Len(w) = m + 2
      /\ w[1] = HeaderOf(f, fp) /\ w[m + 2] = TrailerOf(f, fp)
      /\ \A k \in 1..m : w[k + 1] = DrawOf(f, k)
  <2>1. w \in Seq(LinesOf(f, fp))
    BY StreamLines
  <2>2. w \in Seq(S)
    BY <2>1, SeqMonotonic
  <2> QED BY <2>2, StreamLines, DrawsArePositive
<1>3. s \in Seq(S) /\ Len(s) = n + 2
  <2>1. Len(s) \in Nat
    BY LenProperties
  <2> QED BY <2>1
<1>4. \A k \in 1..n + 2 : s[k] \in LinesOf(f, fp)
  BY <1>1, <1>3, ElementOfSeq
<1> HIDE DEF s, w, n, m
<1>5. s[1] = HeaderOf(f, fp)
  <2>1. "params" \in DOMAIN s[1]
    BY <1>1, HeaderSays
  <2> QED BY <2>1, <1>1, <1>4, LineKinds
<1>6. n = m
  BY <1>1, <1>5, HeaderFields DEF m
<1>7. s[n + 2] = TrailerOf(f, fp)
  BY <1>1, <1>4, LineKinds
<1>8. ASSUME NEW k \in 1..n PROVE s[k + 1] = DrawOf(f, k)
  <2>1. "draw_index" \in DOMAIN s[k + 1] /\ s[k + 1].draw_index = k - 1
    BY <1>1, DrawSays
  <2>2. k + 1 \in 1..n + 2 /\ k \in Int
    BY <1>1
  <2>3. PICK j \in 1..Total(f) : s[k + 1] = DrawOf(f, j)
    BY <2>1, <2>2, <1>4, LineKinds
  <2>4. j - 1 = k - 1 /\ j \in Int
    BY <2>1, <2>3, DrawIndex
  <2> QED BY <2>2, <2>3, <2>4
<1>9. ASSUME NEW i \in 1..Len(s) PROVE s[i] = w[i]
  <2>1. CASE i = 1
    BY <2>1, <1>2, <1>5
  <2>2. CASE i = n + 2
    BY <2>2, <1>2, <1>6, <1>7
  <2>3. CASE i # 1 /\ i # n + 2
    <3>1. i - 1 \in 1..n /\ i = (i - 1) + 1
      BY <2>3, <1>1, <1>3
    <3> QED BY <3>1, <1>2, <1>6, <1>8
  <2> QED BY <2>1, <2>2, <2>3
<1>10. Len(s) = Len(w)
  BY <1>2, <1>3, <1>6
<1> HIDE DEF S
<1>11. s = w
  BY <1>2, <1>3, <1>9, <1>10, SeqEqual
<1> QED BY <1>11 DEF s, w

LEMMA HeaderStamp ==
    ASSUME NEW f, NEW fp
    PROVE  /\ HeaderOf(f, fp).seed = f.settings.seed
           /\ HeaderOf(f, fp).chain_count = f.settings.chains
           /\ HeaderOf(f, fp).draw_count = Total(f)
  BY HeaderFields
LEMMA DrawStamp ==
    ASSUME NEW f, NEW k
    PROVE  /\ DrawOf(f, k).seed = f.settings.seed
           /\ DrawOf(f, k).chain_count = f.settings.chains
           /\ DrawOf(f, k).draw_count = Total(f)
  BY DrawFields
LEMMA SameStamp ==
    ASSUME NEW f, NEW fp, NEW g, NEW fq, TrailerAgrees(HeaderOf(f, fp), TrailerOf(g, fq).trailer)
    PROVE  Stamp(f) = Stamp(g)
<1> DEFINE h == HeaderOf(f, fp)
<1> DEFINE t == TrailerOf(g, fq).trailer
<1>1. /\ h.settings.num_draws = f.settings.draws /\ h.seed = f.settings.seed
      /\ h.chain_count = f.settings.chains
  BY HeaderFields
<1>2. /\ t.seed = g.settings.seed /\ t.chain_count = g.settings.chains
      /\ t.draws_per_chain = g.settings.draws
  BY TrailerFields
<1>3. TrailerAgrees(h, t)
  OBVIOUS
<1> HIDE DEF h, t
<1>4. t.seed = h.seed /\ t.chain_count = h.chain_count /\ t.draws_per_chain = h.settings.num_draws
  BY <1>3, TrailerSays
<1> QED BY <1>1, <1>2, <1>4 DEF Stamp

\* One line of another fit of the model is refused, wherever it stands.
LEMMA SpliceIsRefused ==
    ASSUME NEW f \in WritableFits, NEW g \in WritableFits, Stamp(g) # Stamp(f),
           NEW fp, NEW fq, NEW i \in 1..Total(f) + 2, NEW line \in LinesOf(g, fq),
           NEW file, file.lines = [StreamOf(f, fp).lines EXCEPT ![i] = line],
           NEW model, NEW data, Portable(file, model, data)
    PROVE  FALSE
<1> DEFINE s == file.lines
<1> DEFINE w == StreamOf(f, fp).lines
<1> DEFINE m == Total(f)
<1> DEFINE S == LinesOf(f, fp) \cup {line}
<1>1. m \in Nat \ {0} /\ w \in Seq(S) /\ Len(w) = m + 2
      /\ w[1] = HeaderOf(f, fp) /\ w[m + 2] = TrailerOf(f, fp)
  <2>1. w \in Seq(LinesOf(f, fp))
    BY StreamLines
  <2>2. w \in Seq(S)
    BY <2>1, SeqMonotonic
  <2> QED BY <2>2, StreamLines, DrawsArePositive
<1>2. s \in Seq(S) /\ Len(s) = m + 2 /\ \A j \in 1..m + 2 : s[j] = IF j = i THEN line ELSE w[j]
  <2>1. line \in S /\ i \in 1..Len(w) /\ s = [w EXCEPT ![i] = line]
    BY <1>1
  <2> HIDE DEF S, s, w, m
  <2> QED BY <1>1, <2>1, ExceptSeq
<1>3. /\ HeaderIsSound(s[1]) /\ TrailerAgrees(s[1], s[m + 2].trailer)
      /\ DOMAIN s[m + 2] = {"trailer"}
      /\ \A k \in 1..m : DrawIsSound(s[1], s[k + 1], k - 1)
  <2>1. m = Len(s) - 2
    BY <1>1, <1>2
  <2> HIDE DEF S, m
  <2> QED BY <1>2, <2>1, PortableSays
<1> HIDE DEF s, w, S
<1>4. Stamp(f) = Stamp(g) => FALSE
  OBVIOUS
<1>5. CASE i = 1
  <2>1. s[1] = line /\ s[m + 2] = TrailerOf(f, fp)
    BY <1>1, <1>2, <1>5
  <2>2. s[1] = HeaderOf(g, fq)
    BY <1>3, <2>1, HeaderSays, LineKinds
  <2>3. Stamp(f) = Stamp(g)
    BY <1>3, <2>1, <2>2, SameStamp
  <2> QED BY <1>4, <2>3
<1>6. CASE i = m + 2
  <2>1. s[1] = HeaderOf(f, fp) /\ s[m + 2] = line
    BY <1>1, <1>2, <1>6
  <2>2. s[m + 2] = TrailerOf(g, fq)
    BY <1>3, <2>1, LineKinds
  <2>3. Stamp(f) = Stamp(g)
    BY <1>3, <2>1, <2>2, SameStamp
  <2> QED BY <1>4, <2>3
<1>7. CASE i \in 2..m + 1
  <2>1. i - 1 \in 1..m /\ (i - 1) + 1 = i /\ s[1] = HeaderOf(f, fp) /\ s[i] = line
    BY <1>1, <1>2, <1>7
  <2>2. DrawIsSound(s[1], s[i], i - 2)
    BY <1>1, <1>3, <1>7, <2>1
  <2>3. PICK k \in 1..Total(g) : s[i] = DrawOf(g, k)
    BY <2>1, <2>2, DrawSays, LineKinds
  <2>4. /\ s[i].seed = s[1].seed /\ s[i].chain_count = s[1].chain_count
        /\ s[i].draw_count = s[1].draw_count
    BY <2>2, DrawSays
  <2>5. /\ s[i].seed = g.settings.seed /\ s[i].chain_count = g.settings.chains
        /\ s[i].draw_count = Total(g)
    BY <2>3, DrawStamp
  <2>6. /\ s[1].seed = f.settings.seed /\ s[1].chain_count = f.settings.chains
        /\ s[1].draw_count = Total(f)
    BY <2>1, HeaderStamp
  <2>7. Total(g) = Total(f) /\ g.settings.chains = f.settings.chains /\ g.settings.seed = f.settings.seed
    BY <2>4, <2>5, <2>6
  <2>8. g.settings.draws = f.settings.draws
    <3>1. /\ f.settings.chains \in Nat \ {0} /\ f.settings.draws \in Nat /\ g.settings.draws \in Nat
          /\ f.settings.chains * f.settings.draws = f.settings.chains * g.settings.draws
      BY <2>7, FitsAssumption DEF Total
    <3> DEFINE C == f.settings.chains
    <3> DEFINE D == f.settings.draws
    <3> DEFINE E == g.settings.draws
    <3>2. C \in Nat \ {0} /\ D \in Nat /\ E \in Nat /\ C * D = C * E
      BY <3>1
    <3> HIDE DEF C, D, E
    <3>3. D = E
      BY <3>2, Cancellation
    <3> QED BY <3>3 DEF D, E
  <2> QED BY <1>4, <2>7, <2>8 DEF Stamp
<1> QED BY <1>1, <1>5, <1>6, <1>7

\* A damaged field leaves the line of the fit recognizable.
LEMMA DamagedFieldsAlter ==
    ASSUME NEW w, w = [x \in DOMAIN w |-> w[x]], NEW d \in DamagedFields(w)
    PROVE  Altered(d, w)
<1>1. CASE \E x \in DOMAIN w : d = Dropped(w, x)
  BY <1>1 DEF Dropped, Altered
<1>2. CASE \E x \in DOMAIN w : d = [w EXCEPT ![x] = Other]
  BY <1>2 DEF Altered
<1>3. CASE \E x \in DOMAIN w \cap IntegerFields : d = [w EXCEPT ![x] = @ + 1]
  <2>1. PICK x \in DOMAIN w \cap IntegerFields : d = [w EXCEPT ![x] = @ + 1]
    BY <1>3
  <2>2. DOMAIN d = DOMAIN w /\ \A y \in DOMAIN w \ {x} : d[y] = w[y]
    BY <2>1
  <2> QED BY <2>1, <2>2 DEF Altered
<1> QED BY <1>1, <1>2, <1>3 DEF DamagedFields

\* The damage of lines leaves lines of the file, in some order, or blank ones.
LEMMA DamagedLines ==
    ASSUME NEW T, NEW s \in Seq(T), NEW file \in LineDamage([lines |-> s, ended |-> TRUE])
    PROVE  file.lines \in Seq(T \cup {Blank})
<1> DEFINE w == [lines |-> s, ended |-> TRUE]
<1> DEFINE S == T \cup {Blank}
<1>1. w = [lines |-> s, ended |-> TRUE] /\ s \in Seq(S) /\ s = w.lines
  BY SeqMonotonic
<1>2. Blank \in S
  OBVIOUS
<1>3. file \in LineDamage(w)
  OBVIOUS
<1> HIDE DEF w, S
<1>4. DOMAIN s = 1..Len(s) /\ Len(s) \in Nat /\ \A i \in 1..Len(s) : s[i] \in S
  BY <1>1, LenProperties, ElementOfSeq
<1>5. \A m, n \in Int : 1 <= m /\ n <= Len(s) => SubSeq(s, m, n) \in Seq(S)
  <2> SUFFICES ASSUME NEW m \in Int, NEW n \in Int, 1 <= m, n <= Len(s)
               PROVE  SubSeq(s, m, n) \in Seq(S)
    OBVIOUS
  <2>1. \A i \in m..n : s[i] \in S
    BY <1>4
  <2> QED BY <2>1, SubSeqProperties
<1>6. ASSUME NEW i \in DOMAIN s PROVE RemoveAt(s, i) \in Seq(S)
  <2>1. SubSeq(s, 1, i - 1) \in Seq(S) /\ SubSeq(s, i + 1, Len(s)) \in Seq(S)
    BY <1>4, <1>5, <1>6
  <2> QED BY <2>1, ConcatProperties DEF RemoveAt
<1>7. ASSUME NEW i \in DOMAIN s, NEW x \in S PROVE InsertAt(s, i, x) \in Seq(S)
  <2>1. SubSeq(s, 1, i - 1) \in Seq(S) /\ SubSeq(s, i, Len(s)) \in Seq(S) /\ <<x>> \in Seq(S)
    BY <1>4, <1>5, <1>7
  <2>2. SubSeq(s, 1, i - 1) \o <<x>> \in Seq(S)
    BY <2>1, ConcatProperties
  <2> QED BY <2>1, <2>2, ConcatProperties DEF InsertAt
<1>8. ASSUME NEW i \in DOMAIN s, NEW j \in DOMAIN s PROVE Swapped(s, i, j) \in Seq(S)
  <2>1. s[i] \in S /\ s[j] \in S /\ i \in 1..Len(s) /\ j \in 1..Len(s)
    BY <1>4
  <2>2. [s EXCEPT ![i] = s[j]] \in Seq(S) /\ Len([s EXCEPT ![i] = s[j]]) = Len(s)
    BY <1>1, <2>1, ExceptSeq
  <2>3. [[s EXCEPT ![i] = s[j]] EXCEPT ![j] = s[i]] \in Seq(S)
    BY <2>1, <2>2, ExceptSeq
  <2>4. Swapped(s, i, j) = [[s EXCEPT ![i] = s[j]] EXCEPT ![j] = s[i]]
    BY DEF Swapped
  <2> QED BY <2>3, <2>4
<1>9. file.lines = s \/ (\E i \in DOMAIN s : file.lines = RemoveAt(s, i))
      \/ (\E i, j \in DOMAIN s : file.lines = InsertAt(s, i, s[j]))
      \/ (\E i, j \in DOMAIN s : file.lines = Swapped(s, i, j))
      \/ (\E i \in DOMAIN s : file.lines = InsertAt(s, i, Blank))
  BY <1>1, <1>3 DEF LineDamage
<1>10. file.lines \in Seq(S)
  BY <1>1, <1>2, <1>4, <1>6, <1>7, <1>8, <1>9
<1> QED BY <1>10 DEF S

LEMMA LineDamageLines ==
    ASSUME NEW f \in WritableFits, NEW fp, NEW file \in LineDamage(StreamOf(f, fp))
    PROVE  file.lines \in Seq(LinesOf(f, fp) \cup {Blank})
<1> DEFINE s == StreamOf(f, fp).lines
<1>1. s \in Seq(LinesOf(f, fp)) /\ file \in LineDamage([lines |-> s, ended |-> TRUE])
  BY StreamLines
<1> HIDE DEF s
<1> QED BY <1>1, DamagedLines

LEMMA OneLineChanged ==
    ASSUME NEW T, NEW w \in Seq(T), NEW i \in 1..Len(w), NEW x
    PROVE  /\ [w EXCEPT ![i] = x] \in Seq(T \cup {x}) /\ Len([w EXCEPT ![i] = x]) = Len(w)
           /\ \A k \in 1..Len(w) : [w EXCEPT ![i] = x][k] = IF k = i THEN x ELSE w[k]
<1> DEFINE S == T \cup {x}
<1>1. w \in Seq(S) /\ x \in S
  BY SeqMonotonic
<1> HIDE DEF S
<1>3. /\ [w EXCEPT ![i] = x] \in Seq(S) /\ Len([w EXCEPT ![i] = x]) = Len(w)
      /\ \A k \in 1..Len(w) : [w EXCEPT ![i] = x][k] = IF k = i THEN x ELSE w[k]
  BY <1>1, ExceptSeq
<1> QED BY <1>3 DEF S

\* A damaged field changes one line, which keeps the others of its fields.
LEMMA FieldDamageLine ==
    ASSUME NEW s, NEW file \in FieldDamage([lines |-> s, ended |-> TRUE])
    PROVE  \E i \in DOMAIN s : \E x :
             /\ file.lines = [s EXCEPT ![i] = x]
             /\ x \in DamagedFields(s[i]) \/ ("trailer" \in DOMAIN s[i] /\ DOMAIN x = {"trailer"})
<1> DEFINE w == [lines |-> s, ended |-> TRUE]
<1> DEFINE P == UNION {{<<i, d>> : d \in DamagedFields(s[i])} : i \in DOMAIN s}
<1> DEFINE Q == UNION {{<<i, d>> : d \in DamagedFields(s[i].trailer)} :
                         i \in {k \in DOMAIN s : "trailer" \in DOMAIN s[k]}}
<1>1. \A i, d : [w EXCEPT !.lines[i] = d].lines = [s EXCEPT ![i] = d]
  OBVIOUS
<1>2. w.lines = s /\ file \in FieldDamage(w)
  OBVIOUS
<1> HIDE DEF w
<1>3. file \in {[w EXCEPT !.lines[p[1]] = p[2]] : p \in P}
             \cup {[w EXCEPT !.lines[p[1]] = [trailer |-> p[2]]] : p \in Q}
  BY <1>2 DEF FieldDamage
<1>4. CASE file \in {[w EXCEPT !.lines[p[1]] = p[2]] : p \in P}
  <2>1. PICK p \in P : file = [w EXCEPT !.lines[p[1]] = p[2]]
    BY <1>4
  <2>2. PICK i \in DOMAIN s : p \in {<<i, d>> : d \in DamagedFields(s[i])}
    BY <2>1
  <2>3. PICK d \in DamagedFields(s[i]) : p = <<i, d>>
    BY <2>2
  <2>4. file = [w EXCEPT !.lines[i] = d]
    BY <2>1, <2>3
  <2> QED BY <2>3, <2>4, <1>1
<1>5. CASE file \in {[w EXCEPT !.lines[p[1]] = [trailer |-> p[2]]] : p \in Q}
  <2>1. PICK p \in Q : file = [w EXCEPT !.lines[p[1]] = [trailer |-> p[2]]]
    BY <1>5
  <2>2. PICK i \in {k \in DOMAIN s : "trailer" \in DOMAIN s[k]} :
           p \in {<<i, d>> : d \in DamagedFields(s[i].trailer)}
    BY <2>1
  <2>3. PICK d \in DamagedFields(s[i].trailer) : p = <<i, d>>
    BY <2>2
  <2> DEFINE x == [trailer |-> d]
  <2>4. file = [w EXCEPT !.lines[i] = x] /\ DOMAIN x = {"trailer"}
    BY <2>1, <2>3
  <2> HIDE DEF x
  <2> QED BY <2>2, <2>4, <1>1
<1> QED BY <1>3, <1>4, <1>5

\* Of a damaged field, either the strict reader tells or the fit is still told.
LEMMA FieldDamageTells ==
    ASSUME NEW f \in WritableFits, NEW fp, NEW file \in FieldDamage(StreamOf(f, fp)),
           NEW model, NEW data, Portable(file, model, data)
    PROVE  Tells(file, f)
<1> DEFINE w == StreamOf(f, fp)
<1> DEFINE s == w.lines
<1> DEFINE m == Total(f)
<1>1. /\ w = [lines |-> s, ended |-> TRUE] /\ DOMAIN s = 1..m + 2 /\ m \in Nat \ {0}
      /\ s[1] = HeaderOf(f, fp) /\ s[m + 2] = TrailerOf(f, fp)
      /\ \A k \in 1..m : s[k + 1] = DrawOf(f, k)
  BY StreamLines, DrawsArePositive
<1>2. file \in FieldDamage(w)
  OBVIOUS
<1> HIDE DEF w, s
<1>3. \E i \in DOMAIN s : \E x : /\ file.lines = [s EXCEPT ![i] = x]
                                 /\ x \in DamagedFields(s[i]) \/ ("trailer" \in DOMAIN s[i] /\ DOMAIN x = {"trailer"})
  BY <1>1, <1>2, FieldDamageLine
<1>4. PICK i \in 1..m + 2 : \E x : /\ file.lines = [s EXCEPT ![i] = x]
                                   /\ x \in DamagedFields(s[i]) \/ ("trailer" \in DOMAIN s[i] /\ DOMAIN x = {"trailer"})
  BY <1>1, <1>3
<1>5. PICK x : /\ file.lines = [s EXCEPT ![i] = x]
               /\ x \in DamagedFields(s[i]) \/ ("trailer" \in DOMAIN s[i] /\ DOMAIN x = {"trailer"})
  BY <1>4
<1>6. /\ file.lines \in Seq(LinesOf(f, fp) \cup {x}) /\ Len(file.lines) = m + 2
      /\ \A k \in 1..m + 2 : file.lines[k] = IF k = i THEN x ELSE s[k]
  <2>1. s \in Seq(LinesOf(f, fp)) /\ Len(s) = m + 2
    BY StreamLines DEF s, w
  <2> HIDE DEF m
  <2>2. /\ [s EXCEPT ![i] = x] \in Seq(LinesOf(f, fp) \cup {x})
        /\ Len([s EXCEPT ![i] = x]) = Len(s)
        /\ \A k \in 1..Len(s) : [s EXCEPT ![i] = x][k] = IF k = i THEN x ELSE s[k]
    BY <2>1, OneLineChanged
  <2> QED BY <2>1, <2>2, <1>5
<1>7. ASSUME NEW k \in 1..m + 1 PROVE s[k] = [y \in DOMAIN s[k] |-> s[k][y]] /\ "trailer" \notin DOMAIN s[k]
  <2>1. CASE k = 1
    <3>1. /\ HeaderOf(f, fp) = [y \in DOMAIN HeaderOf(f, fp) |-> HeaderOf(f, fp)[y]]
          /\ "trailer" \notin DOMAIN HeaderOf(f, fp)
      BY HeaderFields
    <3>2. s[k] = HeaderOf(f, fp)
      BY <2>1, <1>1
    <3> QED BY <3>1, <3>2
  <2>2. CASE k # 1
    <3>1. k - 1 \in 1..m /\ k = (k - 1) + 1
      BY <1>1, <2>2
    <3>2. s[k] = DrawOf(f, k - 1)
      BY <1>1, <3>1
    <3> DEFINE d == DrawOf(f, k - 1)
    <3>3. d = [y \in DOMAIN d |-> d[y]] /\ "trailer" \notin DOMAIN d
      BY DrawFields
    <3> QED BY <3>2, <3>3
  <2> QED BY <2>1, <2>2
<1>8. ASSUME NEW k \in 1..m + 1 PROVE Altered(file.lines[k], s[k])
  <2>1. k \in 1..m + 2
    BY <1>1
  <2>2. CASE k # i
    <3>1. file.lines[k] = s[k]
      BY <1>6, <2>1, <2>2
    <3> QED BY <3>1 DEF Altered
  <2>3. CASE k = i
    <3>1. file.lines[k] = x /\ x \in DamagedFields(s[k])
      BY <1>5, <1>6, <1>7, <2>1, <2>3
    <3> QED BY <3>1, <1>7, DamagedFieldsAlter
  <2> QED BY <2>2, <2>3
<1>9. \A k \in 1..Total(f) + 1 : Altered(file.lines[k], StreamOf(f, fp).lines[k])
  BY <1>8 DEF s, w
<1>10. file.lines \in Seq(LinesOf(f, fp) \cup {x}) /\ Len(file.lines) = Total(f) + 2
  BY <1>6
<1> QED BY <1>9, <1>10, AlteredTells

\* The value of a parameter: the readers read the cells it was written from.
LEMMA NoAxes == Product(<<>>) = 1
<1> DEFINE Folded(iter) ==
      iter = [s \in SUBSET (DOMAIN <<>>) |->
                IF s = {} THEN 1 ELSE LET x == Max(s) IN iter[s \ {x}] * <<>>[x]]
<1>1. Product(<<>>) = (CHOOSE iter : Folded(iter))[DOMAIN <<>>]
  BY DEF Product, FoldLeft, MapThenFoldSet
<1>2. Folded([s \in {{}} |-> 1])
  OBVIOUS
<1>3. Folded(CHOOSE iter : Folded(iter))
  BY <1>2
<1> DEFINE chosen == CHOOSE iter : Folded(iter)
<1>4. Folded(chosen)
  BY <1>3
<1> HIDE DEF chosen
<1>5. chosen[DOMAIN <<>>] = 1
  BY <1>4
<1> QED BY <1>1, <1>5 DEF chosen

LEMMA OneRow == ASSUME NEW x PROVE FlattenSeq(<<x>>) = x
<1> DEFINE Flat(g) == g = [i \in 1..1 |-> IF i = 1 THEN <<x>>[i] ELSE g[i - 1] \o <<x>>[i]]
<1> DEFINE flat == CHOOSE g : Flat(g)
<1>1. Flat([i \in 1..1 |-> x])
  OBVIOUS
<1>2. Flat(flat)
  BY <1>1
<1>3. FlattenSeq(<<x>>) = flat[1]
  BY DEF FlattenSeq
<1> HIDE DEF flat
<1>4. flat[1] = x
  BY <1>2
<1> QED BY <1>3, <1>4

IsRows(g, v, n) ==
  /\ g = [d \in 0..n |-> g[d]] /\ g[0] = <<v>>
  /\ \A d \in 1..n : g[d] = FlattenSeq([i \in DOMAIN g[d - 1] |-> g[d - 1][i].items])
LEMMA RowsAre == ASSUME NEW v, NEW n \in Nat, NEW g, IsRows(g, v, n) PROVE RowsAt(v, n) = g[n]
<1> USE DEF IsRows
<1> DEFINE Rows(r) == r = [d \in 0..n |-> IF d = 0 THEN <<v>>
                              ELSE FlattenSeq([i \in DOMAIN r[d - 1] |-> r[d - 1][i].items])]
<1> DEFINE rows == CHOOSE r : Rows(r)
<1>1. RowsAt(v, n) = rows[n]
  BY DEF RowsAt
<1>2. Rows(rows)
  <2>1. ASSUME NEW d \in 0..n
        PROVE  g[d] = IF d = 0 THEN <<v>>
                      ELSE FlattenSeq([i \in DOMAIN g[d - 1] |-> g[d - 1][i].items])
    <3>1. CASE d = 0
      BY <3>1
    <3>2. CASE d \in 1..n
      BY <3>2
    <3> QED BY <3>1, <3>2
  <2>2. Rows(g)
    BY <2>1
  <2> QED BY <2>2
<1> HIDE DEF rows
<1> DEFINE wrong == {d \in 0..n : rows[d] # g[d]}
<1>3. ASSUME wrong # {} PROVE FALSE
  <2>1. PICK d \in wrong : \A e \in wrong : d <= e
    <3>1. wrong \in SUBSET Nat
      OBVIOUS
    <3> HIDE DEF wrong
    <3> QED BY <1>3, <3>1, LeastNumber
  <2>2. d \in 0..n /\ rows[d] # g[d]
    OBVIOUS
  <2>3. d # 0
    BY <1>2, <2>2
  <2>4. d - 1 \in 0..n /\ d \in 1..n
    BY <2>2, <2>3
  <2>5. d - 1 \notin wrong
    <3> HIDE DEF wrong
    <3> QED BY <2>1, <2>2
  <2>6. rows[d - 1] = g[d - 1]
    BY <2>4, <2>5
  <2>7. rows[d] = FlattenSeq([i \in DOMAIN rows[d - 1] |-> rows[d - 1][i].items])
    BY <1>2, <2>2, <2>3
  <2>8. g[d] = FlattenSeq([i \in DOMAIN g[d - 1] |-> g[d - 1][i].items])
    BY <2>4
  <2> QED BY <2>2, <2>6, <2>7, <2>8
<1> QED BY <1>1, <1>3

LEMMA FirstRows == ASSUME NEW v PROVE RowsAt(v, 0) = <<v>> /\ RowsAt(v, 1) = v.items
<1> DEFINE g == [d \in 0..1 |-> IF d = 0 THEN <<v>> ELSE v.items]
<1> DEFINE e == [d \in 0..0 |-> <<v>>]
<1>1. /\ g = [d \in 0..1 |-> g[d]] /\ g[0] = <<v>> /\ g[1] = v.items
      /\ e = [d \in 0..0 |-> e[d]] /\ e[0] = <<v>>
  OBVIOUS
<1> HIDE DEF g, e
<1>2. RowsAt(v, 0) = e[0]
  <2>1. IsRows(e, v, 0)
    BY <1>1 DEF IsRows
  <2> QED BY <2>1, RowsAre
<1>3. FlattenSeq([i \in DOMAIN g[0] |-> g[0][i].items]) = v.items
  <2>1. [i \in DOMAIN g[0] |-> g[0][i].items] = <<v.items>>
    BY <1>1
  <2> QED BY <2>1, OneRow
<1>4. \A d \in 1..1 : g[d] = FlattenSeq([i \in DOMAIN g[d - 1] |-> g[d - 1][i].items])
  <2> SUFFICES ASSUME NEW d \in 1..1
               PROVE  g[d] = FlattenSeq([i \in DOMAIN g[d - 1] |-> g[d - 1][i].items])
    OBVIOUS
  <2>1. d = 1 /\ d - 1 = 0
    OBVIOUS
  <2> QED BY <2>1, <1>1, <1>3
<1>5. RowsAt(v, 1) = g[1]
  <2>1. IsRows(g, v, 1)
    BY <1>1, <1>4 DEF IsRows
  <2> QED BY <2>1, RowsAre
<1> QED BY <1>1, <1>2, <1>5

LEMMA NoRows == ASSUME NEW v, v.items = <<>>, NEW n \in Nat \ {0} PROVE RowsAt(v, n) = <<>>
<1> DEFINE g == [d \in 0..n |-> IF d = 0 THEN <<v>> ELSE <<>>]
<1>1. g = [d \in 0..n |-> g[d]] /\ g[0] = <<v>> /\ \A d \in 1..n : g[d] = <<>>
  OBVIOUS
<1> HIDE DEF g
<1>2. FlattenSeq(<<>>) = <<>>
  BY DEF FlattenSeq
<1>3. ASSUME NEW d \in 1..n
      PROVE  g[d] = FlattenSeq([i \in DOMAIN g[d - 1] |-> g[d - 1][i].items])
  <2>1. CASE d = 1
    <3>1. g[d - 1] = <<v>>
      BY <2>1, <1>1
    <3>2. [i \in DOMAIN g[d - 1] |-> g[d - 1][i].items] = <<v.items>>
      BY <3>1
    <3>3. FlattenSeq(<<v.items>>) = <<>>
      BY OneRow
    <3> QED BY <3>2, <3>3, <1>1
  <2>2. CASE d # 1
    <3>0. d - 1 \in 1..n
      BY <2>2
    <3>1. g[d - 1] = <<>> /\ g[d] = <<>>
      BY <3>0, <1>1
    <3>2. [i \in DOMAIN g[d - 1] |-> g[d - 1][i].items] = <<>>
      <4>1. DOMAIN g[d - 1] = {}
        BY <3>1
      <4> QED BY <4>1
    <3> QED BY <3>1, <3>2, <1>2
  <2> QED BY <2>1, <2>2
<1>4. RowsAt(v, n) = g[n]
  <2>1. IsRows(g, v, n)
    BY <1>1, <1>3 DEF IsRows
  <2> QED BY <2>1, RowsAre
<1> QED BY <1>1, <1>4

LEMMA WrittenValue ==
    ASSUME NEW shape \in Seq(Nat), NEW cells \in Seq(Int \cup {NaN}), Len(cells) = Product(shape)
    PROVE  LET v == ParameterValue(cells, shape)
           IN  /\ HasFlatValues(v, shape) /\ FlatValues(v) = cells
               /\ FitsShape(v, shape) => Flattened(v, shape) = cells
<1> DEFINE v == ParameterValue(cells, shape)
<1>1. CASE shape = <<>>
  <2>1. v = [number |-> cells[1]] /\ cells = <<cells[1]>>
    BY <1>1, NoAxes DEF ParameterValue, Number
  <2>2. RowsAt(v, 0) = <<v>>
    BY FirstRows
  <2> HIDE DEF v
  <2>3. HasFlatValues(v, shape)
    BY <1>1, <2>1 DEF HasFlatValues, IsNumber
  <2>4. FlatValues(v) = cells
    BY <2>1 DEF FlatValues, IsList
  <2>5. Flattened(v, shape) = cells
    BY <1>1, <2>1, <2>2 DEF Flattened
  <2> QED BY <2>3, <2>4, <2>5 DEF v
<1>2. CASE shape # <<>>
  <2> DEFINE L == Len(cells)
  <2> DEFINE items == v.items
  <2>1. v = [items |-> [i \in DOMAIN cells |-> [number |-> cells[i]]]]
    BY <1>2 DEF ParameterValue, List, Number
  <2>2. /\ L \in Nat /\ DOMAIN cells = 1..L /\ cells = [i \in 1..L |-> cells[i]] /\ L = Product(shape)
        /\ \A i \in 1..L : cells[i] \in Int \cup {NaN}
    OBVIOUS
  <2> HIDE DEF v, L
  <2>3. DOMAIN v = {"items"} /\ items = [i \in 1..L |-> [number |-> cells[i]]]
    BY <2>1, <2>2
  <2> HIDE DEF items
  <2>4. /\ DOMAIN items = 1..L /\ Len(items) = L
        /\ \A i \in 1..L : items[i] = [number |-> cells[i]]
    <3> DEFINE T == [number : Int \cup {NaN}]
    <3>1. items \in [1..L -> T]
      BY <2>2, <2>3
    <3> HIDE DEF T
    <3>2. items \in Seq(T)
      BY <2>2, <3>1, SeqDef
    <3> QED BY <2>2, <2>3, <3>1, <3>2, LenProperties
  <2>5. \A i \in 1..L : IsNumber(items[i]) /\ ~ IsList(items[i]) /\ items[i].number = cells[i]
    BY <2>4 DEF IsNumber, IsList
  <2>6. IsList(v) /\ v.items = items
    BY <2>3 DEF IsList, items
  <2>7. HasFlatValues(v, shape)
    <3>1. Len(v.items) = Product(shape) /\ \A i \in DOMAIN v.items : IsNumber(v.items[i])
      BY <2>2, <2>4, <2>5, <2>6
    <3> QED BY <2>6, <3>1 DEF HasFlatValues
  <2>8. FlatValues(v) = cells
    <3>1. FlatValues(v) = [i \in DOMAIN items |-> items[i].number]
      BY <2>6 DEF FlatValues
    <3> QED BY <3>1, <2>2, <2>4, <2>5
  <2>9. ASSUME FitsShape(v, shape) PROVE Flattened(v, shape) = cells
    <3>1. Len(shape) \in Nat \ {0}
      BY <1>2
    <3>2. RowsAt(v, Len(shape)) = items
      <4>1. CASE Len(shape) = 1
        BY <4>1, <2>6, FirstRows
      <4>2. CASE Len(shape) # 1
        <5>1. RowsAt(v, 2 - 1) = items
          BY <2>6, FirstRows
        <5>2. 2 \in 1..Len(shape)
          <6> DEFINE n == Len(shape)
          <6>1. n \in Nat \ {0} /\ n # 1
            BY <3>1, <4>2
          <6> HIDE DEF n
          <6>2. 2 \in 1..n
            BY <6>1
          <6> QED BY <6>2 DEF n
        <5>3. \A row \in Range(RowsAt(v, 2 - 1)) : IsList(row)
          BY <2>9, <5>2 DEF FitsShape
        <5>4. ASSUME NEW i \in 1..L PROVE FALSE
          <6>1. items[i] \in Range(items)
            BY <2>4 DEF Range
          <6> QED BY <6>1, <2>5, <5>1, <5>3
        <5>5. items = <<>>
          BY <2>2, <2>3, <5>4
        <5> QED BY <3>1, <2>6, <5>5, NoRows
      <4> QED BY <4>1, <4>2
    <3>3. Flattened(v, shape) = [i \in DOMAIN items |-> items[i].number]
      BY <3>2 DEF Flattened
    <3> QED BY <3>3, <2>2, <2>4, <2>5
  <2> QED BY <2>7, <2>8, <2>9 DEF v
<1> QED BY <1>1, <1>2

\* The cell that a draw of the stream is of.
ChainAt(f, k) == (k - 1) \div f.settings.draws
DrawAt(f, k) == (k - 1) % f.settings.draws
LEMMA DrawCells ==
    ASSUME NEW f \in WritableFits, NEW k \in 1..Total(f)
    PROVE  /\ ChainAt(f, k) \in 0..f.settings.chains - 1 /\ DrawAt(f, k) \in 0..f.settings.draws - 1
           /\ ChainAt(f, k) * f.settings.draws + DrawAt(f, k) = k - 1
<1> DEFINE C == f.settings.chains
<1> DEFINE D == f.settings.draws
<1>1. C \in Nat \ {0} /\ D \in Nat \ {0} /\ Total(f) = C * D
  BY FitsAssumption DEF Total
<1> HIDE DEF C, D
<1>2. k - 1 \in 0..C * D - 1 /\ k - 1 \in Nat
  <2>1. k \in 1..C * D
    BY <1>1
  <2>2. C * D \in Nat
    BY <1>1
  <2> QED BY <2>1, <2>2
<1>3. (k - 1) \div D \in 0..C - 1
  BY <1>1, <1>2, DivisionBound
<1>4. ((k - 1) % D) \in 0..D - 1 /\ k - 1 = ((k - 1) \div D) * D + ((k - 1) % D)
  BY <1>1, <1>2, Division
<1> QED BY <1>3, <1>4 DEF C, D, ChainAt, DrawAt

LEMMA CellDraws ==
    ASSUME NEW f \in WritableFits, NEW c \in 0..f.settings.chains - 1, NEW d \in 0..f.settings.draws - 1
    PROVE  \E k \in 1..Total(f) : ChainAt(f, k) = c /\ DrawAt(f, k) = d
<1> DEFINE C == f.settings.chains
<1> DEFINE D == f.settings.draws
<1> DEFINE k == c * D + d + 1
<1>1. C \in Nat \ {0} /\ D \in Nat \ {0} /\ Total(f) = C * D
  BY FitsAssumption DEF Total
<1>2. c \in 0..C - 1 /\ d \in 0..D - 1
  OBVIOUS
<1> HIDE DEF C, D
<1>3. (c * D + d) \div D = c /\ ((c * D + d) % D) = d
  <2>1. c \in Nat
    BY <1>1, <1>2
  <2> QED BY <2>1, <1>1, <1>2, DivisionUnique
<1>4. c * D \in Nat /\ c * D <= (C - 1) * D /\ (C - 1) * D = C * D - D /\ C * D \in Nat
  BY <1>1, <1>2
<1>5. k \in 1..C * D /\ k - 1 = c * D + d
  BY <1>1, <1>2, <1>4
<1> HIDE DEF k
<1> QED BY <1>1, <1>3, <1>5 DEF D, ChainAt, DrawAt

\* What a draw of the stream has for a parameter.
LEMMA WrittenCells ==
    ASSUME NEW f \in WritableFits, NEW k \in 1..Total(f), NEW j \in DOMAIN f.bound
    PROVE  LET value == DrawOf(f, k).values[j].value
           IN  /\ DrawOf(f, k).values[j].name = f.bound[j].name
               /\ HasFlatValues(value, f.bound[j].shape) /\ FlatValues(value) = CellsAt(f, j, k)
               /\ FitsShape(value, f.bound[j].shape) =>
                    Flattened(value, f.bound[j].shape) = CellsAt(f, j, k)
<1> DEFINE cells == CellsAt(f, j, k)
<1> DEFINE shape == f.bound[j].shape
<1>1. /\ DrawOf(f, k).values[j].name = f.bound[j].name
      /\ DrawOf(f, k).values[j].value = ParameterValue(cells, shape)
  <2>1. DrawOf(f, k).values =
          [i \in DOMAIN f.bound |->
            [name |-> f.bound[i].name, value |-> ParameterValue(CellsAt(f, i, k), f.bound[i].shape)]]
    BY DEF DrawOf, DrawLine, Joined, Marked, CellsAt
  <2> QED BY <2>1
<1>2. f.bound[j] \in [name : STRING, shape : Seq(Nat)] /\ f.bound[j] \in Range(f.bound)
  <2> DEFINE T == [name : STRING, shape : Seq(Nat)]
  <2>1. f.bound \in Seq(T)
    BY FitsAssumption
  <2> HIDE DEF T
  <2>2. f.bound[j] \in T
    BY <2>1, LenProperties, ElementOfSeq
  <2> QED BY <2>2 DEF Range, T
<1>3. /\ ChainAt(f, k) + 1 \in 1..f.settings.chains /\ DrawAt(f, k) + 1 \in 1..f.settings.draws
  <2> DEFINE C == f.settings.chains
  <2> DEFINE D == f.settings.draws
  <2> DEFINE c == ChainAt(f, k)
  <2> DEFINE d == DrawAt(f, k)
  <2>1. C \in Nat /\ D \in Nat /\ c \in 0..C - 1 /\ d \in 0..D - 1
    BY DrawCells, FitsAssumption
  <2> HIDE DEF C, D, c, d
  <2>2. c + 1 \in 1..C /\ d + 1 \in 1..D
    BY <2>1
  <2> QED BY <2>2 DEF C, D, c, d
<1>4. cells = f.result.samples[f.bound[j].name][ChainAt(f, k) + 1][DrawAt(f, k) + 1]
  BY DEF CellsAt, ChainAt, DrawAt
<1>5. cells \in Seq(Int \cup {NaN}) /\ Len(cells) = Product(shape)
  <2> HIDE DEF cells
  <2> QED BY <1>2, <1>3, <1>4, FitsAssumption
<1>6. shape \in Seq(Nat)
  BY <1>2
<1> HIDE DEF cells, shape
<1>7. LET v == ParameterValue(cells, shape)
      IN  /\ HasFlatValues(v, shape) /\ FlatValues(v) = cells
          /\ FitsShape(v, shape) => Flattened(v, shape) = cells
  BY <1>5, <1>6, WrittenValue
<1> QED BY <1>1, <1>7 DEF cells, shape

LEMMA ToldDraws ==
    ASSUME NEW f \in WritableFits, NEW file, NEW S, file.lines \in Seq(S), Tells(file, f),
           NEW model, NEW data, Portable(file, model, data), NEW k \in 1..Total(f)
    PROVE  LET d == file.lines[k + 1]
           IN  /\ DrawIsSound(file.lines[1], d, k - 1)
               /\ d.chain = ChainAt(f, k) /\ d.draw = DrawAt(f, k)
               /\ d.values = DrawOf(f, k).values
<1> DEFINE d == file.lines[k + 1]
<1> DEFINE h == file.lines[1]
<1> DEFINE m == Total(f)
<1>1. m \in Nat \ {0} /\ m = Len(file.lines) - 2
  BY DrawsArePositive DEF Tells
<1>2. DrawIsSound(h, d, k - 1)
  <2>1. \A i \in 1..m : DrawIsSound(h, file.lines[i + 1], i - 1)
    <3> HIDE DEF m
    <3> QED BY <1>1, PortableSays
  <2> QED BY <2>1
<1>3. d.values = DrawOf(f, k).values /\ h.chain_order = UpTo(f.settings.chains)
      /\ h.settings.num_draws = f.settings.draws
  BY DEF Tells
<1> HIDE DEF d, h, m
<1>4. d.chain = h.chain_order[ChainAt(f, k) + 1] /\ d.draw = DrawAt(f, k)
  BY <1>2, <1>3, DrawSays DEF ChainAt, DrawAt
<1>5. h.chain_order[ChainAt(f, k) + 1] = ChainAt(f, k)
  <2> DEFINE c == ChainAt(f, k)
  <2>1. c \in 0..f.settings.chains - 1 /\ f.settings.chains \in Nat
    BY DrawCells, FitsAssumption
  <2> HIDE DEF c
  <2>2. c + 1 \in 1..f.settings.chains /\ (c + 1) - 1 = c
    BY <2>1
  <2>3. UpTo(f.settings.chains)[c + 1] = c
    BY <2>2 DEF UpTo
  <2> QED BY <1>3, <2>3 DEF c
<1> QED BY <1>2, <1>3, <1>4, <1>5 DEF d, h

LEMMA ToldParams ==
    ASSUME NEW f, NEW file, Tells(file, f)
    PROVE  LET params == file.lines[1].params
           IN  /\ DOMAIN params = DOMAIN f.bound
               /\ \A p \in DOMAIN f.bound :
                    params[p].name = f.bound[p].name /\ params[p].shape = f.bound[p].shape
<1> DEFINE params == file.lines[1].params
<1>1. params = HeaderOf(f, Null).params
  BY DEF Tells
<1>2. HeaderOf(f, Null).params =
        [k \in DOMAIN f.bound |-> [name |-> f.bound[k].name, shape |-> f.bound[k].shape,
                                   coordinate_order |-> CoordinateOrder(f.bound[k].shape)]]
  BY HeaderFields
<1> HIDE DEF params
<1> QED BY <1>1, <1>2 DEF params

\* The strict reader's draws are those of the fit, in its order.
LEMMA StrictDraws ==
    ASSUME NEW f \in WritableFits, NEW file, NEW S, file.lines \in Seq(S), Tells(file, f),
           NEW model, NEW data, Portable(file, model, data)
    PROVE  LET draws == PortableDraws(file)
           IN  /\ Len(draws) = f.settings.chains * f.settings.draws
               /\ \A k \in DOMAIN draws :
                    /\ draws[k].source_draw_index = k - 1
                    /\ draws[k].chain * f.settings.draws + draws[k].draw = k - 1
                    /\ \A v \in Range(draws[k].values) :
                         v.numbers = SampleOf(f, v.name, <<draws[k].chain + 1, draws[k].draw>>)
<1> DEFINE draws == PortableDraws(file)
<1> DEFINE h == file.lines[1]
<1> DEFINE m == Total(f)
<1>1. m \in Nat \ {0} /\ Len(file.lines) = m + 2 /\ Head(file.lines) = h
  BY DrawsArePositive DEF Tells
<1> DEFINE Read(k) ==
      [source_draw_index |-> k - 1, chain |-> file.lines[k + 1].chain, draw |-> file.lines[k + 1].draw,
       values |-> [p \in DOMAIN h.params |->
         [name |-> h.params[p].name,
          numbers |-> Flattened(file.lines[k + 1].values[p].value, h.params[p].shape)]]]
<1>2. DOMAIN draws = 1..m /\ Len(draws) = m /\ \A k \in 1..m : draws[k] = Read(k)
  <2>1. draws = [k \in 1..Len(file.lines) - 2 |-> Read(k)]
    BY <1>1 DEF PortableDraws
  <2>2. Len(file.lines) - 2 = m
    BY <1>1
  <2> HIDE DEF draws, m, h, Read
  <2> QED BY <1>1, <2>1, <2>2
<1>3. /\ DOMAIN h.params = DOMAIN f.bound
      /\ \A p \in DOMAIN f.bound : h.params[p].name = f.bound[p].name /\ h.params[p].shape = f.bound[p].shape
  BY ToldParams
<1>4. ASSUME NEW k \in 1..m
      PROVE  /\ draws[k].source_draw_index = k - 1
             /\ draws[k].chain = ChainAt(f, k) /\ draws[k].draw = DrawAt(f, k)
             /\ \A v \in Range(draws[k].values) :
                  v.numbers = SampleOf(f, v.name, <<ChainAt(f, k) + 1, DrawAt(f, k)>>)
  <2> DEFINE d == file.lines[k + 1]
  <2>1. /\ DrawIsSound(h, d, k - 1) /\ d.chain = ChainAt(f, k) /\ d.draw = DrawAt(f, k)
        /\ d.values = DrawOf(f, k).values
    BY ToldDraws
  <2>2. /\ draws[k].source_draw_index = k - 1
        /\ draws[k].chain = d.chain /\ draws[k].draw = d.draw
        /\ draws[k].values = [p \in DOMAIN h.params |->
             [name |-> h.params[p].name, numbers |-> Flattened(d.values[p].value, h.params[p].shape)]]
    <3>1. draws[k] = Read(k)
      BY <1>2
    <3> HIDE DEF draws, h
    <3> QED BY <3>1
  <2> HIDE DEF d, draws, h, m
  <2>3. ASSUME NEW v \in Range(draws[k].values)
        PROVE  v.numbers = SampleOf(f, v.name, <<ChainAt(f, k) + 1, DrawAt(f, k)>>)
    <3>1. PICK p \in DOMAIN h.params :
            v = [name |-> h.params[p].name, numbers |-> Flattened(d.values[p].value, h.params[p].shape)]
      BY <2>2, <2>3 DEF Range
    <3> DEFINE value == DrawOf(f, k).values[p].value
    <3>2. p \in DOMAIN f.bound /\ v.name = f.bound[p].name /\ v.numbers = Flattened(value, f.bound[p].shape)
      BY <1>3, <2>1, <3>1
    <3>3. FitsShape(value, f.bound[p].shape)
      BY <1>3, <2>1, <3>2 DEF DrawIsSound
    <3>4. v.numbers = CellsAt(f, p, k)
      BY <3>2, <3>3, WrittenCells DEF m
    <3> QED BY <3>2, <3>4 DEF SampleOf, CellsAt, ChainAt, DrawAt
  <2> QED BY <2>1, <2>2, <2>3
<1> HIDE DEF draws
<1>5. ASSUME NEW k \in 1..m
      PROVE  draws[k].chain * f.settings.draws + draws[k].draw = k - 1
  BY <1>4, DrawCells
<1> QED BY <1>2, <1>4, <1>5 DEF draws, Total

\* The lenient reader: a file without blank lines is its documents.
LEMMA DocumentsAreLines ==
    ASSUME NEW file, NEW S, file.lines \in Seq(S),
           \A k \in DOMAIN file.lines : file.lines[k] # Blank
    PROVE  Documents(file) = file.lines
<1> DEFINE s == file.lines
<1> DEFINE Kept(g) == g = [k \in 0..Len(s) |->
                             IF k = 0 THEN <<>>
                             ELSE IF s[k] = Blank THEN g[k - 1]
                             ELSE Append(g[k - 1], s[k])]
<1> DEFINE kept == CHOOSE g : Kept(g)
<1>0. s \in Seq(S) /\ Len(s) \in Nat /\ DOMAIN s = 1..Len(s)
  OBVIOUS
<1>1. Documents(file) = kept[Len(s)]
  BY DEF Documents
<1>2. Kept([k \in 0..Len(s) |-> SubSeq(s, 1, k)])
  <2> DEFINE g == [k \in 0..Len(s) |-> SubSeq(s, 1, k)]
  <2>1. ASSUME NEW k \in 0..Len(s)
        PROVE  g[k] = IF k = 0 THEN <<>> ELSE IF s[k] = Blank THEN g[k - 1] ELSE Append(g[k - 1], s[k])
    <3>1. CASE k = 0
      BY <3>1, <1>0
    <3>2. CASE k # 0
      <4>1. s[k] # Blank /\ k - 1 \in 0..Len(s) /\ k \in 1..Len(s)
        BY <3>2, <1>0
      <4>2. SubSeq(s, 1, k) = Append(SubSeq(s, 1, k - 1), s[k])
        BY <4>1, <1>0
      <4> QED BY <4>1, <4>2, <3>2
    <3> QED BY <3>1, <3>2
  <2> HIDE DEF s
  <2> QED BY <2>1
<1> HIDE DEF s
<1>3. Kept(kept)
  BY <1>2
<1> HIDE DEF Kept, kept
<1>4. \A k \in 0..Len(s) : kept[k] = SubSeq(s, 1, k)
  <2> DEFINE wrong == {k \in 0..Len(s) : kept[k] # SubSeq(s, 1, k)}
  <2> SUFFICES ASSUME wrong # {} PROVE FALSE
    OBVIOUS
  <2>1. PICK k \in wrong : \A m \in wrong : k <= m
    <3>1. wrong \in SUBSET Nat
      BY <1>0
    <3> HIDE DEF wrong
    <3> QED BY <3>1, LeastNumber
  <2>2. k \in 0..Len(s) /\ kept[k] # SubSeq(s, 1, k)
    OBVIOUS
  <2>3. k # 0
    BY <1>0, <1>3, <2>2 DEF Kept
  <2>4. k - 1 \in 0..Len(s) /\ k - 1 \notin wrong /\ s[k] # Blank
    BY <1>0, <2>1, <2>2, <2>3 DEF s
  <2>5. kept[k - 1] = SubSeq(s, 1, k - 1)
    BY <2>4
  <2>6. kept[k] = Append(SubSeq(s, 1, k - 1), s[k])
    BY <1>3, <2>2, <2>3, <2>4, <2>5 DEF Kept
  <2> QED BY <1>0, <2>2, <2>3, <2>6
<1> QED BY <1>0, <1>1, <1>4 DEF s

LEMMA ReadableHeader ==
    ASSUME NEW h, HeaderIsSound(h), Marker(h)
    PROVE  /\ Get(h, "draws_format") = "v0-provisional" /\ Get(h, "params") = h.params
           /\ SpecsAreNamed(h.params) /\ HasChainOrder(h) /\ ChainOrder(h) = h.chain_order
           /\ Get(h, "sample_stats_mode") \in {"per_draw_v1", "per_draw_v2"}
           /\ Get(h, "sample_stats_mode") = h.sample_stats_mode
           /\ IsInt(Get(h, "chain_count")) /\ IsInt(Get(h, "draw_count"))
<1>1. Get(h, "draws_format") = "v0-provisional"
  BY DEF Marker, Marked
<1>2. /\ Get(h, "params") = h.params /\ Get(h, "chain_order") = h.chain_order
      /\ Get(h, "sample_stats_mode") = h.sample_stats_mode
  BY HeaderSays DEF Get
<1>3. \A x : SafeIntegers(x) => Listed(x) /\ IsShape(x) /\ \A k \in DOMAIN x : IsInt(x[k])
  BY DEF SafeIntegers, IsShape, SafeInteger, IsInt
<1>4. SpecsAreNamed(h.params)
  <2>1. ParametersAreSound(h)
    BY DEF HeaderIsSound
  <2> QED BY <1>2, <1>3, <2>1 DEF ParametersAreSound, SpecsAreNamed
<1>5. HasChainOrder(h)
  <2>1. SafeIntegers(Get(h, "chain_order")) /\ IsInjective(h.chain_order)
    BY DEF HeaderIsSound
  <2> QED BY <1>2, <1>3, <2>1, HeaderSays DEF HasChainOrder
<1>6. ChainOrder(h) = h.chain_order
  BY <1>2, HeaderSays DEF ChainOrder
<1>7. Get(h, "sample_stats_mode") \in {"per_draw_v1", "per_draw_v2"}
  BY DEF HeaderIsSound, IsOneOf
<1>8. IsInt(Get(h, "chain_count")) /\ IsInt(Get(h, "draw_count"))
  BY DEF HeaderIsSound, PositiveInteger, SafeInteger, IsInt
<1> QED BY <1>1, <1>2, <1>4, <1>5, <1>6, <1>7, <1>8

LEMMA ReadableRecord ==
    ASSUME NEW h, NEW d, NEW index, HeaderIsSound(h), Marker(h), DrawIsSound(h, d, index),
           ValuesAreOf(d, h.params)
    PROVE  RecordIsReadable(h, d)
<1>1. Get(d, "draws_format") = "v0-provisional"
  BY DEF DrawIsSound, Marker, Marked
<1>2. \A x, n : Agrees(d, x, n) => IsInt(Get(d, x))
  BY DEF Agrees, SafeInteger, IsInt
<1>3. IsInt(Get(d, "chain")) /\ IsInt(Get(d, "draw"))
  BY <1>2 DEF DrawIsSound
<1>4. \A x, values : IsOneOf(Get(d, x), values) => IsInt(Get(d, x)) /\ Get(d, x) \notin {Null, Other}
  BY DEF IsOneOf, IsInt
<1>5. /\ IsOneOf(Get(d, "diverging"), BOOLEAN) /\ IsInt(Get(d, "tree_depth"))
      /\ Get(d, "tree_accept") \notin {Null, Other}
      /\ Get(d, "sample_stats_mode") = h.sample_stats_mode
  BY <1>4 DEF DrawIsSound, IsProbability
<1>6. h.sample_stats_mode = "per_draw_v2" => Get(d, "energy") \notin {Null, Other}
  BY DEF DrawIsSound
<1> QED BY <1>1, <1>3, <1>5, <1>6 DEF RecordIsReadable

LEMMA DrawsPerChain ==
    ASSUME NEW f \in WritableFits, NEW c \in 0..f.settings.chains - 1
    PROVE  Cardinality({k \in 1..Total(f) : ChainAt(f, k) = c}) = f.settings.draws
<1> DEFINE C == f.settings.chains
<1> DEFINE D == f.settings.draws
<1> DEFINE mine == {k \in 1..Total(f) : ChainAt(f, k) = c}
<1>1. C \in Nat \ {0} /\ D \in Nat \ {0} /\ Total(f) = C * D /\ c \in 0..C - 1
  BY FitsAssumption DEF Total
<1>2. \A k \in 1..Total(f) : DrawAt(f, k) \in 0..D - 1 /\ ChainAt(f, k) * D + DrawAt(f, k) = k - 1
  BY DrawCells
<1>3. \A d \in 0..D - 1 : \E k \in 1..Total(f) : ChainAt(f, k) = c /\ DrawAt(f, k) = d
  BY CellDraws
<1> HIDE DEF C, D
<1>4. c * D \in Nat
  BY <1>1
<1> DEFINE b == c * D
<1>5. ASSUME NEW k \in mine PROVE k \in b + 1..b + D
  <2>1. k \in Int /\ DrawAt(f, k) \in 0..D - 1 /\ b + DrawAt(f, k) = k - 1
    BY <1>2, <1>5
  <2> HIDE DEF b, mine
  <2> QED BY <1>1, <1>4, <2>1 DEF b
<1>6. ASSUME NEW k \in b + 1..b + D PROVE k \in mine
  <2>1. k - 1 - b \in 0..D - 1 /\ k \in Int
    BY <1>1, <1>4, <1>6
  <2>2. PICK j \in 1..Total(f) : ChainAt(f, j) = c /\ DrawAt(f, j) = k - 1 - b
    BY <1>3, <2>1
  <2>3. j - 1 = b + (k - 1 - b) /\ j \in Int
    BY <1>2, <2>2
  <2>4. j = k
    BY <1>4, <2>1, <2>3
  <2> QED BY <2>2, <2>4
<1>7. mine = b + 1..b + D
  BY <1>5, <1>6
<1> HIDE DEF b, mine
<1>8. b + 1 \in Int /\ b + D \in Int /\ b + 1 <= b + D
  BY <1>1, <1>4 DEF b
<1>9. Cardinality(b + 1..b + D) = (b + D) - (b + 1) + 1
  BY <1>8, FS_Interval
<1>10. (b + D) - (b + 1) + 1 = D
  BY <1>1, <1>4 DEF b
<1>11. Cardinality(mine) = D
  BY <1>7, <1>9, <1>10
<1> QED BY <1>11 DEF mine, D

LEMMA ToldCounts ==
    ASSUME NEW f \in WritableFits, NEW h, NEW t, NEW records,
           ChainOrder(h) = UpTo(f.settings.chains),
           records # <<>>, DOMAIN records = 1..Total(f), Len(records) = Total(f),
           \A k \in 1..Total(f) : records[k].chain = ChainAt(f, k) /\ records[k].draw = DrawAt(f, k),
           OptionalCount(h, "chain_count", f.settings.chains), OptionalCount(h, "draw_count", Total(f)),
           OptionalCount(t, "draw_count", Total(f)), OptionalCount(t, "draws_per_chain", f.settings.draws)
    PROVE  CountsAgree(h, t, records)
<1> DEFINE C == f.settings.chains
<1> DEFINE D == f.settings.draws
<1> DEFINE chains == ChainOrder(h)
<1> DEFINE per(c) == Cardinality({k \in DOMAIN records : records[k].chain = c})
<1>1. C \in Nat \ {0} /\ D \in Nat \ {0}
  BY FitsAssumption
<1>2. Len(chains) = C /\ chains[1] = 0 /\ Range(chains) = 0..C - 1
  <2> HIDE DEF C
  <2>1. UpTo(C) = [k \in 1..C |-> k - 1]
    BY DEF UpTo
  <2>2. Len(UpTo(C)) = C /\ UpTo(C)[1] = 0
    BY <1>1, <2>1
  <2>3. Range(UpTo(C)) = {k - 1 : k \in 1..C}
    BY <2>1 DEF Range
  <2>4. ASSUME NEW c \in 0..C - 1 PROVE \E k \in 1..C : c = k - 1
    <3>1. c + 1 \in 1..C /\ c = (c + 1) - 1
      BY <1>1
    <3> QED BY <3>1
  <2>5. {k - 1 : k \in 1..C} = 0..C - 1
    BY <1>1, <2>4
  <2> QED BY <2>2, <2>3, <2>5 DEF C
<1>3. ASSUME NEW c \in 0..C - 1 PROVE per(c) = D
  <2>1. {k \in DOMAIN records : records[k].chain = c} = {k \in 1..Total(f) : ChainAt(f, k) = c}
    OBVIOUS
  <2> QED BY <2>1, DrawsPerChain
<1>4. \A k \in 1..Total(f) : ChainAt(f, k) \in 0..C - 1 /\ DrawAt(f, k) \in 0..D - 1
  BY DrawCells
<1>5. \A c \in 0..C - 1, d \in 0..D - 1 : \E k \in 1..Total(f) : ChainAt(f, k) = c /\ DrawAt(f, k) = d
  BY CellDraws
<1> HIDE DEF per, chains, C, D
<1>6. 0 \in 0..C - 1 /\ per(chains[1]) = D
  BY <1>1, <1>2, <1>3
<1>7. \A k \in DOMAIN records : records[k].chain \in Range(chains)
  BY <1>2, <1>4
<1>8. \A c, e \in Range(chains) : per(c) = per(e)
  BY <1>2, <1>3
<1>9. {<<records[k].chain, records[k].draw>> : k \in DOMAIN records} = Range(chains) \X (0..per(chains[1]) - 1)
  <2>1. {<<records[k].chain, records[k].draw>> : k \in DOMAIN records}
          = {<<ChainAt(f, k), DrawAt(f, k)>> : k \in 1..Total(f)}
    OBVIOUS
  <2>2. ASSUME NEW k \in 1..Total(f) PROVE <<ChainAt(f, k), DrawAt(f, k)>> \in (0..C - 1) \X (0..D - 1)
    BY <1>4
  <2>3. ASSUME NEW cell \in (0..C - 1) \X (0..D - 1)
        PROVE  cell \in {<<ChainAt(f, k), DrawAt(f, k)>> : k \in 1..Total(f)}
    <3>1. PICK c \in 0..C - 1 : \E d \in 0..D - 1 : cell = <<c, d>>
      OBVIOUS
    <3>2. PICK d \in 0..D - 1 : cell = <<c, d>>
      BY <3>1
    <3>3. PICK k \in 1..Total(f) : ChainAt(f, k) = c /\ DrawAt(f, k) = d
      BY <1>5
    <3> QED BY <3>2, <3>3
  <2>4. {<<ChainAt(f, k), DrawAt(f, k)>> : k \in 1..Total(f)} = (0..C - 1) \X (0..D - 1)
    BY <2>2, <2>3
  <2> QED BY <2>1, <2>4, <1>2, <1>6
<1>10. /\ OptionalCount(h, "chain_count", Len(chains)) /\ OptionalCount(h, "draw_count", Len(records))
       /\ OptionalCount(t, "draw_count", Len(records))
       /\ OptionalCount(t, "draws_per_chain", per(chains[1]))
  BY <1>2, <1>6 DEF C, D
<1> QED BY <1>6, <1>7, <1>8, <1>9, <1>10 DEF CountsAgree, chains, per

\* A told file, as the lenient reader finds it.
LEMMA ToldFile ==
    ASSUME NEW f \in WritableFits, NEW file, NEW S, file.lines \in Seq(S), Tells(file, f),
           NEW model, NEW data, Portable(file, model, data)
    PROVE  LET docs == Documents(file)
               records == SubSeq(docs, 2, Len(docs) - 1)
           IN  /\ docs = file.lines /\ Len(docs) = Total(f) + 2
               /\ Head(docs) = file.lines[1] /\ Last(docs) = file.lines[Total(f) + 2]
               /\ DOMAIN records = 1..Total(f) /\ Len(records) = Total(f) /\ records # <<>>
               /\ \A k \in 1..Total(f) : records[k] = file.lines[k + 1]
<1> DEFINE s == file.lines
<1> DEFINE m == Total(f)
<1>1. m \in Nat \ {0} /\ Len(s) = m + 2 /\ s \in Seq(S) /\ m = Len(s) - 2
  BY DrawsArePositive DEF Tells
<1>2. \A k \in DOMAIN s : s[k] # Blank
  <2> HIDE DEF m
  <2> QED BY <1>1, PortableSays
<1>3. Documents(file) = s
  BY <1>2, DocumentsAreLines
<1> HIDE DEF s, m
<1>4. Head(s) = s[1] /\ Last(s) = s[m + 2]
  BY <1>1 DEF Last
<1>5. /\ DOMAIN SubSeq(s, 2, Len(s) - 1) = 1..m /\ Len(SubSeq(s, 2, Len(s) - 1)) = m
      /\ \A k \in 1..m : SubSeq(s, 2, Len(s) - 1)[k] = s[k + 1]
  BY <1>1
<1>6. SubSeq(s, 2, Len(s) - 1) # <<>>
  BY <1>1, <1>5
<1> QED BY <1>1, <1>3, <1>4, <1>5, <1>6 DEF s, m

\* The values of a told draw are those of the fit.
LEMMA ToldValues ==
    ASSUME NEW f \in WritableFits, NEW k \in 1..Total(f), NEW d, d.values = DrawOf(f, k).values,
           Get(d, "values") \notin {Null, Other},
           NEW params, DOMAIN params = DOMAIN f.bound,
           \A p \in DOMAIN f.bound : params[p].name = f.bound[p].name /\ params[p].shape = f.bound[p].shape
    PROVE  /\ ValuesAreOf(d, params)
           /\ \A p \in DOMAIN f.bound : ValuesOf(d, params)[f.bound[p].name] = CellsAt(f, p, k)
<1> DEFINE values == d.values
<1>1. /\ DOMAIN values = DOMAIN f.bound
      /\ \A p \in DOMAIN f.bound : /\ values[p].name = f.bound[p].name
                                   /\ HasFlatValues(values[p].value, f.bound[p].shape)
                                   /\ FlatValues(values[p].value) = CellsAt(f, p, k)
  <2>1. DOMAIN DrawOf(f, k).values = DOMAIN f.bound
    BY DEF DrawOf, DrawLine, Joined, Marked
  <2> QED BY <2>1, WrittenCells
<1>2. Range(values) = {values[p] : p \in DOMAIN f.bound} /\ Range(params) = {params[p] : p \in DOMAIN f.bound}
  BY <1>1 DEF Range
<1>3. \A p, q \in DOMAIN f.bound : f.bound[p].name = f.bound[q].name => p = q
  BY FitsAssumption DEF IsInjective, NamesOf
<1>4. /\ Range(NamesOf(values)) = {f.bound[p].name : p \in DOMAIN f.bound}
      /\ Range(NamesOf(params)) = {f.bound[p].name : p \in DOMAIN f.bound}
  BY <1>1 DEF Range, NamesOf
<1> HIDE DEF values
<1>5. \A s \in Range(params) : \E v \in Range(values) : v.name = s.name /\ HasFlatValues(v.value, s.shape)
  BY <1>1, <1>2
<1>6. ValuesAreOf(d, params)
  BY <1>4, <1>5 DEF ValuesAreOf, values
<1>7. ASSUME NEW p \in DOMAIN f.bound
      PROVE  ValuesOf(d, params)[f.bound[p].name] = CellsAt(f, p, k)
  <2> DEFINE n == f.bound[p].name
  <2>1. (CHOOSE s \in Range(params) : s.name = n) = params[p]
    <3>1. params[p] \in Range(params) /\ params[p].name = n
      BY <1>2
    <3>2. \A s \in Range(params) : s.name = n => s = params[p]
      BY <1>2, <1>3
    <3> HIDE DEF n
    <3> QED BY <3>1, <3>2
  <2>2. (CHOOSE v \in Range(values) : v.name = n) = values[p]
    <3>1. values[p] \in Range(values) /\ values[p].name = n
      BY <1>1, <1>2
    <3>2. \A v \in Range(values) : v.name = n => v = values[p]
      BY <1>1, <1>2, <1>3
    <3> HIDE DEF n
    <3> QED BY <3>1, <3>2
  <2>3. ValuesOf(d, params)[n] = ValueOf(d, CHOOSE s \in Range(params) : s.name = n)
    BY <1>4 DEF ValuesOf
  <2>4. ValueOf(d, params[p]) = FlatValues((CHOOSE v \in Range(values) : v.name = n).value)
    BY DEF ValueOf, values
  <2> HIDE DEF n
  <2>5. ValuesOf(d, params)[n] = FlatValues(values[p].value)
    BY <2>1, <2>2, <2>3, <2>4
  <2> QED BY <2>5, <1>1 DEF n
<1> QED BY <1>6, <1>7

LEMMA ToldReadable ==
    ASSUME NEW f \in WritableFits, NEW file, NEW S, file.lines \in Seq(S), Tells(file, f),
           NEW model, NEW data, Portable(file, model, data)
    PROVE  Readable(file)
<1> DEFINE docs == Documents(file)
<1> DEFINE records == SubSeq(docs, 2, Len(docs) - 1)
<1> DEFINE s == file.lines
<1> DEFINE m == Total(f)
<1> DEFINE h == s[1]
<1> DEFINE t == s[m + 2].trailer
<1>1. m \in Nat \ {0} /\ m = Len(s) - 2
  BY DrawsArePositive DEF Tells
<1>2. /\ docs = s /\ Len(docs) = m + 2 /\ Head(docs) = h /\ Last(docs) = s[m + 2]
      /\ DOMAIN records = 1..m /\ Len(records) = m /\ records # <<>>
      /\ \A k \in 1..m : records[k] = s[k + 1]
  BY ToldFile
<1>3. /\ DOMAIN s[m + 2] = {"trailer"} /\ t \notin {Null, Other}
      /\ Marker(h) /\ HeaderIsSound(h) /\ h.draw_count = m
      /\ TrailerAgrees(h, t)
  <2> HIDE DEF m
  <2> QED BY <1>1, PortableSays
<1>4. /\ h.chain_count = f.settings.chains /\ h.settings.num_draws = f.settings.draws
      /\ h.chain_order = UpTo(f.settings.chains)
  BY DEF Tells
<1>5. /\ DOMAIN h.params = DOMAIN f.bound
      /\ \A p \in DOMAIN f.bound : h.params[p].name = f.bound[p].name /\ h.params[p].shape = f.bound[p].shape
  BY ToldParams
<1>6. \A k \in 1..m : /\ DrawIsSound(h, s[k + 1], k - 1) /\ s[k + 1].values = DrawOf(f, k).values
                      /\ s[k + 1].chain = ChainAt(f, k) /\ s[k + 1].draw = DrawAt(f, k)
  BY ToldDraws
<1> HIDE DEF docs, records, s, h, t
<1>7. \A k \in 1..m : RecordIsReadable(h, s[k + 1])
  <2> SUFFICES ASSUME NEW k \in 1..m PROVE RecordIsReadable(h, s[k + 1])
    OBVIOUS
  <2> DEFINE d == s[k + 1]
  <2>1. DrawIsSound(h, d, k - 1) /\ d.values = DrawOf(f, k).values
    BY <1>6
  <2> HIDE DEF d, m
  <2>2. Get(d, "values") \notin {Null, Other}
    BY <2>1 DEF DrawIsSound
  <2>3. ValuesAreOf(d, h.params)
    BY <1>5, <2>1, <2>2, ToldValues DEF m
  <2>4. RecordIsReadable(h, d)
    BY <1>3, <2>1, <2>3, ReadableRecord
  <2> QED BY <2>4 DEF d
<1>8. \A k, j \in 1..m : s[k + 1].chain = s[j + 1].chain /\ s[k + 1].draw = s[j + 1].draw => k = j
  <2> SUFFICES ASSUME NEW k \in 1..m, NEW j \in 1..m,
                      s[k + 1].chain = s[j + 1].chain /\ s[k + 1].draw = s[j + 1].draw
               PROVE  k = j
    OBVIOUS
  <2>1. ChainAt(f, k) = ChainAt(f, j) /\ DrawAt(f, k) = DrawAt(f, j)
    BY <1>6
  <2>2. k - 1 = j - 1 /\ k \in Int /\ j \in Int
    BY <2>1, DrawCells
  <2> QED BY <2>2
<1>9. CountsAgree(h, t, records)
  <2>1. IsInt(Get(h, "chain_count")) /\ IsInt(Get(h, "draw_count")) /\ ChainOrder(h) = UpTo(f.settings.chains)
    BY <1>3, <1>4, ReadableHeader
  <2>2. OptionalCount(h, "chain_count", f.settings.chains) /\ OptionalCount(h, "draw_count", Total(f))
    BY <1>3, <1>4, <2>1 DEF OptionalCount, m
  <2>3. /\ {"draw_count", "draws_per_chain"} \subseteq DOMAIN t
        /\ t.draw_count = h.draw_count /\ t.draws_per_chain = h.settings.num_draws
        /\ t.draw_count \notin {Null, Other} /\ t.draws_per_chain \notin {Null, Other}
    BY <1>3, TrailerSays
  <2>4. OptionalCount(t, "draw_count", Total(f)) /\ OptionalCount(t, "draws_per_chain", f.settings.draws)
    BY <1>3, <1>4, <2>3 DEF OptionalCount, Get, IsInt, m
  <2>5. /\ records # <<>> /\ DOMAIN records = 1..Total(f) /\ Len(records) = Total(f)
        /\ \A k \in 1..Total(f) : records[k].chain = ChainAt(f, k) /\ records[k].draw = DrawAt(f, k)
    BY <1>2, <1>6
  <2> HIDE DEF m
  <2> QED BY <2>1, <2>2, <2>4, <2>5, ToldCounts
<1>10. \A k \in 2..Len(docs) - 1 : k - 1 \in 1..m /\ k = (k - 1) + 1 /\ docs[k] = s[(k - 1) + 1]
  BY <1>1, <1>2
<1>11. \A k \in 2..Len(docs) - 1 : RecordIsReadable(h, docs[k])
  BY <1>7, <1>10
<1>12. \A k, j \in 2..Len(docs) - 1 : docs[k].chain = docs[j].chain /\ docs[k].draw = docs[j].draw => k = j
  <2> SUFFICES ASSUME NEW k \in 2..Len(docs) - 1, NEW j \in 2..Len(docs) - 1,
                      docs[k].chain = docs[j].chain, docs[k].draw = docs[j].draw
               PROVE  k = j
    OBVIOUS
  <2>1. k - 1 = j - 1
    BY <1>8, <1>10
  <2> QED BY <2>1
<1>13. /\ Get(h, "draws_format") = "v0-provisional" /\ SpecsAreNamed(Get(h, "params"))
       /\ HasChainOrder(h) /\ Get(h, "sample_stats_mode") \in {Null, "per_draw_v1", "per_draw_v2"}
  BY <1>3, ReadableHeader
<1>14. Get(Last(docs), "trailer") = t
  BY <1>2, <1>3 DEF Get, t
<1>15. Len(docs) >= 2
  BY <1>1, <1>2
<1> QED BY <1>2, <1>3, <1>9, <1>11, <1>12, <1>13, <1>14, <1>15 DEF Readable, docs, records, t

\* The lenient reader reads the fit.
LEMMA ToldVariables ==
    ASSUME NEW f \in WritableFits, NEW file, NEW S, file.lines \in Seq(S), Tells(file, f),
           NEW model, NEW data, Portable(file, model, data)
    PROVE  PosteriorVariables(ReadPosterior(file)) = FitVariables(f)
<1> DEFINE docs == Documents(file)
<1> DEFINE records == SubSeq(docs, 2, Len(docs) - 1)
<1> DEFINE s == file.lines
<1> DEFINE m == Total(f)
<1> DEFINE h == s[1]
<1> DEFINE C == f.settings.chains
<1> DEFINE D == f.settings.draws
<1> DEFINE read == ReadPosterior(file)
<1> DEFINE cells == {<<records[k].chain, records[k].draw>> : k \in DOMAIN records}
<1> DEFINE at(cell) == CHOOSE d \in Range(records) : <<d.chain, d.draw>> = cell
<1>1. C \in Nat \ {0} /\ D \in Nat \ {0} /\ m = C * D /\ m \in Nat \ {0} /\ m = Len(s) - 2
  BY FitsAssumption, DrawsArePositive DEF Total, Tells
<1>2. /\ Len(docs) = m + 2 /\ Head(docs) = h
      /\ DOMAIN records = 1..m /\ Len(records) = m
      /\ \A k \in 1..m : records[k] = s[k + 1]
  BY ToldFile
<1>3. Marker(h) /\ HeaderIsSound(h)
  <2> HIDE DEF m
  <2> QED BY <1>1, PortableSays
<1>4. ChainOrder(h) = UpTo(C)
  <2>1. h.chain_order = UpTo(C)
    BY DEF Tells
  <2> HIDE DEF h, C
  <2> QED BY <2>1, <1>3, ReadableHeader
<1>5. /\ DOMAIN h.params = DOMAIN f.bound
      /\ \A p \in DOMAIN f.bound : h.params[p].name = f.bound[p].name /\ h.params[p].shape = f.bound[p].shape
  BY ToldParams
<1>6. \A k \in 1..m : /\ DrawIsSound(h, s[k + 1], k - 1) /\ s[k + 1].values = DrawOf(f, k).values
                      /\ s[k + 1].chain = ChainAt(f, k) /\ s[k + 1].draw = DrawAt(f, k)
  BY ToldDraws
<1>7. /\ read.params = [k \in DOMAIN h.params |-> [name |-> h.params[k].name, shape |-> h.params[k].shape]]
      /\ read.chains = ChainOrder(h) /\ read.draws_per_chain = Len(records) \div Len(ChainOrder(h))
      /\ \A cell \in cells : read.records[cell].values = ValuesOf(at(cell), h.params)
  BY <1>2 DEF ReadPosterior
<1> HIDE DEF docs, records, s, h, read
<1>8. Len(UpTo(C)) = C /\ \A c \in 1..C : UpTo(C)[c] = c - 1
  <2> HIDE DEF C
  <2> QED BY <1>1 DEF UpTo
<1>9. read.draws_per_chain = D
  <2>1. Len(ChainOrder(h)) = C
    BY <1>4, <1>8
  <2> HIDE DEF m, C, D
  <2>2. (C * D) \div C = D
    BY <1>1
  <2> QED BY <1>1, <1>2, <1>7, <2>1, <2>2
<1>10. Cells(read) = FitCells(f)
  BY <1>4, <1>7, <1>8, <1>9 DEF Cells, FitCells
<1>11. Range(read.params) = {[name |-> p.name, shape |-> p.shape] : p \in Range(f.bound)}
  <2>1. DOMAIN read.params = DOMAIN f.bound
    BY <1>5, <1>7
  <2>2. \A k \in DOMAIN f.bound : read.params[k] = [name |-> f.bound[k].name, shape |-> f.bound[k].shape]
    BY <1>5, <1>7
  <2> QED BY <2>1, <2>2 DEF Range
<1>12. ASSUME NEW c \in 1..C, NEW e \in 0..D - 1
       PROVE  \E k \in 1..m : /\ ChainAt(f, k) = c - 1 /\ DrawAt(f, k) = e
                              /\ <<c - 1, e>> \in cells /\ at(<<c - 1, e>>) = s[k + 1]
  <2>1. c - 1 \in 0..C - 1
    BY <1>1
  <2>2. PICK k \in 1..m : ChainAt(f, k) = c - 1 /\ DrawAt(f, k) = e
    BY <2>1, CellDraws
  <2> DEFINE cell == <<c - 1, e>>
  <2>3. records[k] \in Range(records) /\ <<records[k].chain, records[k].draw>> = cell
    BY <1>2, <1>6, <2>2 DEF Range
  <2>4. cell \in cells
    BY <1>2, <2>3
  <2>5. ASSUME NEW d \in Range(records), <<d.chain, d.draw>> = cell PROVE d = records[k]
    <3>1. PICK j \in 1..m : d = records[j]
      BY <1>2 DEF Range
    <3>2. ChainAt(f, j) = ChainAt(f, k) /\ DrawAt(f, j) = DrawAt(f, k)
      BY <1>2, <1>6, <2>2, <2>5, <3>1
    <3>3. j - 1 = k - 1 /\ j \in Int /\ k \in Int
      BY <3>2, DrawCells
    <3> QED BY <3>1, <3>3
  <2> HIDE DEF cell
  <2>6. at(cell) = records[k]
    BY <2>3, <2>5
  <2> QED BY <1>2, <2>2, <2>4, <2>6 DEF cell
<1>13. ASSUME NEW p \in DOMAIN f.bound, NEW c \in 1..C, NEW e \in 0..D - 1
       PROVE  read.records[<<read.chains[c], e>>].values[f.bound[p].name]
                = SampleOf(f, f.bound[p].name, <<c, e>>)
  <2>1. read.chains[c] = c - 1
    BY <1>4, <1>7, <1>8
  <2>2. PICK k \in 1..m : /\ ChainAt(f, k) = c - 1 /\ DrawAt(f, k) = e
                          /\ <<c - 1, e>> \in cells /\ at(<<c - 1, e>>) = s[k + 1]
    BY <1>12
  <2>3. read.records[<<c - 1, e>>].values = ValuesOf(s[k + 1], h.params)
    BY <1>7, <2>2
  <2>4. ValuesOf(s[k + 1], h.params)[f.bound[p].name] = CellsAt(f, p, k)
    <3> DEFINE d == s[k + 1]
    <3>1. Get(d, "values") \notin {Null, Other} /\ d.values = DrawOf(f, k).values
      BY <1>6 DEF DrawIsSound
    <3> HIDE DEF d
    <3>2. ValuesOf(d, h.params)[f.bound[p].name] = CellsAt(f, p, k)
      BY <1>5, <3>1, ToldValues
    <3> QED BY <3>2 DEF d
  <2>5. CellsAt(f, p, k) = SampleOf(f, f.bound[p].name, <<c, e>>)
    <3>1. CellsAt(f, p, k) = f.result.samples[f.bound[p].name][(c - 1) + 1][e + 1] /\ (c - 1) + 1 = c
      BY <2>2 DEF CellsAt, ChainAt, DrawAt
    <3> QED BY <3>1 DEF SampleOf
  <2> QED BY <2>1, <2>3, <2>4, <2>5
<1> DEFINE Read(p) == [cell \in Cells(read) |-> read.records[<<read.chains[cell[1]], cell[2]>>].values[p.name]]
<1> DEFINE Fitted(p) == [cell \in FitCells(f) |-> SampleOf(f, p.name, cell)]
<1>14. ASSUME NEW p \in Range(f.bound) PROVE Read(p) = Fitted(p)
  <2>1. PICK j \in DOMAIN f.bound : p = f.bound[j]
    BY DEF Range
  <2>2. ASSUME NEW cell \in FitCells(f)
        PROVE  read.records[<<read.chains[cell[1]], cell[2]>>].values[p.name] = SampleOf(f, p.name, cell)
    <3>1. cell[1] \in 1..C /\ cell[2] \in 0..D - 1 /\ cell = <<cell[1], cell[2]>>
      BY DEF FitCells
    <3> QED BY <3>1, <2>1, <1>13
  <2> QED BY <2>2, <1>10
<1> HIDE DEF Read, Fitted
<1>15. FitVariables(f) = {[name |-> p.name, shape |-> p.shape, cells |-> Fitted(p)] : p \in Range(f.bound)}
  BY DEF FitVariables, Fitted
<1>16. PosteriorVariables(read) = {[name |-> p.name, shape |-> p.shape, cells |-> Read(p)] : p \in Range(read.params)}
  BY DEF PosteriorVariables, Read
<1>17. \A p : Read([name |-> p.name, shape |-> p.shape]) = Read(p)
  BY DEF Read
<1>18. {[name |-> p.name, shape |-> p.shape, cells |-> Read(p)] : p \in Range(read.params)}
         = {[name |-> p.name, shape |-> p.shape, cells |-> Fitted(p)] : p \in Range(f.bound)}
  <2>1. ASSUME NEW p \in Range(read.params)
        PROVE  \E q \in Range(f.bound) : /\ p.name = q.name /\ p.shape = q.shape /\ Read(p) = Fitted(q)
    <3>1. PICK q \in Range(f.bound) : p = [name |-> q.name, shape |-> q.shape]
      BY <1>11
    <3> QED BY <3>1, <1>14, <1>17
  <2>2. ASSUME NEW q \in Range(f.bound)
        PROVE  \E p \in Range(read.params) : /\ p.name = q.name /\ p.shape = q.shape /\ Read(p) = Fitted(q)
    <3>1. [name |-> q.name, shape |-> q.shape] \in Range(read.params)
      BY <1>11
    <3> QED BY <3>1, <1>14, <1>17
  <2> QED BY <2>1, <2>2
<1> QED BY <1>15, <1>16, <1>18 DEF read

\* Of the files the posterior stream can be, the fit is told of each that the
\* strict reader accepts.
LEMMA ToldIsOneFit ==
    ASSUME NEW S, run.posterior.lines \in Seq(S), fit \in WritableFits,
           Portable(run.posterior, run.model, run.data) => Tells(run.posterior, fit)
    PROVE  PortableIsOneFit
<1> SUFFICES ASSUME run.posterior # Null, Portable(run.posterior, run.model, run.data)
             PROVE  /\ LET draws == PortableDraws(run.posterior)
                       IN  /\ Len(draws) = fit.settings.chains * fit.settings.draws
                           /\ \A k \in DOMAIN draws :
                                /\ draws[k].source_draw_index = k - 1
                                /\ draws[k].chain * fit.settings.draws + draws[k].draw = k - 1
                                /\ \A v \in Range(draws[k].values) :
                                     v.numbers = SampleOf(fit, v.name, <<draws[k].chain + 1, draws[k].draw>>)
                    /\ Readable(run.posterior)
                    /\ PosteriorVariables(ReadPosterior(run.posterior)) = FitVariables(fit)
  BY DEF PortableIsOneFit
<1>1. Tells(run.posterior, fit)
  OBVIOUS
<1>2. Readable(run.posterior) /\ PosteriorVariables(ReadPosterior(run.posterior)) = FitVariables(fit)
  BY <1>1, ToldReadable, ToldVariables
<1> QED BY <1>1, <1>2, StrictDraws

LEMMA OwnStreamTells ==
    ASSUME NEW f \in WritableFits, NEW fp, NEW file, file.lines = StreamOf(f, fp).lines
    PROVE  Tells(file, f)
<1> DEFINE s == StreamOf(f, fp).lines
<1>1. /\ Len(s) = Total(f) + 2 /\ s[1] = HeaderOf(f, fp)
      /\ \A k \in 1..Total(f) : s[k + 1] = DrawOf(f, k)
  BY StreamLines
<1> HIDE DEF s
<1>2. /\ s[1].params = HeaderOf(f, Null).params /\ s[1].settings.num_draws = f.settings.draws
      /\ s[1].chain_count = f.settings.chains /\ s[1].chain_order = UpTo(f.settings.chains)
      /\ s[1].draw_count = Total(f) /\ s[1].sample_stats_mode = "per_draw_v2"
  <2> DEFINE h == HeaderOf(f, fp)
  <2>1. /\ h.settings.num_draws = f.settings.draws
        /\ h.chain_count = f.settings.chains /\ h.chain_order = UpTo(f.settings.chains)
        /\ h.draw_count = Total(f) /\ h.sample_stats_mode = "per_draw_v2"
    BY HeaderFields
  <2>2. h.params = HeaderOf(f, Null).params
    BY DEF HeaderOf, HeaderLine, Joined, Marked
  <2> HIDE DEF h
  <2> QED BY <1>1, <2>1, <2>2 DEF h
<1> QED BY <1>1, <1>2 DEF Tells, s

\* A line of another fit of the model in the place of one of these.
Spliced(file, f) ==
  \E fp, fq : \E g \in WritableFits \ {f} : \E i \in 1..Total(f) + 2 : \E line \in LinesOf(g, fq) :
    g.bound = f.bound /\ file = [StreamOf(f, fp) EXCEPT !.lines[i] = line]
DamagedStream(file, f) ==
  \/ \E fp : file \in LineDamage(StreamOf(f, fp)) \cup FieldDamage(StreamOf(f, fp))
  \/ Spliced(file, f)
\* The posterior stream is that of the fit, or what one damage has left of it.
PosteriorInv ==
  run.posterior # Null =>
    /\ fit \in WritableFits
    /\ \/ \E fp : run.posterior = StreamOf(fit, fp)
       \/ DamagedStream(run.posterior, fit) /\ \E d \in damage : d[2] # "exchange"
\* No other fit of the model has the seed, the chains and the draws of this one.
Twinless == \A g \in WritableFits \ {fit} : g.bound = fit.bound => Stamp(g) # Stamp(fit)

\* Whatever model and data it is a source for.
LEMMA PortableIsTold ==
    ASSUME PosteriorInv, Twinless, run.posterior # Null,
           NEW model, NEW data, Portable(run.posterior, model, data)
    PROVE  fit \in WritableFits /\ Tells(run.posterior, fit) /\ \E S : run.posterior.lines \in Seq(S)
<1> DEFINE Told == Tells(run.posterior, fit) /\ \E S : run.posterior.lines \in Seq(S)
<1> DEFINE file == run.posterior
<1>1. fit \in WritableFits
  BY DEF PosteriorInv
<1>2. ASSUME NEW fp, file = StreamOf(fit, fp) PROVE Told
  <2>1. file.lines \in Seq(LinesOf(fit, fp))
    BY <1>1, <1>2, StreamLines
  <2> QED BY <1>1, <1>2, <2>1, OwnStreamTells
<1>3. ASSUME NEW fp, file \in LineDamage(StreamOf(fit, fp)) PROVE Told
  <2>1. file.lines \in Seq(LinesOf(fit, fp) \cup {Blank})
    BY <1>1, <1>3, LineDamageLines
  <2>2. Portable(file, model, data) => Tells(file, fit)
    <3> HIDE DEF file
    <3> QED BY <1>1, <2>1, OwnLinesAreWhole, OwnStreamTells
  <2> QED BY <1>1, <2>1, <2>2
<1>4. ASSUME NEW fp, file \in FieldDamage(StreamOf(fit, fp)) PROVE Told
  <2>1. PICK i \in 1..Total(fit) + 2 : \E x : file.lines = [StreamOf(fit, fp).lines EXCEPT ![i] = x]
    <3> DEFINE s == StreamOf(fit, fp).lines
    <3>1. DOMAIN s = 1..Total(fit) + 2 /\ file \in FieldDamage([lines |-> s, ended |-> TRUE])
      BY <1>1, <1>4, StreamLines
    <3> HIDE DEF s, file
    <3>2. \E i \in DOMAIN s : \E x : /\ file.lines = [s EXCEPT ![i] = x]
                                     /\ x \in DamagedFields(s[i]) \/ ("trailer" \in DOMAIN s[i] /\ DOMAIN x = {"trailer"})
      BY <3>1, FieldDamageLine
    <3> QED BY <3>1, <3>2 DEF s
  <2>2. PICK x : file.lines = [StreamOf(fit, fp).lines EXCEPT ![i] = x]
    BY <2>1
  <2>3. file.lines \in Seq(LinesOf(fit, fp) \cup {x})
    <3> DEFINE s == StreamOf(fit, fp).lines
    <3>1. s \in Seq(LinesOf(fit, fp)) /\ Len(s) = Total(fit) + 2
      BY <1>1, StreamLines
    <3> HIDE DEF s, file
    <3>2. [s EXCEPT ![i] = x] \in Seq(LinesOf(fit, fp) \cup {x})
      BY <3>1, OneLineChanged
    <3> QED BY <3>2, <2>2 DEF s
  <2>4. Portable(file, model, data) => Tells(file, fit)
    <3> HIDE DEF file
    <3> QED BY <1>1, <1>4, FieldDamageTells
  <2> QED BY <1>1, <2>3, <2>4
<1>5. ASSUME Spliced(file, fit) PROVE FALSE
  <2>1. PICK fp : \E fq : \E g \in WritableFits \ {fit} : \E i \in 1..Total(fit) + 2 : \E line \in LinesOf(g, fq) :
           g.bound = fit.bound /\ file = [StreamOf(fit, fp) EXCEPT !.lines[i] = line]
    BY <1>5 DEF Spliced
  <2>2. PICK fq : \E g \in WritableFits \ {fit} : \E i \in 1..Total(fit) + 2 : \E line \in LinesOf(g, fq) :
           g.bound = fit.bound /\ file = [StreamOf(fit, fp) EXCEPT !.lines[i] = line]
    BY <2>1
  <2>3. PICK g \in WritableFits \ {fit} : \E i \in 1..Total(fit) + 2 : \E line \in LinesOf(g, fq) :
           g.bound = fit.bound /\ file = [StreamOf(fit, fp) EXCEPT !.lines[i] = line]
    BY <2>2
  <2>4. PICK i \in 1..Total(fit) + 2 : \E line \in LinesOf(g, fq) :
           g.bound = fit.bound /\ file = [StreamOf(fit, fp) EXCEPT !.lines[i] = line]
    BY <2>3
  <2>5. PICK line \in LinesOf(g, fq) : g.bound = fit.bound /\ file = [StreamOf(fit, fp) EXCEPT !.lines[i] = line]
    BY <2>4
  <2>6. Stamp(g) # Stamp(fit)
    BY <2>3, <2>5 DEF Twinless
  <2>7. file.lines = [StreamOf(fit, fp).lines EXCEPT ![i] = line]
    <3> DEFINE w == StreamOf(fit, fp)
    <3> DEFINE s == w.lines
    <3>1. w = [lines |-> s, ended |-> TRUE]
      BY <1>1, StreamLines
    <3>2. file = [w EXCEPT !.lines[i] = line]
      BY <2>5
    <3> HIDE DEF w, file
    <3>3. [w EXCEPT !.lines[i] = line].lines = [w.lines EXCEPT ![i] = line]
      <4> HIDE DEF s
      <4> QED BY <3>1
    <3> QED BY <3>2, <3>3 DEF w
  <2>8. Portable(file, model, data)
    OBVIOUS
  <2> HIDE DEF file
  <2> QED BY <1>1, <2>6, <2>7, <2>8, SpliceIsRefused
<1> QED BY <1>1, <1>2, <1>3, <1>4, <1>5 DEF PosteriorInv, DamagedStream

LEMMA PosteriorMatters == PosteriorInv /\ Twinless => PortableIsOneFit
<1> SUFFICES ASSUME PosteriorInv, Twinless, run.posterior # Null,
                    Portable(run.posterior, run.model, run.data)
             PROVE  PortableIsOneFit
  BY DEF PortableIsOneFit
<1> QED BY PortableIsTold, ToldIsOneFit

\* Damage only strikes a stream that is still as it was written.
LEMMA DamageStrikes ==
    ASSUME PreparedInv, PosteriorInv, NEW kind, kind # "exchange", NEW files,
           Damage("posterior", kind, files)
    PROVE  /\ fit' = fit /\ fit \in WritableFits
           /\ \E fp : run.posterior = StreamOf(fit, fp)
           /\ \E file \in files : run'.posterior = file
           /\ \E d \in damage' : d[2] # "exchange"
<1>1. /\ run.posterior # Null /\ \A d \in damage : d[2] = "exchange"
      /\ fit' = fit /\ damage' = damage \cup {<<"posterior", kind>>}
  BY DEF Damage
<1>2. PICK file \in files : run' = [run EXCEPT !["posterior"] = file]
  BY DEF Damage
<1>3. run'.posterior = file
  BY <1>2 DEF PreparedInv, Artifacts
<1>4. <<"posterior", kind>> \in damage' /\ <<"posterior", kind>>[2] # "exchange"
  BY <1>1
<1> QED BY <1>1, <1>3, <1>4 DEF PosteriorInv

LEMMA SplicedLines ==
    ASSUME NEW f \in WritableFits, NEW fp, fit = f, NEW file \in SpliceDamage(StreamOf(f, fp))
    PROVE  Spliced(file, f)
<1> DEFINE w == StreamOf(f, fp)
<1>1. DOMAIN w.lines = 1..Total(f) + 2
  BY StreamLines
<1>2. file \in SpliceDamage(w)
  OBVIOUS
<1> HIDE DEF w
<1>3. PICK g \in {h \in WritableFits \ {fit} : h.bound = fit.bound} :
        file \in {[w EXCEPT !.lines[i] = Written(g).lines[j]] : i \in DOMAIN w.lines, j \in DOMAIN Written(g).lines}
  BY <1>2 DEF SpliceDamage
<1>4. PICK i \in DOMAIN w.lines : \E j \in DOMAIN Written(g).lines :
        file = [w EXCEPT !.lines[i] = Written(g).lines[j]]
  BY <1>3
<1>5. PICK j \in DOMAIN Written(g).lines : file = [w EXCEPT !.lines[i] = Written(g).lines[j]]
  BY <1>4
<1> DEFINE fq == Fingerprint(run.model, run.data)
<1> DEFINE line == Written(g).lines[j]
<1>6. line \in LinesOf(g, fq)
  <2> DEFINE s == Written(g).lines
  <2>1. s \in Seq(LinesOf(g, fq))
    BY <1>3, StreamLines DEF Written, StreamOf
  <2>2. j \in 1..Len(s)
    <3>1. j \in DOMAIN s
      BY <1>5
    <3> HIDE DEF s, fq
    <3> QED BY <2>1, <3>1, LenProperties
  <2>3. s[j] \in LinesOf(g, fq)
    <3> HIDE DEF s, fq
    <3> QED BY <2>1, <2>2, ElementOfSeq
  <2> QED BY <2>3
<1> HIDE DEF line, fq
<1>7. file = [w EXCEPT !.lines[i] = line]
  BY <1>5 DEF line
<1>8. g \in WritableFits \ {f} /\ i \in 1..Total(f) + 2 /\ g.bound = f.bound
  BY <1>1, <1>3
<1> QED BY <1>6, <1>7, <1>8 DEF Spliced, w

LEMMA PosteriorStep == PreparedInv /\ PosteriorInv /\ [Next]_vars => PosteriorInv'
<1> SUFFICES ASSUME PreparedInv, PosteriorInv, [Next]_vars PROVE PosteriorInv'
  OBVIOUS
<1>1. CASE UNCHANGED <<run, fit, damage>>
  BY <1>1 DEF PosteriorInv
<1>2. DOMAIN run = Artifacts
  BY DEF PreparedInv
<1>3. ASSUME NEW f \in WritableFits, NEW fp, run'.posterior = StreamOf(f, fp), fit' = f
      PROVE  PosteriorInv'
  BY <1>3 DEF PosteriorInv
<1>4. ASSUME run'.posterior = run.posterior, fit' = fit, damage \subseteq damage'
      PROVE  PosteriorInv'
  <2>1. CASE run.posterior = Null
    BY <1>4, <2>1 DEF PosteriorInv
  <2>2. CASE run.posterior # Null
    <3>1. fit' \in WritableFits
      BY <1>4, <2>2 DEF PosteriorInv
    <3>2. CASE \E fp : run.posterior = StreamOf(fit, fp)
      BY <1>4, <3>1, <3>2 DEF PosteriorInv
    <3>3. CASE DamagedStream(run.posterior, fit) /\ \E d \in damage : d[2] # "exchange"
      <4>1. DamagedStream(run'.posterior, fit') /\ \E d \in damage' : d[2] # "exchange"
        BY <1>4, <3>3
      <4> QED BY <3>1, <4>1 DEF PosteriorInv
    <3> QED BY <2>2, <3>2, <3>3 DEF PosteriorInv
  <2> QED BY <2>1, <2>2
<1>5. ASSUME NEW i \in Inputs, Prepare(i) PROVE PosteriorInv'
  <2>1. run'.posterior = run.posterior /\ fit' = fit /\ damage' = damage
    BY <1>5, <1>2 DEF Prepare, Artifacts
  <2> QED BY <2>1, <1>4
<1>6. ASSUME NEW f \in Fits, Sample(f) PROVE PosteriorInv'
  <2> DEFINE file == Written(f)
  <2>1. run' = [run EXCEPT !.posterior = file] /\ fit' = f /\ f \in WritableFits
    BY <1>6 DEF Sample, WritableFits
  <2>2. run'.posterior = file
    <3> HIDE DEF file
    <3> QED BY <2>1, <1>2 DEF Artifacts
  <2>3. file = StreamOf(f, Fingerprint(run.model, run.data))
    BY DEF Written, StreamOf
  <2> HIDE DEF file
  <2> QED BY <2>1, <2>2, <2>3, <1>3
<1>7. ASSUME NEW f \in Fits, NEW data, Exchange(f, data) PROVE PosteriorInv'
  <2> DEFINE file == StreamOf(f, Fingerprint(run.model, data))
  <2>1. run' = [run EXCEPT !.posterior = file] /\ fit' = f /\ f \in WritableFits
    BY <1>7 DEF Exchange, WritableFits, StreamOf
  <2>2. run'.posterior = file
    <3> HIDE DEF file
    <3> QED BY <2>1, <1>2 DEF Artifacts
  <2> QED BY <2>1, <2>2, <1>3
<1>8. ASSUME NEW s \in Simulations, Simulate(s) PROVE PosteriorInv'
  <2> DEFINE file == WritePriorPredictive(s.result, s.settings)
  <2>1. run' = [run EXCEPT !.prior_predictive = file] /\ fit' = fit /\ damage' = damage
    BY <1>8 DEF Simulate
  <2> HIDE DEF file
  <2>2. run'.posterior = run.posterior
    BY <2>1
  <2> QED BY <2>1, <2>2, <1>4
<1>9. CASE Predict
  <2> DEFINE file == Prediction(ReadPosterior(run.posterior),
                       SetToSeq(ObservedDataNames(run.model) \cap DOMAIN ReadDataArrays(run.data)))
  <2>1. run' = [run EXCEPT !.posterior_predictive = file] /\ fit' = fit /\ damage' = damage
    BY <1>9 DEF Predict
  <2> HIDE DEF file
  <2>2. run'.posterior = run.posterior
    BY <2>1
  <2> QED BY <2>1, <2>2, <1>4
<1>10. ASSUME NEW a \in Streams \ {"posterior"}, NEW kind, NEW files, Damage(a, kind, files)
       PROVE  PosteriorInv'
  <2>1. PICK file : run' = [run EXCEPT ![a] = file]
    BY <1>10 DEF Damage
  <2>2. fit' = fit /\ damage \subseteq damage'
    BY <1>10 DEF Damage
  <2>3. run'.posterior = run.posterior
    BY <2>1
  <2> QED BY <2>2, <2>3, <1>4
<1>11. ASSUME Damage("posterior", "lines", LineDamage(run.posterior)) PROVE PosteriorInv'
  <2>1. /\ fit' = fit /\ fit \in WritableFits /\ \E fp : run.posterior = StreamOf(fit, fp)
        /\ run'.posterior \in LineDamage(run.posterior) /\ \E d \in damage' : d[2] # "exchange"
    BY <1>11, DamageStrikes
  <2> QED BY <2>1 DEF PosteriorInv, DamagedStream
<1>12. ASSUME Damage("posterior", "field", FieldDamage(run.posterior)) PROVE PosteriorInv'
  <2>1. /\ fit' = fit /\ fit \in WritableFits /\ \E fp : run.posterior = StreamOf(fit, fp)
        /\ run'.posterior \in FieldDamage(run.posterior) /\ \E d \in damage' : d[2] # "exchange"
    BY <1>12, DamageStrikes
  <2> QED BY <2>1 DEF PosteriorInv, DamagedStream
<1>13. ASSUME Damage("posterior", "splice", SpliceDamage(run.posterior)) PROVE PosteriorInv'
  <2>1. /\ fit' = fit /\ fit \in WritableFits /\ \E fp : run.posterior = StreamOf(fit, fp)
        /\ run'.posterior \in SpliceDamage(run.posterior) /\ \E d \in damage' : d[2] # "exchange"
    BY <1>13, DamageStrikes
  <2>2. Spliced(run'.posterior, fit)
    BY <2>1, SplicedLines
  <2> QED BY <2>1, <2>2 DEF PosteriorInv, DamagedStream
<1>14. CASE ExportRun
  BY <1>14, <1>1 DEF ExportRun
<1>15. ASSUME NEW r \in Requests, Generate(r) PROVE PosteriorInv'
  BY <1>15, <1>1 DEF Generate
<1>16. CASE UNCHANGED vars
  BY <1>16, <1>1 DEF vars
<1>17. ASSUME NEW a \in Streams, Damage(a, "lines", LineDamage(run[a])) PROVE PosteriorInv'
  BY <1>17, <1>10, <1>11
<1>18. ASSUME NEW a \in Streams, Damage(a, "field", FieldDamage(run[a])) PROVE PosteriorInv'
  BY <1>18, <1>10, <1>12
<1> QED BY <1>5, <1>6, <1>7, <1>8, <1>9, <1>13, <1>14, <1>15, <1>16, <1>17, <1>18 DEF Next

\* A stream that the strict reader takes as a source is the whole of one fit, in
\* its order, and the lenient reader reads the same of it (posterior_source.py,
\* protocol_v0.py), for every fit and whichever of its lines was lost, repeated,
\* moved, damaged in a field or exchanged with one of another fit: provided that
\* no other fit of the model has the same seed, chains and draws, since its lines
\* carry nothing else that tells one fit from another.
THEOREM PortableStreamsAreWhole == Spec => [](Twinless => PortableIsOneFit)
<1>1. Init => PreparedInv /\ PosteriorInv
  BY PreparedInit DEF Init, PosteriorInv, Artifacts
<1>2. PreparedInv /\ PosteriorInv /\ [Next]_vars => (PreparedInv /\ PosteriorInv)'
  BY PreparedStep, PosteriorStep
<1>3. PreparedInv /\ PosteriorInv => (Twinless => PortableIsOneFit)
  BY PosteriorMatters
<1> QED BY <1>1, <1>2, <1>3, PTL DEF Spec

-----------------------------------------------------------------------------
(***************************************************************************)
(* The pairs of a published generation.  What the command has verified of  *)
(* them is said of parsed documents and of the strict reader's draws; the  *)
(* fit is what those draws are of, and the design is what the plots read.  *)
(***************************************************************************)

\* A document whose variables are a sequence, if it is a canonical one.
Sequential(doc) == IsGenerationDoc(doc) => DataDoc(doc) \in Seq(Range(DataDoc(doc)))
\* What an engine can have put in a line, whatever happened to its fields.
FromEngine(line) ==
  /\ "dataset" \in DOMAIN line => Sequential(line.dataset)
  /\ "source_lineage" \in DOMAIN line /\ line.source_lineage # Other
     /\ "source_draw_index" \in DOMAIN line.source_lineage =>
       line.source_lineage.source_draw_index \in Nat

LEMMA AtLast ==
    ASSUME NEW a, NEW b, a.name # b.name
    PROVE  At(Object(<<a, b>>), b.name) = b.value
<1> DEFINE fields == <<a, b>>
<1>1. Object(fields).fields = fields /\ Range(fields) = {a, b}
  BY DEF Object, Range
<1>2. (CHOOSE f \in {a, b} : f.name = b.name) = b
  OBVIOUS
<1> QED BY <1>1, <1>2 DEF At

LEMMA CanonicalIsSequential ==
    ASSUME NEW T, NEW fields \in Seq(T)
    PROVE  Sequential(CanonicalDoc(fields))
<1> DEFINE doc == CanonicalDoc(fields)
<1> DEFINE variables == [k \in DOMAIN fields |-> Field(fields[k].name, TypedArray(fields[k].value))]
<1> SUFFICES ASSUME IsGenerationDoc(doc) PROVE DataDoc(doc) \in Seq(Range(DataDoc(doc)))
  BY DEF Sequential
<1>1. At(doc, "variables") = Object(fields)
  BY AtLast DEF CanonicalDoc, Field
<1>2. IsCanonical(doc)
  BY DEF IsGenerationDoc, IsCanonical
<1>3. DataDoc(doc) = variables
  BY <1>1, <1>2 DEF DataDoc, Object
<1>4. DOMAIN variables = 1..Len(fields) /\ Len(fields) \in Nat
  BY LenProperties
<1>5. variables \in Seq(Range(variables))
  <2> HIDE DEF variables
  <2>1. \A k \in 1..Len(fields) : variables[k] \in Range(variables)
    BY <1>4 DEF Range
  <2>2. variables \in [1..Len(fields) -> Range(variables)]
    <3>1. variables = [k \in 1..Len(fields) |-> variables[k]]
      BY <1>4 DEF variables
    <3> QED BY <2>1, <3>1
  <2> QED BY <1>4, <2>2, SeqDef
<1> QED BY <1>3, <1>5

\* The fields of a design, of a part of it, and an outcome after them.
LEMMA DesignIsSequence ==
    ASSUME NEW design, DataDoc(design) \in Seq(Range(DataDoc(design)))
    PROVE  LET T == [name : {v.name : v \in Range(DataDoc(design))},
                     value : {VariableJson(v.value) : v \in Range(DataDoc(design))}]
           IN  DesignFields(design) \in Seq(T)
<1> DEFINE d == DataDoc(design)
<1> DEFINE T == [name : {v.name : v \in Range(d)}, value : {VariableJson(v.value) : v \in Range(d)}]
<1> DEFINE fields == [k \in DOMAIN d |-> Field(d[k].name, VariableJson(d[k].value))]
<1>1. DOMAIN d = 1..Len(d) /\ Len(d) \in Nat
  BY LenProperties
<1>2. \A k \in 1..Len(d) : Field(d[k].name, VariableJson(d[k].value)) \in T
  BY <1>1 DEF Field, Range
<1> HIDE DEF T, d
<1>3. fields \in [1..Len(d) -> T]
  BY <1>1, <1>2
<1>4. fields \in Seq(T)
  <2> HIDE DEF fields
  <2> QED BY <1>1, <1>3, SeqDef
<1> QED BY <1>4 DEF T, d, DesignFields

LEMMA DatasetsAreSequential ==
    ASSUME NEW design, DataDoc(design) \in Seq(Range(DataDoc(design)))
    PROVE  /\ \A pair : Sequential(Dataset(design, pair))
           /\ \A doc \in WrongDatasets(design) : Sequential(doc)
<1> DEFINE T == [name : {v.name : v \in Range(DataDoc(design))},
                 value : {VariableJson(v.value) : v \in Range(DataDoc(design))}]
<1> DEFINE fields == DesignFields(design)
<1>1. fields \in Seq(T)
  BY DesignIsSequence
<1>7. \A y \in T : y.value.type = "object"
  <2>1. \A x : VariableJson(x).type = "object"
    BY DEF VariableJson, Object
  <2>2. \A y \in T : \E x : y.value = VariableJson(x)
    OBVIOUS
  <2> QED BY <2>1, <2>2
<1>8. DOMAIN fields = DOMAIN DataDoc(design)
  BY DEF DesignFields
<1> HIDE DEF T, fields
<1>2. \A x : /\ Sequential(CanonicalDoc(fields \o <<x>>))
             /\ Sequential(CanonicalDoc(<<x>> \o fields))
  <2> SUFFICES ASSUME NEW x
               PROVE  /\ Sequential(CanonicalDoc(fields \o <<x>>))
                      /\ Sequential(CanonicalDoc(<<x>> \o fields))
    OBVIOUS
  <2> DEFINE S == T \cup {x}
  <2>1. fields \in Seq(S) /\ <<x>> \in Seq(S)
    BY <1>1, SeqMonotonic
  <2> HIDE DEF S
  <2>2. fields \o <<x>> \in Seq(S) /\ <<x>> \o fields \in Seq(S)
    BY <2>1, ConcatProperties
  <2> QED BY <2>2, CanonicalIsSequential
<1>3. \A x, y : Sequential(CanonicalDoc(<<x>> \o SubSeq(fields, 2, Len(DataDoc(design))) \o <<y>>))
  <2> SUFFICES ASSUME NEW x, NEW y
               PROVE  Sequential(CanonicalDoc(<<x>> \o SubSeq(fields, 2, Len(DataDoc(design))) \o <<y>>))
    OBVIOUS
  <2> DEFINE S == T \cup {x, y}
  <2> DEFINE n == Len(DataDoc(design))
  <2>1. fields \in Seq(S) /\ <<x>> \in Seq(S) /\ <<y>> \in Seq(S)
    BY <1>1, SeqMonotonic
  <2>2. n \in Nat /\ DOMAIN fields = 1..n
    BY <1>8, LenProperties
  <2> HIDE DEF S, n
  <2>3. SubSeq(fields, 2, n) \in Seq(S)
    <3>1. \A k \in 2..n : fields[k] \in S
      BY <2>1, <2>2, ElementOfSeq, LenProperties
    <3> QED BY <2>2, <3>1, SubSeqProperties
  <2>4. <<x>> \o SubSeq(fields, 2, n) \in Seq(S)
    BY <2>1, <2>3, ConcatProperties
  <2>5. <<x>> \o SubSeq(fields, 2, n) \o <<y>> \in Seq(S)
    BY <2>1, <2>4, ConcatProperties
  <2> QED BY <2>5, CanonicalIsSequential DEF n
<1>4. ASSUME NEW values PROVE Sequential(Object(fields \o <<Outcome(values)>>))
  <2> DEFINE x == Outcome(values)
  <2> DEFINE all == fields \o <<x>>
  <2> DEFINE doc == Object(all)
  <2>1. /\ fields \in Seq(T \cup {x}) /\ <<x>> \in Seq(T \cup {x})
        /\ \A y \in T \cup {x} : y.value.type = "object"
    <3>1. x.value.type = "object"
      BY DEF Outcome, Field, VariableJson, Object
    <3> HIDE DEF x
    <3> QED BY <1>1, <1>7, <3>1, SeqMonotonic
  <2> HIDE DEF x
  <2>2. all \in Seq(T \cup {x})
    BY <2>1, ConcatProperties
  <2>3. doc.fields = all
    BY DEF Object
  <2> HIDE DEF all, doc
  <2>4. \A k \in DOMAIN all : all[k].value.type = "object"
    BY <2>1, <2>2, ElementOfSeq, LenProperties
  <2>5. "format" \in Keys(doc) => ~IsFormat(At(doc, "format"))
    <3> SUFFICES ASSUME "format" \in Keys(doc) PROVE ~IsFormat(At(doc, "format"))
      OBVIOUS
    <3>1. \E f \in Range(all) : f.name = "format"
      BY <2>3 DEF Keys, Range
    <3>2. At(doc, "format").type = "object"
      BY <2>3, <2>4, <3>1 DEF At, Range
    <3> QED BY <3>2 DEF IsFormat
  <2>6. ~IsGenerationDoc(doc)
    BY <2>5 DEF IsGenerationDoc
  <2> QED BY <2>6 DEF Sequential, doc, all, x
<1>5. \A pair : Sequential(Dataset(design, pair))
  BY <1>2 DEF Dataset, fields
<1>6. \A doc \in WrongDatasets(design) : Sequential(doc)
  BY <1>2, <1>3, <1>4 DEF WrongDatasets, fields
<1> QED BY <1>5, <1>6

\* Every line of a stream of the engine, and of one damaged, is such a line.
LEMMA EngineStream ==
    ASSUME NEW plan, plan.count \in Nat, NEW used,
           NEW named, \A k \in 1..plan.count : named[k] \in Nat,
           NEW datasets, \A k \in 1..plan.count : Sequential(datasets[k]),
           NEW output, output = GeneratedStream(plan, named, used, datasets)
    PROVE  \E T : \E s \in Seq(T) :
             /\ output = [lines |-> s, ended |-> TRUE]
             /\ \A x \in T : FromEngine(x) /\ x = [y \in DOMAIN x |-> x[y]]
<1> DEFINE shared == Joined(GeneratedMarker,
        [workflow_phases |-> GenerationPhases, generation_model_hash |-> Hash(plan.model),
         design_hash |-> Hash(plan.design), parameter_source |-> SourceDocument(plan.source),
         count |-> plan.count, seed |-> plan.seed])
<1> DEFINE header == Joined(shared, [draw_index_base |-> "zero_based_generation_order",
                          parameter_schema |-> SchemaOf(DataDoc(ParametersUsed(plan, used[1]))),
                          dataset_schema |-> SchemaOf(DataDoc(datasets[1]))])
<1> DEFINE Draw(k) == Joined(GeneratedMarker,
              [draw_index |-> k - 1, draw_count |-> plan.count,
               parameters |-> ParametersUsed(plan, used[k]), dataset |-> datasets[k],
               source_lineage |-> Lineage(plan, named[k], k)])
<1> DEFINE trailer == [trailer |-> Joined(shared, [draw_count |-> plan.count, complete |-> TRUE])]
<1> DEFINE draws == [k \in 1..plan.count |-> Draw(k)]
<1> DEFINE s == <<header>> \o draws \o <<trailer>>
<1> DEFINE T == {header, trailer} \cup {Draw(k) : k \in 1..plan.count}
<1>1. output = [lines |-> s, ended |-> TRUE]
  BY DEF GeneratedStream
<1>2. FromEngine(header) /\ header = [y \in DOMAIN header |-> header[y]]
  <2>1. {"dataset", "source_lineage"} \cap DOMAIN header = {}
    BY DEF Joined, GeneratedMarker
  <2>2. header = [y \in DOMAIN header |-> header[y]]
    BY DEF Joined
  <2> HIDE DEF header
  <2> QED BY <2>1, <2>2 DEF FromEngine
<1>3. FromEngine(trailer) /\ trailer = [y \in DOMAIN trailer |-> trailer[y]]
  <2>1. DOMAIN trailer = {"trailer"} /\ trailer = [y \in DOMAIN trailer |-> trailer[y]]
    OBVIOUS
  <2> HIDE DEF trailer
  <2> QED BY <2>1 DEF FromEngine
<1>4. ASSUME NEW k \in 1..plan.count
      PROVE  FromEngine(Draw(k)) /\ Draw(k) = [y \in DOMAIN Draw(k) |-> Draw(k)[y]]
  <2> DEFINE d == Draw(k)
  <2>1. d.dataset = datasets[k] /\ d.source_lineage = Lineage(plan, named[k], k)
    BY DEF Joined, GeneratedMarker
  <2>2. d = [y \in DOMAIN d |-> d[y]]
    BY DEF Joined
  <2>3. LET l == Lineage(plan, named[k], k)
        IN  "source_draw_index" \in DOMAIN l => l.source_draw_index \in Nat
    <3>1. named[k] \in Nat /\ k - 1 \in Nat
      OBVIOUS
    <3> QED BY <3>1 DEF Lineage
  <2> HIDE DEF d
  <2> QED BY <2>1, <2>2, <2>3 DEF FromEngine, d
<1> HIDE DEF header, trailer, Draw
<1>5. draws \in Seq(T) /\ header \in T /\ trailer \in T
  <2>1. draws \in [1..plan.count -> T]
    OBVIOUS
  <2> HIDE DEF draws, T
  <2>2. draws \in Seq(T)
    BY <2>1, SeqDef
  <2> QED BY <2>2 DEF T
<1>6. \A x \in T : FromEngine(x) /\ x = [y \in DOMAIN x |-> x[y]]
  BY <1>2, <1>3, <1>4
<1> HIDE DEF draws, T
<1>7. s \in Seq(T)
  BY <1>5, Framed
<1> QED BY <1>1, <1>6, <1>7

LEMMA DamagedIsFromEngine ==
    ASSUME NEW w, w = [y \in DOMAIN w |-> w[y]], FromEngine(w), NEW d \in DamagedFields(w)
    PROVE  FromEngine(d)
<1>1. Altered(d, w)
  BY DamagedFieldsAlter
<1>2. {"dataset", "source_lineage"} \cap IntegerFields = {}
  BY DEF IntegerFields
<1>3. "dataset" \in DOMAIN d => Sequential(d.dataset)
  <2>1. Sequential(Other)
    BY DEF Sequential, IsGenerationDoc
  <2> QED BY <1>1, <1>2, <2>1 DEF Altered, FromEngine
<1>4. "source_lineage" \in DOMAIN d =>
        "source_lineage" \in DOMAIN w /\ d.source_lineage \in {w.source_lineage, Other}
  BY <1>1, <1>2 DEF Altered
<1> QED BY <1>3, <1>4 DEF FromEngine

LEMMA EngineLines ==
    ASSUME NEW plan, plan.count \in Nat, DataDoc(plan.design) \in Seq(Range(DataDoc(plan.design))),
           NEW output \in EngineOutputs(plan)
    PROVE  \E T : output.lines \in Seq(T) /\ \A x \in T : FromEngine(x)
<1> DEFINE pairs == 1..plan.count
<1> DEFINE right == [k \in pairs |-> Dataset(plan.design, k)]
<1> DEFINE first == [k \in pairs |-> 0]
<1>1. /\ \A k \in pairs : Sequential(right[k])
      /\ \A k \in pairs : first[k] \in Nat
  BY DatasetsAreSequential
<1>2. \A doc \in WrongDatasets(plan.design) : \A k \in pairs : Sequential([right EXCEPT ![1] = doc][k])
  BY <1>1, DatasetsAreSequential
<1>3. SourceIndexes(plan) \subseteq Nat
  BY DEF SourceIndexes
<1>4. \/ \E named, used \in [pairs -> SourceIndexes(plan)] : output = GeneratedStream(plan, named, used, right)
      \/ output \in LineDamage(GeneratedStream(plan, first, first, right))
      \/ output \in FieldDamage(GeneratedStream(plan, first, first, right))
      \/ \E doc \in WrongDatasets(plan.design) :
           output = GeneratedStream(plan, first, first, [right EXCEPT ![1] = doc])
  <2>1. output \in OutputsOf(plan, first, right)
    BY DEF EngineOutputs
  <2> HIDE DEF right, first
  <2> QED BY <2>1 DEF OutputsOf
<1> HIDE DEF right, first
<1>5. ASSUME NEW named, \A k \in pairs : named[k] \in Nat, NEW used, NEW datasets,
             \A k \in pairs : Sequential(datasets[k]), output = GeneratedStream(plan, named, used, datasets)
      PROVE  \E T : output.lines \in Seq(T) /\ \A x \in T : FromEngine(x)
  <2>1. PICK T : \E s \in Seq(T) : /\ output = [lines |-> s, ended |-> TRUE]
                                   /\ \A x \in T : FromEngine(x) /\ x = [y \in DOMAIN x |-> x[y]]
    BY <1>5, EngineStream
  <2>2. PICK s \in Seq(T) : output = [lines |-> s, ended |-> TRUE]
    BY <2>1
  <2> QED BY <2>1, <2>2
<1> DEFINE w == GeneratedStream(plan, first, first, right)
<1> HIDE DEF w
<1>6. PICK T : \E s \in Seq(T) : /\ w = [lines |-> s, ended |-> TRUE]
                                 /\ \A x \in T : FromEngine(x) /\ x = [y \in DOMAIN x |-> x[y]]
  <2>1. w = GeneratedStream(plan, first, first, right)
    BY DEF w
  <2> QED BY <1>1, <2>1, EngineStream
<1>7. PICK s \in Seq(T) : w = [lines |-> s, ended |-> TRUE]
  BY <1>6
<1>8. \A x \in T : FromEngine(x) /\ x = [y \in DOMAIN x |-> x[y]]
  BY <1>6
<1>9. CASE \E named, used \in [pairs -> SourceIndexes(plan)] : output = GeneratedStream(plan, named, used, right)
  <2>1. PICK named \in [pairs -> SourceIndexes(plan)], used \in [pairs -> SourceIndexes(plan)] :
          output = GeneratedStream(plan, named, used, right)
    BY <1>9
  <2> QED BY <2>1, <1>1, <1>3, <1>5
<1>10. CASE output \in LineDamage(w)
  <2>1. output.lines \in Seq(T \cup {Blank})
    BY <1>7, <1>10, DamagedLines
  <2>2. FromEngine(Blank)
    BY DEF FromEngine, Blank
  <2> QED BY <1>8, <2>1, <2>2
<1>11. CASE output \in FieldDamage(w)
  <2>1. PICK i \in DOMAIN s : \E x :
          /\ output.lines = [s EXCEPT ![i] = x]
          /\ x \in DamagedFields(s[i]) \/ ("trailer" \in DOMAIN s[i] /\ DOMAIN x = {"trailer"})
    BY <1>7, <1>11, FieldDamageLine
  <2>2. PICK x : /\ output.lines = [s EXCEPT ![i] = x]
                 /\ x \in DamagedFields(s[i]) \/ ("trailer" \in DOMAIN s[i] /\ DOMAIN x = {"trailer"})
    BY <2>1
  <2>3. i \in 1..Len(s) /\ s[i] \in T
    BY LenProperties, ElementOfSeq
  <2>4. FromEngine(x)
    <3>1. CASE DOMAIN x = {"trailer"}
      BY <3>1 DEF FromEngine
    <3> QED BY <2>2, <2>3, <3>1, <1>8, DamagedIsFromEngine
  <2>5. output.lines \in Seq(T \cup {x})
    BY <2>2, <2>3, OneLineChanged
  <2> QED BY <1>8, <2>4, <2>5
<1>12. CASE \E doc \in WrongDatasets(plan.design) :
              output = GeneratedStream(plan, first, first, [right EXCEPT ![1] = doc])
  BY <1>12, <1>1, <1>2, <1>5
<1> QED BY <1>4, <1>9, <1>10, <1>11, <1>12 DEF w

\* Of a published generation: its lines are the engine's, its design is a
\* sequence of variables, and its posterior is still the run's.
DrawnInv ==
  generation # Null =>
    /\ \E T : generation.output.lines \in Seq(T) /\ \A x \in T : FromEngine(x)
    /\ DataDoc(generation.plan.design) \in Seq(Range(DataDoc(generation.plan.design)))
    /\ generation.plan.source.kind = "posterior" =>
         generation.plan.source.posterior = run.posterior /\ run.posterior # Null

LEMMA GenerateDraws == ASSUME NEW r \in Requests, Generate(r) PROVE DrawnInv'
<1> DEFINE plan == PlanOf(r)
<1>1. PICK output \in EngineOutputs(plan) : /\ VerifiesAgainst(output, plan)
                                           /\ generation' = [plan |-> plan, output |-> output]
  BY DEF Generate
<1>2. /\ IsPlan(plan.source, run.model, r.count, r.seed)
      /\ r.kind = "posterior" => run.posterior # Null
      /\ run' = run
  BY DEF Generate
<1>3. /\ plan.design = r.design /\ plan.count = r.count
      /\ r.kind = "fixed" => plan.source = Fixed(r.parameters)
      /\ r.kind = "model-prior" => plan.source = ModelPrior(run.model, Null)
      /\ r.kind = "posterior" => plan.source = PosteriorOf(run.model, run.data, run.posterior)
  BY PlanOfRequest
<1> HIDE DEF plan
<1>4. plan.count \in Nat
  BY <1>2, <1>3 DEF IsPlan
<1>5. DataDoc(plan.design) \in Seq(Range(DataDoc(plan.design)))
  <2>1. IsGenerationDoc(r.design)
    BY <1>1, <1>3 DEF VerifiesAgainst
  <2> QED BY <1>3, <2>1, DesignsAssumption
<1>6. \E T : output.lines \in Seq(T) /\ \A x \in T : FromEngine(x)
  BY <1>4, <1>5, EngineLines
<1>7. plan.source.kind = "posterior" => plan.source.posterior = run.posterior /\ run.posterior # Null
  BY <1>2, <1>3, RequestsAssumption DEF Fixed, ModelPrior, PosteriorOf
<1>8. generation'.plan = plan /\ generation'.output = output
  BY <1>1
<1> QED BY <1>2, <1>5, <1>6, <1>7, <1>8 DEF DrawnInv

LEMMA DrawnStep == PreparedInv /\ DrawnInv /\ [Next]_vars => DrawnInv'
<1> SUFFICES ASSUME PreparedInv, DrawnInv, [Next]_vars PROVE DrawnInv'
  OBVIOUS
<1>1. ASSUME generation' = generation,
             generation = Null \/ run.posterior = Null \/ run'.posterior = run.posterior
      PROVE  DrawnInv'
  BY <1>1 DEF DrawnInv
<1>2. DOMAIN run = Artifacts
  BY DEF PreparedInv
<1>3. ASSUME NEW i \in Inputs, Prepare(i) PROVE DrawnInv'
  <2>1. generation' = generation /\ run'.posterior = run.posterior
    BY <1>2, <1>3 DEF Prepare, Artifacts
  <2> QED BY <2>1, <1>1
<1>4. ASSUME NEW f \in Fits, Sample(f) PROVE DrawnInv'
  BY <1>1, <1>4 DEF Sample
<1>5. ASSUME NEW f \in Fits, NEW data, Exchange(f, data) PROVE DrawnInv'
  BY <1>1, <1>5 DEF Exchange
<1>6. ASSUME NEW s \in Simulations, Simulate(s) PROVE DrawnInv'
  <2> DEFINE file == WritePriorPredictive(s.result, s.settings)
  <2>1. run' = [run EXCEPT !.prior_predictive = file] /\ generation' = generation
    BY <1>6 DEF Simulate
  <2> HIDE DEF file
  <2>2. run'.posterior = run.posterior
    BY <2>1
  <2> QED BY <2>1, <2>2, <1>1
<1>7. CASE Predict
  <2> DEFINE file == Prediction(ReadPosterior(run.posterior),
                       SetToSeq(ObservedDataNames(run.model) \cap DOMAIN ReadDataArrays(run.data)))
  <2>1. run' = [run EXCEPT !.posterior_predictive = file] /\ generation' = generation
    BY <1>7 DEF Predict
  <2> HIDE DEF file
  <2>2. run'.posterior = run.posterior
    BY <2>1
  <2> QED BY <2>1, <2>2, <1>1
<1>8. ASSUME NEW a, NEW kind, NEW files, Damage(a, kind, files) PROVE DrawnInv'
  BY <1>1, <1>8 DEF Damage
<1>9. CASE ExportRun
  BY <1>1, <1>9 DEF ExportRun
<1>10. ASSUME NEW r \in Requests, Generate(r) PROVE DrawnInv'
  BY <1>10, GenerateDraws
<1>11. CASE UNCHANGED vars
  BY <1>1, <1>11 DEF vars
<1> QED BY <1>3, <1>4, <1>5, <1>6, <1>7, <1>8, <1>9, <1>10, <1>11 DEF Next

\* What the plots read of a canonical document.
LEMMA CanonicalIsRead ==
    ASSUME NEW doc, IsGenerationDoc(doc), IsInjective(NamesOf(DataDoc(doc)))
    PROVE  /\ DOMAIN ReadDataArrays(doc) = {v.name : v \in Range(DataDoc(doc))}
           /\ \A k \in DOMAIN DataDoc(doc) :
                Magnitudes(ReadDataArrays(doc)[DataDoc(doc)[k].name]) = Magnitudes(DataDoc(doc)[k].value)
<1> DEFINE fields == At(doc, "variables").fields
<1> DEFINE d == DataDoc(doc)
<1> DEFINE arrays == ReadDataArrays(doc)
<1>1. "format" \in Keys(doc) /\ IsCanonical(doc) /\ IsDataDoc(doc)
  BY DEF IsGenerationDoc, IsCanonical
<1>2. d = [k \in DOMAIN fields |-> Field(fields[k].name, TypedArray(fields[k].value))]
  BY <1>1 DEF DataDoc
<1>3. arrays = [n \in {f.name : f \in Range(fields)} |-> ReadArray((CHOOSE f \in Range(fields) : f.name = n).value)]
  BY <1>1 DEF ReadDataArrays, ReadFields
<1>4. \A f \in Range(fields) : IsCanonicalVariable(f.value)
  BY <1>1 DEF IsDataDoc
<1>5. IsInjective(NamesOf(d))
  OBVIOUS
<1> HIDE DEF fields, d, arrays
<1>6. DOMAIN d = DOMAIN fields
      /\ \A k \in DOMAIN fields : d[k].name = fields[k].name /\ d[k].value = TypedArray(fields[k].value)
  BY <1>2 DEF Field
<1>7. DOMAIN arrays = {v.name : v \in Range(d)}
  BY <1>3, <1>6 DEF Range
<1>8. ASSUME NEW k \in DOMAIN d PROVE Magnitudes(arrays[d[k].name]) = Magnitudes(d[k].value)
  <2> DEFINE v == fields[k].value
  <2> DEFINE items == At(v, "values").items
  <2>1. fields[k] \in Range(fields) /\ IsCanonicalVariable(v)
    BY <1>4, <1>6 DEF Range
  <2>2. \A f \in Range(fields) : f.name = fields[k].name => f = fields[k]
    BY <1>5, <1>6 DEF Range, IsInjective, NamesOf
  <2>3. (CHOOSE f \in Range(fields) : f.name = fields[k].name) = fields[k]
    BY <2>1, <2>2
  <2>4. arrays[d[k].name] = ReadArray(v)
    BY <1>3, <1>6, <2>1, <2>3
  <2>5. v.type = "object" /\ At(v, "values").type = "array"
    BY <2>1 DEF IsCanonicalVariable, IsTypedArray
  <2>6. ReadArray(v) = [shape |-> ShapeArray(At(v, "shape")), values |-> items]
    BY <2>5 DEF ReadArray
  <2>7. PICK dtype : TypedArray(v) = [dtype |-> dtype, shape |-> ShapeArray(At(v, "shape")),
                                      values |-> [i \in DOMAIN items |-> Typed(items[i], dtype)]]
    BY <2>5 DEF TypedArray, Items
  <2>8. \A x : Typed(x, dtype).n = x.n
    BY DEF Typed, Real
  <2> HIDE DEF v, items
  <2>9. Magnitudes(ReadArray(v)) = Magnitudes(TypedArray(v))
    BY <2>6, <2>7, <2>8 DEF Magnitudes
  <2> QED BY <1>6, <2>4, <2>9 DEF v
<1> QED BY <1>7, <1>8 DEF d, arrays

LEMMA DesignIsRead ==
    ASSUME NEW doc, NEW design, IsGenerationDoc(doc), IsGenerationDoc(design),
           DataDoc(doc) \in Seq(Range(DataDoc(doc))), DataDoc(design) \in Seq(Range(DataDoc(design))),
           IsInjective(NamesOf(DataDoc(doc))),
           Len(DataDoc(doc)) >= Len(DataDoc(design)),
           SubSeq(DataDoc(doc), 1, Len(DataDoc(design))) = DataDoc(design)
    PROVE  \A n \in DOMAIN ReadDataArrays(design) :
             Magnitudes(ReadDataArrays(doc)[n]) = Magnitudes(ReadDataArrays(design)[n])
<1> DEFINE d == DataDoc(doc)
<1> DEFINE e == DataDoc(design)
<1>1. /\ DOMAIN d = 1..Len(d) /\ Len(d) \in Nat /\ DOMAIN e = 1..Len(e) /\ Len(e) \in Nat
      /\ Len(d) >= Len(e) /\ SubSeq(d, 1, Len(e)) = e
  BY LenProperties
<1>2. d \in Seq(Range(d)) /\ IsInjective(NamesOf(d))
  OBVIOUS
<1> HIDE DEF d, e
<1>3. \A k \in DOMAIN e : k \in DOMAIN d /\ e[k] = d[k]
  <2>1. \A k \in 1..Len(e) : SubSeq(d, 1, Len(e))[k] = d[k]
    BY <1>1, <1>2
  <2> QED BY <1>1, <2>1
<1>4. IsInjective(NamesOf(e))
  BY <1>2, <1>3 DEF IsInjective, NamesOf
<1>5. ASSUME NEW k \in DOMAIN e
      PROVE  Magnitudes(ReadDataArrays(doc)[e[k].name]) = Magnitudes(ReadDataArrays(design)[e[k].name])
  <2>1. Magnitudes(ReadDataArrays(doc)[d[k].name]) = Magnitudes(d[k].value)
    BY <1>2, <1>3, CanonicalIsRead DEF d
  <2>2. Magnitudes(ReadDataArrays(design)[e[k].name]) = Magnitudes(e[k].value)
    BY <1>4, CanonicalIsRead DEF e
  <2> QED BY <2>1, <2>2, <1>3
<1>6. DOMAIN ReadDataArrays(design) = {v.name : v \in Range(e)}
  BY <1>4, CanonicalIsRead DEF e
<1> QED BY <1>5, <1>6 DEF Range

\* The parameters that are those of a draw of a told file are the fit's.
LEMMA DrawOfFit ==
    ASSUME NEW f \in WritableFits, NEW file, NEW S, file.lines \in Seq(S), Tells(file, f),
           NEW model, NEW data, Portable(file, model, data),
           NEW pair, IsDrawOf(pair, file), pair.source_lineage.source_draw_index \in Nat
    PROVE  LET l == pair.source_lineage
           IN  {<<v.name, Magnitudes(v.value).numbers>> : v \in Range(DataDoc(pair.parameters))} =
               {<<n, SampleOf(f, n, <<l.chain + 1, l.draw>>)>> : n \in Range(NamesOf(f.bound))}
<1> DEFINE l == pair.source_lineage
<1> DEFINE i == l.source_draw_index + 1
<1> DEFINE draws == PortableDraws(file)
<1> DEFINE params == Head(file.lines).params
<1> DEFINE variables == DataDoc(pair.parameters)
<1> DEFINE Numbers(v) == [j \in DOMAIN v.value.values |-> v.value.values[j].n]
<1>1. /\ l.source_draw_index < Len(draws)
      /\ l.chain = draws[i].chain /\ l.draw = draws[i].draw
      /\ [k \in DOMAIN variables |-> <<variables[k].name, variables[k].value.shape>>] =
           [k \in DOMAIN params |-> <<params[k].name, params[k].shape>>]
      /\ \A k \in DOMAIN variables : Numbers(variables[k]) = draws[i].values[k].numbers
  BY DEF IsDrawOf
<1>2. /\ Len(file.lines) = Total(f) + 2 /\ Total(f) \in Nat \ {0}
      /\ Head(file.lines) = file.lines[1]
  BY DrawsArePositive DEF Tells
<1>3. /\ DOMAIN params = DOMAIN f.bound /\ \A p \in DOMAIN f.bound : params[p].name = f.bound[p].name
  BY <1>2, ToldParams
<1>4. draws = [k \in 1..Len(file.lines) - 2 |->
                [source_draw_index |-> k - 1, chain |-> file.lines[k + 1].chain, draw |-> file.lines[k + 1].draw,
                 values |-> [p \in DOMAIN params |->
                   [name |-> params[p].name,
                    numbers |-> Flattened(file.lines[k + 1].values[p].value, params[p].shape)]]]]
  BY DEF PortableDraws
<1>5. /\ Len(draws) = Total(f)
      /\ \A k \in DOMAIN draws : \A v \in Range(draws[k].values) :
           v.numbers = SampleOf(f, v.name, <<draws[k].chain + 1, draws[k].draw>>)
  BY StrictDraws DEF Total
<1>6. \A v : Magnitudes(v.value).numbers = Numbers(v)
  BY DEF Magnitudes
<1>7. l.source_draw_index \in Nat
  OBVIOUS
<1> HIDE DEF l, draws, params, variables, Numbers
<1>8. i \in DOMAIN draws
  BY <1>1, <1>2, <1>4, <1>5, <1>7
<1>9. /\ DOMAIN draws[i].values = DOMAIN params
      /\ \A k \in DOMAIN params : draws[i].values[k].name = params[k].name
  BY <1>4, <1>8
<1> HIDE DEF i
<1>10. DOMAIN variables = DOMAIN f.bound /\ \A k \in DOMAIN f.bound : variables[k].name = f.bound[k].name
  BY <1>1, <1>3
<1>11. ASSUME NEW k \in DOMAIN f.bound
       PROVE  Numbers(variables[k]) = SampleOf(f, f.bound[k].name, <<l.chain + 1, l.draw>>)
  <2>1. draws[i].values[k] \in Range(draws[i].values) /\ draws[i].values[k].name = f.bound[k].name
    BY <1>3, <1>9 DEF Range
  <2>2. draws[i].values[k].numbers = SampleOf(f, f.bound[k].name, <<draws[i].chain + 1, draws[i].draw>>)
    BY <1>5, <1>8, <2>1
  <2> QED BY <1>1, <1>10, <2>2
<1>12. Range(NamesOf(f.bound)) = {f.bound[k].name : k \in DOMAIN f.bound}
  BY DEF Range, NamesOf
<1>13. {<<v.name, Numbers(v)>> : v \in Range(variables)}
         = {<<n, SampleOf(f, n, <<l.chain + 1, l.draw>>)>> : n \in Range(NamesOf(f.bound))}
  <2>1. ASSUME NEW v \in Range(variables)
        PROVE  \E n \in Range(NamesOf(f.bound)) :
                 v.name = n /\ Numbers(v) = SampleOf(f, n, <<l.chain + 1, l.draw>>)
    <3>1. PICK k \in DOMAIN variables : v = variables[k]
      BY DEF Range
    <3> QED BY <3>1, <1>10, <1>11, <1>12
  <2>2. ASSUME NEW n \in Range(NamesOf(f.bound))
        PROVE  \E v \in Range(variables) :
                 v.name = n /\ Numbers(v) = SampleOf(f, n, <<l.chain + 1, l.draw>>)
    <3>1. PICK k \in DOMAIN f.bound : n = f.bound[k].name
      BY <1>12
    <3>2. variables[k] \in Range(variables)
      BY <1>10 DEF Range
    <3> QED BY <3>1, <3>2, <1>10, <1>11
  <2> QED BY <2>1, <2>2
<1> QED BY <1>6, <1>13 DEF variables, l

LEMMA PairsMatter ==
    PosteriorInv /\ GenerationInv /\ DrawnInv /\ Twinless => GeneratedParametersAreDraws
<1> SUFFICES ASSUME PosteriorInv, GenerationInv, DrawnInv, Twinless, generation # Null
             PROVE  GeneratedParametersAreDraws
  BY DEF GeneratedParametersAreDraws
<1> DEFINE plan == generation.plan
<1> DEFINE output == generation.output
<1> DEFINE s == output.lines
<1> DEFINE n == plan.count
<1> DEFINE pairs == Pairs(output)
<1> DEFINE design == ReadDataArrays(plan.design)
<1>1. Published(plan) /\ ParsesAsGenerated(output) /\ VerifiesAgainst(output, plan)
  BY DEF GenerationInv
<1>2. PICK T : s \in Seq(T) /\ \A x \in T : FromEngine(x)
  BY DEF DrawnInv
<1>3. /\ DataDoc(plan.design) \in Seq(Range(DataDoc(plan.design)))
      /\ plan.source.kind = "posterior" => plan.source.posterior = run.posterior /\ run.posterior # Null
  BY DEF DrawnInv
<1> HIDE DEF plan, output
<1>4. /\ Len(s) >= 3 /\ Len(s) - 2 = n
      /\ HeaderParses(s[1]) /\ \A k \in 2..Len(s) - 1 : DrawParses(s[1], s[k], k - 2)
      /\ IsGenerationDoc(plan.design)
      /\ \A p \in Range(pairs) : KeepsDesign(p, plan.design)
      /\ SourceIsVerified(output, plan)
  BY <1>1 DEF ParsesAsGenerated, VerifiesAgainst
<1>5. pairs = SubSeq(s, 2, Len(s) - 1)
  BY DEF Pairs
<1> HIDE DEF s, pairs, n
<1>6. Len(s) \in Nat /\ DOMAIN s = 1..Len(s) /\ n \in Nat /\ Len(s) = n + 2
  BY <1>2, <1>4, LenProperties
<1>7. Len(pairs) = n /\ DOMAIN pairs = 1..n /\ \A k \in 1..n : pairs[k] = s[k + 1]
  BY <1>2, <1>5, <1>6
<1>8. SourceDocument(plan.source).kind = plan.source.kind
  BY <1>1, SourceKinds DEF Published
<1>9. s[1].parameter_source = SourceDocument(plan.source)
  BY <1>4 DEF SourceIsVerified, s
<1>10. ASSUME NEW k \in DOMAIN pairs
       PROVE  LET l == pairs[k].source_lineage
              IN  /\ l.kind = plan.source.kind
                  /\ l.kind = "fixed" => DataDoc(pairs[k].parameters) = DataDoc(plan.source.parameters)
                  /\ l.kind = "posterior" =>
                       {<<v.name, Magnitudes(v.value).numbers>> : v \in Range(DataDoc(pairs[k].parameters))} =
                       {<<m, SampleOf(fit, m, <<l.chain + 1, l.draw>>)>> : m \in Range(NamesOf(fit.bound))}
                  /\ \A m \in DOMAIN design :
                       Magnitudes(ReadDataArrays(pairs[k].dataset)[m]) = Magnitudes(design[m])
  <2> DEFINE p == pairs[k]
  <2> DEFINE l == p.source_lineage
  <2>1. /\ p \in Range(pairs) /\ DrawParses(s[1], p, k - 1)
    <3>1. k + 1 \in 2..Len(s) - 1 /\ (k + 1) - 2 = k - 1 /\ p = s[k + 1]
      BY <1>6, <1>7
    <3>2. p \in Range(pairs)
      BY DEF Range
    <3> QED BY <1>4, <3>1, <3>2
  <2>2. FromEngine(p)
    <3>1. s[k + 1] \in T
      BY <1>2, <1>6, <1>7, ElementOfSeq
    <3> QED BY <1>2, <1>7, <3>1
  <2> HIDE DEF p
  <2>3. /\ DOMAIN p = DrawKeys /\ IsLineage(l, s[1].parameter_source.kind, k - 1)
        /\ DocMatches(p.dataset, s[1].dataset_schema)
    BY <2>1 DEF DrawParses, HasKeys
  <2>4. /\ l \notin {Null, Other} /\ l.kind = plan.source.kind
        /\ DOMAIN l = LineageKeys(plan.source.kind)
    BY <2>3, <1>8, <1>9 DEF IsLineage, HasKeys
  <2>5. l.kind = "fixed" => DataDoc(p.parameters) = DataDoc(plan.source.parameters)
    BY <2>1, <2>4, <1>4, <1>8, <1>9 DEF SourceIsVerified, s, pairs
  <2>6. ASSUME l.kind = "posterior"
        PROVE  {<<v.name, Magnitudes(v.value).numbers>> : v \in Range(DataDoc(p.parameters))} =
               {<<m, SampleOf(fit, m, <<l.chain + 1, l.draw>>)>> : m \in Range(NamesOf(fit.bound))}
    <3>1. /\ Portable(run.posterior, plan.model, plan.source.data)
          /\ IsDrawOf(p, run.posterior) /\ run.posterior # Null
      BY <2>1, <2>4, <2>6, <1>3, <1>4, <1>8, <1>9 DEF SourceIsVerified, s, pairs
    <3>2. l.source_draw_index \in Nat
      <4>1. "source_lineage" \in DOMAIN p /\ "source_draw_index" \in DOMAIN l
        BY <2>3, <2>4, <2>6 DEF DrawKeys, LineageKeys
      <4> QED BY <2>2, <2>4, <4>1 DEF FromEngine
    <3>3. fit \in WritableFits /\ Tells(run.posterior, fit) /\ \E S : run.posterior.lines \in Seq(S)
      BY <3>1, PortableIsTold
    <3> QED BY <3>1, <3>2, <3>3, DrawOfFit
  <2>7. \A m \in DOMAIN design : Magnitudes(ReadDataArrays(p.dataset)[m]) = Magnitudes(design[m])
    <3> DEFINE d == DataDoc(p.dataset)
    <3>1. IsGenerationDoc(p.dataset) /\ SchemaOf(d) = s[1].dataset_schema
      BY <2>3 DEF DocMatches
    <3>2. d \in Seq(Range(d))
      BY <2>2, <2>3, <3>1 DEF FromEngine, Sequential, DrawKeys
    <3>3. IsInjective(NamesOf(SchemaOf(d)))
      BY <3>1, <1>4 DEF HeaderParses, IsSchema
    <3>4. NamesOf(SchemaOf(d)) = NamesOf(d)
      <4> HIDE DEF d
      <4> QED BY DEF NamesOf, SchemaOf
    <3>5. Len(d) >= Len(DataDoc(plan.design)) /\ SubSeq(d, 1, Len(DataDoc(plan.design))) = DataDoc(plan.design)
      BY <2>1, <1>4 DEF KeepsDesign, p
    <3> QED BY <3>1, <3>2, <3>3, <3>4, <3>5, <1>3, <1>4, DesignIsRead
  <2> QED BY <2>4, <2>5, <2>6, <2>7 DEF p
<1> QED BY <1>7, <1>10 DEF GeneratedParametersAreDraws, plan, output, pairs, n

\* A published pair is what its lineage says, its parameters the fixed ones or
\* those of the named draw of the fit, and the plots read the design in its
\* dataset (generated_datasets.py), for every fit that no other of its model is
\* mistaken for, whatever its stream went through before and whichever draws the
\* engine named, used or left out.
THEOREM PublishedPairsAreDraws == Spec => [](Twinless => GeneratedParametersAreDraws)
<1>1. Init => PreparedInv /\ PosteriorInv /\ DrawnInv
  BY PreparedInit DEF Init, PosteriorInv, DrawnInv, Artifacts
<1>2. /\ PreparedInv /\ PosteriorInv /\ DrawnInv /\ [Next]_vars
           => (PreparedInv /\ PosteriorInv /\ DrawnInv)'
  BY PreparedStep, PosteriorStep, DrawnStep
<1>3. PosteriorInv /\ GenerationInv /\ DrawnInv => (Twinless => GeneratedParametersAreDraws)
  BY PairsMatter
<1> QED BY <1>1, <1>2, <1>3, Generations, PTL DEF Spec
=============================================================================
