--------------------------- MODULE GenerationPlan ---------------------------
(* The plan of a dataset generation: parameters fixed, of a prior or of a     *)
(* posterior, the model of the outcomes and its design, as a value and as the *)
(* document of hashes that travels beside its payloads                        *)
(* (_workflow/generation_plan.py).                                            *)
(*                                                                            *)
(* Payloads are values, hashes are injective.  A plan file is a document, an  *)
(* object of objects, in the spelling the serializer gives it or in another.  *)
EXTENDS DenseFit

CONSTANT MaxGenerationCount \* how many datasets one plan may ask for

Hash(payload) == <<"sha256", payload>>
IsHash(h) == h \notin {Null, Other}
Fixed(parameters) == [kind |-> "fixed", parameters |-> parameters]
ModelPrior(model, provenance) == [kind |-> "model-prior", model |-> model, provenance |-> provenance]
PosteriorOf(model, data, posterior) ==
  [kind |-> "posterior", model |-> model, data |-> data, posterior |-> posterior]

SourceModels(source) == IF source.kind = "fixed" THEN {} ELSE {source.model}
IsPlan(source, model, count, seed) ==
  /\ SourceModels(source) \subseteq {model}
  /\ count \in 1..MaxGenerationCount
  /\ seed \in 0..MaxSafeInteger
GenerateDatasets(source, model, design, count, seed) ==
  [source |-> source, model |-> model, design |-> design, count |-> count, seed |-> seed]

SourceDocument(source) ==
  CASE source.kind = "fixed" -> [kind |-> "fixed", parameters_hash |-> Hash(source.parameters)]
    [] source.kind = "model-prior" ->
         [kind |-> "model-prior", model_hash |-> Hash(source.model),
          authored_provenance |-> source.provenance]
    [] source.kind = "posterior" ->
         [kind |-> "posterior", fit_hash |-> Hash(source.posterior),
          fit_model_hash |-> Hash(source.model), fit_data_hash |-> Hash(source.data)]

SerializePlan(plan) ==
  [document |->
     [generation_plan_format |-> "v0-provisional", kind |-> "draw",
      count |-> plan.count, seed |-> plan.seed,
      distribution |->
        [kind |-> "joint-predict", parameters |-> SourceDocument(plan.source),
         outcomes |-> [kind |-> "model-outcomes", model_hash |-> Hash(plan.model),
                       design_hash |-> Hash(plan.design)]]],
   canonical |-> TRUE]

HasKeys(d, keys) == d \notin {Null, Other} /\ DOMAIN d = keys
IsIn(v, numbers) == v \notin {Null, Other} /\ v \in numbers

IsProvenance(p) ==
  \/ p = Null
  \/ HasKeys(p, {"claimed_source_model_hash", "claimed_outcome_model_hash"})
     /\ \A f \in DOMAIN p : IsHash(p[f])
IsSourceDocument(s) ==
  \/ HasKeys(s, {"kind", "parameters_hash"}) /\ s.kind = "fixed" /\ IsHash(s.parameters_hash)
  \/ HasKeys(s, {"kind", "model_hash", "authored_provenance"}) /\ s.kind = "model-prior"
     /\ IsHash(s.model_hash) /\ IsProvenance(s.authored_provenance)
  \/ HasKeys(s, {"kind", "fit_hash", "fit_model_hash", "fit_data_hash"}) /\ s.kind = "posterior"
     /\ \A f \in DOMAIN s \ {"kind"} : IsHash(s[f])
SourceModelHashes(s) ==
  CASE s.kind = "fixed" -> {} [] s.kind = "model-prior" -> {s.model_hash} [] OTHER -> {s.fit_model_hash}

IsDistribution(d) ==
  /\ DOMAIN d = {"kind", "parameters", "outcomes"}
  /\ d.kind = "joint-predict"
  /\ IsSourceDocument(d.parameters)
  /\ DOMAIN d.outcomes = {"kind", "model_hash", "design_hash"}
  /\ d.outcomes.kind = "model-outcomes"
  /\ IsHash(d.outcomes.model_hash) /\ IsHash(d.outcomes.design_hash)
  /\ SourceModelHashes(d.parameters) \subseteq {d.outcomes.model_hash}
ParsesAsPlan(file) ==
  LET d == file.document
  IN  /\ DOMAIN d = {"generation_plan_format", "kind", "count", "seed", "distribution"}
      /\ d.generation_plan_format = "v0-provisional" /\ d.kind = "draw"
      /\ IsIn(d.count, 1..MaxGenerationCount) /\ IsIn(d.seed, 0..MaxSafeInteger)
      /\ IsDistribution(d.distribution)

\* The payloads that travel with a plan: the model and the design, and the
\* fixed parameters or the fit, Null where there are none.
HasItsPayloads(file, payloads) ==
  LET kind == file.document.distribution.parameters.kind
  IN  /\ kind = "fixed" => payloads.parameters # Null
      /\ kind = "posterior" => payloads.fit_data # Null /\ payloads.posterior # Null
ResolvedSource(file, payloads) ==
  LET s == file.document.distribution.parameters
  IN  CASE s.kind = "fixed" -> Fixed(payloads.parameters)
        [] s.kind = "model-prior" -> ModelPrior(payloads.model, s.authored_provenance)
        [] OTHER -> PosteriorOf(payloads.model, payloads.fit_data, payloads.posterior)
ResolvedPlan(file, payloads) ==
  GenerateDatasets(ResolvedSource(file, payloads), payloads.model, payloads.design,
                   file.document.count, file.document.seed)
\* Mutant: the payloads are not compared with the hashes.
ResolvesUnchecked(file, payloads) ==
  ParsesAsPlan(file) /\ HasItsPayloads(file, payloads)
Resolves(file, payloads) ==
  /\ ParsesAsPlan(file)
  /\ HasItsPayloads(file, payloads)
  /\ SerializePlan(ResolvedPlan(file, payloads)) = file
PlanIdentity(plan) == Hash(SerializePlan(plan))
=============================================================================
