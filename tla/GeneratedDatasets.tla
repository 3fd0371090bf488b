------------------------- MODULE GeneratedDatasets -------------------------
(* The stream of generated datasets: pairs of parameters and a dataset with   *)
(* the draw they come from, how a command parses one an engine returned,      *)
(* verifies it against the payloads of its plan, and selects one dataset of   *)
(* it to be fitted (_run_artifacts/generated_datasets.py).                    *)
EXTENDS GenerationPlan

GeneratedMarker == [generated_datasets_format |-> "v0-provisional",
                    artifact_kind |-> "generated_dataset_pairs", artifact_scope |-> "joint_draws"]
GenerationPhases == "generate"
MarkerKeys == DOMAIN GeneratedMarker
PlanKeys == {"workflow_phases", "generation_model_hash", "design_hash", "parameter_source", "count", "seed"}
HeaderKeys == MarkerKeys \cup PlanKeys \cup {"draw_index_base", "parameter_schema", "dataset_schema"}
DrawKeys == MarkerKeys \cup {"draw_index", "draw_count", "parameters", "dataset", "source_lineage"}
TrailerKeys == MarkerKeys \cup PlanKeys \cup {"draw_count", "complete"}
IsGenerated(d) == \A f \in MarkerKeys : d[f] = GeneratedMarker[f]

\* A schema: a name, a type and a shape for each variable.
IsSchema(s) ==
  /\ s \notin {Null, Other}
  /\ \A k \in DOMAIN s : /\ HasKeys(s[k], {"name", "dtype", "shape"})
                         /\ s[k].name \notin {Null, Other}
                         /\ IsIn(s[k].dtype, SupportedDtypes)
                         /\ SafeIntegers(s[k].shape)
  /\ IsInjective(NamesOf(s))
SchemaOf(variables) ==
  [k \in DOMAIN variables |-> [name |-> variables[k].name, dtype |-> variables[k].value.dtype,
                               shape |-> variables[k].value.shape]]

\* A canonical document, with integers that every reader can hold.
IsGenerationDoc(doc) ==
  /\ doc \notin {Null, Other}
  /\ doc.type = "object" /\ "format" \in Keys(doc) /\ IsFormat(At(doc, "format"))
  /\ IsDataDoc(doc)
  /\ \A f \in Range(DataDoc(doc)) :
       /\ \A k \in DOMAIN f.value.shape : f.value.shape[k] <= MaxSafeInteger
       /\ f.value.dtype \in {"int32", "int64"} =>
            \A v \in Range(f.value.values) : -MaxSafeInteger <= v.n /\ v.n <= MaxSafeInteger
DocMatches(doc, schema) == IsGenerationDoc(doc) /\ SchemaOf(DataDoc(doc)) = schema

LineageKeys(kind) ==
  CASE kind = "fixed" -> {"kind"}
    [] kind = "model-prior" -> {"kind", "source_draw_index"}
    [] OTHER -> {"kind", "source_draw_index", "chain", "draw"}
IsLineage(l, kind, index) ==
  /\ HasKeys(l, LineageKeys(kind)) /\ l.kind = kind
  /\ \A f \in DOMAIN l \ {"kind"} : SafeInteger(l[f])
  /\ kind = "model-prior" => l.source_draw_index = index

HeaderParses(h) ==
  /\ HasKeys(h, HeaderKeys) /\ IsGenerated(h)
  /\ h.workflow_phases = GenerationPhases
  /\ IsHash(h.generation_model_hash) /\ IsHash(h.design_hash)
  /\ IsSourceDocument(h.parameter_source)
  /\ IsIn(h.count, 1..MaxGenerationCount) /\ SafeInteger(h.seed)
  /\ h.draw_index_base = "zero_based_generation_order"
  /\ IsSchema(h.parameter_schema) /\ IsSchema(h.dataset_schema)
TrailerParses(h, e) ==
  /\ HasKeys(e, {"trailer"}) /\ HasKeys(e.trailer, TrailerKeys) /\ IsGenerated(e.trailer)
  /\ \A f \in PlanKeys : e.trailer[f] = h[f]
  /\ e.trailer.draw_count = h.count
  /\ e.trailer.complete = TRUE
DrawParses(h, d, index) ==
  /\ HasKeys(d, DrawKeys) /\ IsGenerated(d)
  /\ d.draw_index = index /\ d.draw_count = h.count
  /\ DocMatches(d.parameters, h.parameter_schema)
  /\ DocMatches(d.dataset, h.dataset_schema)
  /\ IsLineage(d.source_lineage, h.parameter_source.kind, index)

ParsesAsGenerated(file) ==
  LET s == file.lines
  IN  /\ file.ended /\ Len(s) >= 3
      /\ \A k \in DOMAIN s : s[k] # Blank
      /\ HeaderParses(s[1])
      /\ TrailerParses(s[1], Last(s))
      /\ Len(s) - 2 = s[1].count
      /\ \A k \in 2..Len(s) - 1 : DrawParses(s[1], s[k], k - 2)
Pairs(file) == SubSeq(file.lines, 2, Len(file.lines) - 1)

\* The dataset of a pair starts with the design, unchanged.
KeepsDesign(pair, design) ==
  /\ Len(DataDoc(pair.dataset)) >= Len(DataDoc(design))
  /\ SubSeq(DataDoc(pair.dataset), 1, Len(DataDoc(design))) = DataDoc(design)
\* The parameters of a pair are the ones of the draw its lineage names.
\* Mutant: the draw is named and not compared.
NamesADraw(pair, file) ==
  pair.source_lineage.source_draw_index < Len(PortableDraws(file))
IsDrawOf(pair, file) ==
  LET l == pair.source_lineage
      draws == PortableDraws(file)
      variables == DataDoc(pair.parameters)
      source == draws[l.source_draw_index + 1]
  IN  /\ l.source_draw_index < Len(draws)
      /\ l.chain = source.chain /\ l.draw = source.draw
      /\ [k \in DOMAIN variables |-> <<variables[k].name, variables[k].value.shape>>] =
           [k \in DOMAIN Head(file.lines).params |->
              <<Head(file.lines).params[k].name, Head(file.lines).params[k].shape>>]
      /\ \A k \in DOMAIN variables :
           [i \in DOMAIN variables[k].value.values |-> variables[k].value.values[i].n] =
             source.values[k].numbers

SourceIsVerified(file, plan) ==
  LET s == file.lines[1].parameter_source
  IN  /\ s = SourceDocument(plan.source)
      /\ s.kind = "fixed" =>
           /\ IsGenerationDoc(plan.source.parameters)
           /\ \A p \in Range(Pairs(file)) : DataDoc(p.parameters) = DataDoc(plan.source.parameters)
      /\ s.kind = "posterior" =>
           /\ Portable(plan.source.posterior, plan.model, plan.source.data)
           /\ \A p \in Range(Pairs(file)) : IsDrawOf(p, plan.source.posterior)

\* What the command asks of the stream it was returned for its plan.
VerifiesAgainst(file, plan) ==
  LET h == file.lines[1]
  IN  /\ h.count = plan.count /\ h.seed = plan.seed
      /\ h.generation_model_hash = Hash(plan.model)
      /\ h.design_hash = Hash(plan.design)
      /\ IsGenerationDoc(plan.design)
      /\ \A p \in Range(Pairs(file)) : KeepsDesign(p, plan.design)
      /\ SourceIsVerified(file, plan)

\* One pair, as documents of their own.
Select(file, index) == [parameters |-> Pairs(file)[index + 1].parameters,
                        dataset |-> Pairs(file)[index + 1].dataset]
=============================================================================
