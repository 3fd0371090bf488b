-------------------------- MODULE PosteriorStream --------------------------
(* The posterior draw stream: what the in-process backend writes             *)
(* (posterior_ndjson.py), what the strict reader of functional generation    *)
(* accepts as a portable source (posterior_source.py) and what the lenient   *)
(* reader of the plots makes of it (bayesite_idata/protocol_v0.py).          *)
(*                                                                           *)
(* A file is its lines and whether the last one ends in a line feed.  A line *)
(* is a JSON object, a function on the fields it has, or Blank.  A field of  *)
(* another JSON type than the readers expect is Other.  The value of a       *)
(* parameter is tagged, as a number or as a list; a probability is a number  *)
(* of units, the tolerance of the writer being one unit; a mean is a sum     *)
(* with the number of its terms.                                             *)
EXTENDS Integers, Sequences, FiniteSets, SequencesExt, FiniteSetsExt

CONSTANTS Null, Other, NaN, \* the JSON null, a value of another type, a float that is not finite
          Unit,             \* a probability of one
          MaxSafeInteger,   \* the largest integer a portable stream may hold
          MaxSourceLines,   \* how long a portable stream may be
          MaxTreeDepth      \* the deepest tree a portable stream may declare
\* Null and Other are no numbers.
ASSUME NullAssumption == {Null, Other} \cap Int = {}

Blank == [blank |-> TRUE]
Get(d, f) == IF f \in DOMAIN d THEN d[f] ELSE Null
Product(shape) == FoldLeft(LAMBDA acc, n : acc * n, 1, shape)
Number(x) == [number |-> x]
List(items) == [items |-> items]
IsNumber(v) == "number" \in DOMAIN v
IsList(v) == "items" \in DOMAIN v
NamesOf(params) == [k \in DOMAIN params |-> params[k].name]
UpTo(n) == [k \in 1..n |-> k - 1]
Marked == [draws_format |-> "v0-provisional", artifact_kind |-> "posterior_draws",
           artifact_scope |-> "conditioned"]
\* The fields of both (as @@ of TLC, which the provers do not know).
Joined(d, e) == [f \in DOMAIN d \cup DOMAIN e |-> IF f \in DOMAIN d THEN d[f] ELSE e[f]]
SamplePhases == "sample"
Fingerprint(model, data) == <<model, data>>

----------------------------------------------------------------------------
\* The writer.  A sampler's result holds its arrays by chain and draw.

FiniteNumber(x) == x # NaN
Probability(x) == FiniteNumber(x) /\ -1 <= x /\ x <= Unit + 1
\* Mutant: a rate outside its range by rounding is written as it is.
Unclamped(x) == x
Clamped(x) == IF x < 0 THEN 0 ELSE IF x > Unit THEN Unit ELSE x
Diagnostics == {"is_divergent", "acceptance_rate", "num_trajectory_expansions", "energy"}

ResultShapesMatch(bound, result, settings) ==
  /\ result.max_tree_depth = settings.max_tree_depth
  /\ \A k \in DOMAIN bound :
       result.sample_shapes[bound[k].name] = <<settings.chains, settings.draws>> \o bound[k].shape
  /\ \A f \in Diagnostics : result.diagnostic_shapes[f] = <<settings.chains, settings.draws>>
  /\ result.step_shape = <<settings.chains>>

\* Every number of the result that the artifact can hold.
ResultNumbersFit(bound, result, settings) ==
  \A c \in 1..settings.chains :
    /\ FiniteNumber(result.step_size[c]) /\ result.step_size[c] > 0
    /\ \A d \in 1..settings.draws :
         /\ result.num_trajectory_expansions[c][d] \in 0..settings.max_tree_depth
         /\ Probability(result.acceptance_rate[c][d])
         /\ FiniteNumber(result.energy[c][d])
         /\ \A k \in DOMAIN bound : \A i \in DOMAIN result.samples[bound[k].name][c][d] :
              FiniteNumber(result.samples[bound[k].name][c][d][i])

Writable(bound, result, settings) ==
  /\ bound # <<>>
  /\ ResultShapesMatch(bound, result, settings)
  /\ ResultNumbersFit(bound, result, settings)

\* The multi-indexes of a shape, the last axis fastest.
CoordinateOrder(shape) ==
  [flat \in 1..Product(shape) |->
    [axis \in DOMAIN shape |->
      ((flat - 1) \div Product(SubSeq(shape, axis + 1, Len(shape)))) % shape[axis]]]

ParameterValue(cells, shape) ==
  IF shape = <<>> THEN Number(cells[1]) ELSE List([i \in DOMAIN cells |-> Number(cells[i])])

HeaderLine(bound, settings, fingerprint) ==
  Joined(Marked,
  [workflow_phases |-> SamplePhases,
   model_data_fingerprint |-> fingerprint,
   params |-> [k \in DOMAIN bound |->
                 [name |-> bound[k].name, shape |-> bound[k].shape,
                  coordinate_order |-> CoordinateOrder(bound[k].shape)]],
   parameter_count |-> Len(bound),
   parameter_order |-> NamesOf(bound),
   packing |-> NamesOf(bound),
   settings |-> [num_warmup |-> settings.warmup, num_draws |-> settings.draws,
                 max_treedepth |-> settings.max_tree_depth, target_accept |-> settings.target_accept],
   seed |-> settings.seed,
   chain_count |-> settings.chains,
   chain_order |-> UpTo(settings.chains),
   draw_count |-> settings.chains * settings.draws,
   chains |-> settings.chains,
   sample_stats_mode |-> "per_draw_v2"])

DrawLine(bound, result, settings, chain, draw) ==
  Joined(Marked,
  [draw_index |-> chain * settings.draws + draw,
   draw_index_base |-> "zero_based_retained_draw_order",
   seed |-> settings.seed,
   draw_count |-> settings.chains * settings.draws,
   chain_count |-> settings.chains,
   chain_order |-> UpTo(settings.chains),
   chain |-> chain,
   draw |-> draw,
   parameter_count |-> Len(bound),
   parameter_order |-> NamesOf(bound),
   values |-> [k \in DOMAIN bound |->
                 [name |-> bound[k].name,
                  value |-> ParameterValue(result.samples[bound[k].name][chain + 1][draw + 1],
                                           bound[k].shape)]],
   sample_stats_mode |-> "per_draw_v2",
   diverging |-> result.is_divergent[chain + 1][draw + 1],
   tree_depth |-> result.num_trajectory_expansions[chain + 1][draw + 1],
   tree_accept |-> Clamped(result.acceptance_rate[chain + 1][draw + 1]),
   energy |-> result.energy[chain + 1][draw + 1]])

ChainStats(result, settings, chain) ==
  LET depths == result.num_trajectory_expansions[chain + 1]
      accepts == [d \in 1..settings.draws |-> Clamped(result.acceptance_rate[chain + 1][d])]
  IN  [chain |-> chain,
       draw_count |-> settings.draws,
       divergences |-> Cardinality({d \in 1..settings.draws : result.is_divergent[chain + 1][d]}),
       treedepth_histogram |-> [k \in 1..settings.max_tree_depth + 1 |->
                                  Cardinality({d \in 1..settings.draws : depths[d] = k - 1})],
       step_size |-> result.step_size[chain + 1],
       mean_accept |-> [sum |-> FoldLeft(LAMBDA a, b : a + b, 0, accepts), of |-> settings.draws]]

TrailerLine(bound, result, settings, fingerprint) ==
  [trailer |->
    Joined(Marked,
    [workflow_phases |-> SamplePhases,
     model_data_fingerprint |-> fingerprint,
     seed |-> settings.seed,
     draws_per_chain |-> settings.draws,
     chain_count |-> settings.chains,
     chain_order |-> UpTo(settings.chains),
     draw_count |-> settings.chains * settings.draws,
     parameter_count |-> Len(bound),
     parameter_order |-> NamesOf(bound),
     params |-> Len(bound),
     chains |-> [c \in 1..settings.chains |-> ChainStats(result, settings, c - 1)]])]

PosteriorDocuments(bound, result, settings, fingerprint) ==
  <<HeaderLine(bound, settings, fingerprint)>>
  \o [k \in 1..settings.chains * settings.draws |->
        DrawLine(bound, result, settings, (k - 1) \div settings.draws, (k - 1) % settings.draws)]
  \o <<TrailerLine(bound, result, settings, fingerprint)>>

WritePosterior(bound, result, settings, fingerprint) ==
  [lines |-> PosteriorDocuments(bound, result, settings, fingerprint), ended |-> TRUE]

----------------------------------------------------------------------------
\* The strict reader.

SafeInteger(v) == v \notin {Null, Other} /\ 0 <= v /\ v <= MaxSafeInteger
PositiveInteger(v) == SafeInteger(v) /\ v >= 1
Listed(v) == v \notin {Null, Other}
SafeIntegers(v) == Listed(v) /\ \A k \in DOMAIN v : SafeInteger(v[k])
IsOneOf(v, values) == v \notin {Null, Other} /\ v \in values
IsProbability(v) == IsOneOf(v, 0..Unit)
Marker(d) == \A f \in DOMAIN Marked : Get(d, f) = Marked[f]
\* Mutant of Agrees: any integer will do.
IsAnInteger(d, f, n) == SafeInteger(Get(d, f))
\* Field f of the document is the integer n.
Agrees(d, f, n) == SafeInteger(Get(d, f)) /\ Get(d, f) = n
AgreesList(d, f, s) == SafeIntegers(Get(d, f)) /\ Get(d, f) = s

ParametersAreSound(h) ==
  /\ Listed(Get(h, "params")) /\ Listed(Get(h, "parameter_order"))
  /\ \A k \in DOMAIN h.params :
       /\ h.params[k] # Other
       /\ Get(h.params[k], "name") \notin {Null, Other}
       /\ SafeIntegers(Get(h.params[k], "shape"))
  /\ IsInjective(NamesOf(h.params))
  /\ h.parameter_order = NamesOf(h.params)
  /\ Get(h, "packing") = NamesOf(h.params)
  /\ Agrees(h, "parameter_count", Len(h.params))

SettingsAreSound(s) ==
  /\ s \notin {Null, Other}
  /\ SafeInteger(Get(s, "num_warmup"))
  /\ IsOneOf(Get(s, "target_accept"), 1..Unit - 1)
  /\ IsOneOf(Get(s, "max_treedepth"), 1..MaxTreeDepth)
  /\ PositiveInteger(Get(s, "num_draws"))

HeaderIsSound(h) ==
  /\ ParametersAreSound(h)
  /\ SafeInteger(Get(h, "seed"))
  /\ SettingsAreSound(Get(h, "settings"))
  /\ IsOneOf(Get(h, "sample_stats_mode"), {"per_draw_v1", "per_draw_v2"})
  /\ SafeIntegers(Get(h, "chain_order")) /\ h.chain_order # <<>> /\ IsInjective(h.chain_order)
  /\ PositiveInteger(Get(h, "chain_count"))
  /\ Agrees(h, "chains", h.chain_count)
  /\ h.chain_count = Len(h.chain_order)
  /\ PositiveInteger(Get(h, "draw_count"))
  /\ h.draw_count = h.chain_count * h.settings.num_draws

ChainStatsAreSound(h, s, k) ==
  /\ s # Other
  /\ Agrees(s, "chain", h.chain_order[k])
  /\ Agrees(s, "draw_count", h.settings.num_draws)
  /\ Get(s, "step_size") \notin {Null, Other} /\ s.step_size > 0
  /\ Get(s, "mean_accept") \notin {Null, Other}
  /\ 0 <= s.mean_accept.sum /\ s.mean_accept.sum <= Unit * s.mean_accept.of
  /\ SafeInteger(Get(s, "divergences"))
  /\ SafeIntegers(Get(s, "treedepth_histogram"))
  /\ Len(s.treedepth_histogram) = h.settings.max_treedepth + 1

TrailerAgrees(h, t) ==
  /\ Agrees(t, "seed", h.seed)
  /\ Get(t, "parameter_order") = h.parameter_order
  /\ Agrees(t, "parameter_count", Len(h.params))
  /\ Agrees(t, "params", Len(h.params))
  /\ Agrees(t, "draw_count", h.draw_count)
  /\ Agrees(t, "draws_per_chain", h.settings.num_draws)
  /\ Agrees(t, "chain_count", h.chain_count)
  /\ AgreesList(t, "chain_order", h.chain_order)
  /\ Get(t, "posterior_identity_hash") = Get(h, "posterior_identity_hash")
  /\ Listed(Get(t, "chains")) /\ Len(t.chains) = h.chain_count
  /\ \A k \in DOMAIN t.chains : ChainStatsAreSound(h, t.chains[k], k)

\* The rows of a nested list at a depth, from the outside.
RowsAt(v, depths) ==
  LET rows[depth \in 0..depths] ==
        IF depth = 0 THEN <<v>>
        ELSE FlattenSeq([i \in DOMAIN rows[depth - 1] |-> rows[depth - 1][i].items])
  IN  rows[depths]
FitsShape(v, shape) ==
  /\ \A depth \in 1..Len(shape) : \A row \in Range(RowsAt(v, depth - 1)) :
       IsList(row) /\ Len(row.items) = shape[depth]
  /\ \A x \in Range(RowsAt(v, Len(shape))) : IsNumber(x) /\ FiniteNumber(x.number)
Flattened(v, shape) ==
  [i \in DOMAIN RowsAt(v, Len(shape)) |-> RowsAt(v, Len(shape))[i].number]

DrawIsSound(h, d, index) ==
  /\ d # Blank /\ Marker(d)
  /\ Agrees(d, "draw_index", index)
  /\ Get(d, "draw_index_base") = "zero_based_retained_draw_order"
  /\ Agrees(d, "seed", h.seed)
  /\ Agrees(d, "draw_count", h.draw_count)
  /\ Agrees(d, "chain_count", h.chain_count)
  /\ AgreesList(d, "chain_order", h.chain_order)
  /\ Agrees(d, "chain", h.chain_order[index \div h.settings.num_draws + 1])
  /\ Agrees(d, "draw", index % h.settings.num_draws)
  /\ IsOneOf(Get(d, "tree_depth"), 0..h.settings.max_treedepth)
  /\ Get(d, "sample_stats_mode") = h.sample_stats_mode
  /\ IsOneOf(Get(d, "diverging"), BOOLEAN)
  /\ IsProbability(Get(d, "tree_accept"))
  /\ IF h.sample_stats_mode = "per_draw_v2" THEN Get(d, "energy") \notin {Null, Other, NaN}
     ELSE "energy" \notin DOMAIN d
  /\ Get(d, "parameter_order") = h.parameter_order
  /\ Agrees(d, "parameter_count", Len(h.params))
  /\ Get(d, "values") \notin {Null, Other}
  /\ NamesOf(d.values) = NamesOf(h.params)
  /\ \A k \in DOMAIN h.params : FitsShape(d.values[k].value, h.params[k].shape)

\* What the trailer says of a chain is what its draws say.
StatisticsAgree(h, draws, s, k) ==
  LET n == h.settings.num_draws
      mine == SubSeq(draws, (k - 1) * n + 1, k * n)
  IN  /\ Cardinality({i \in 1..n : mine[i].diverging}) = s.divergences
      /\ s.treedepth_histogram =
           [b \in 1..h.settings.max_treedepth + 1 |->
              Cardinality({i \in 1..n : mine[i].tree_depth = b - 1})]
      /\ FoldLeft(LAMBDA a, d : a + d.tree_accept, 0, mine) * s.mean_accept.of = s.mean_accept.sum * n

Portable(file, model, data) ==
  /\ file.ended
  /\ Len(file.lines) \in 3..MaxSourceLines
  /\ \A k \in DOMAIN file.lines : file.lines[k] # Blank
  /\ DOMAIN Last(file.lines) = {"trailer"}
  /\ Last(file.lines).trailer \notin {Null, Other}
  /\ LET h == Head(file.lines)
         t == Last(file.lines).trailer
         draws == SubSeq(file.lines, 2, Len(file.lines) - 1)
     IN  /\ \A d \in {h, t} : /\ Marker(d)
                              /\ Get(d, "workflow_phases") = SamplePhases
                              /\ Get(d, "model_data_fingerprint") = Fingerprint(model, data)
         /\ HeaderIsSound(h)
         /\ h.draw_count = Len(draws)
         /\ TrailerAgrees(h, t)
         /\ \A k \in DOMAIN draws : DrawIsSound(h, draws[k], k - 1)
         /\ \A k \in DOMAIN t.chains : StatisticsAgree(h, draws, t.chains[k], k)

PortableDraws(file) ==
  LET h == Head(file.lines)
  IN  [k \in 1..Len(file.lines) - 2 |->
        LET d == file.lines[k + 1]
        IN  [source_draw_index |-> k - 1, chain |-> d.chain, draw |-> d.draw,
             values |-> [p \in DOMAIN h.params |->
                           [name |-> h.params[p].name,
                            numbers |-> Flattened(d.values[p].value, h.params[p].shape)]]]]

----------------------------------------------------------------------------
\* The lenient reader.

\* The lines that are not blank.
Documents(file) ==
  LET kept[k \in 0..Len(file.lines)] ==
        IF k = 0 THEN <<>>
        ELSE IF file.lines[k] = Blank THEN kept[k - 1]
        ELSE Append(kept[k - 1], file.lines[k])
  IN  kept[Len(file.lines)]
IsInt(v) == v \notin {Null, Other}
OptionalCount(d, f, n) == Get(d, f) = Null \/ (IsInt(Get(d, f)) /\ d[f] = n)
IsShape(v) == Listed(v) /\ \A k \in DOMAIN v : IsInt(v[k]) /\ v[k] >= 0

FlatValues(v) == IF IsList(v) THEN [i \in DOMAIN v.items |-> v.items[i].number] ELSE <<v.number>>
HasFlatValues(v, shape) ==
  \/ shape = <<>> /\ IsNumber(v)
  \/ IsList(v) /\ Len(v.items) = Product(shape) /\ \A i \in DOMAIN v.items : IsNumber(v.items[i])

\* Every parameter or site has a value, and there is no other.
ValuesAreOf(d, specs) ==
  /\ Get(d, "values") \notin {Null, Other}
  /\ \A s \in Range(specs) : \E v \in Range(d.values) :
       v.name = s.name /\ HasFlatValues(v.value, s.shape)
  /\ Range(NamesOf(d.values)) \subseteq Range(NamesOf(specs))
ValueOf(d, s) == FlatValues((CHOOSE v \in Range(d.values) : v.name = s.name).value)
ValuesOf(d, specs) == [n \in Range(NamesOf(specs)) |->
                         ValueOf(d, CHOOSE s \in Range(specs) : s.name = n)]

SpecsAreNamed(specs) ==
  /\ Listed(specs)
  /\ \A k \in DOMAIN specs : specs[k] # Other /\ Get(specs[k], "name") \notin {Null, Other}
                             /\ IsShape(Get(specs[k], "shape"))
  /\ IsInjective(NamesOf(specs))

HasChainOrder(h) ==
  IF Get(h, "chain_order") = Null THEN IsInt(Get(h, "chain_count"))
  ELSE Listed(h.chain_order) /\ (\A k \in DOMAIN h.chain_order : IsInt(h.chain_order[k]))
       /\ IsInjective(h.chain_order)
ChainOrder(h) == IF Get(h, "chain_order") = Null THEN UpTo(h.chain_count) ELSE h.chain_order

RecordIsReadable(h, d) ==
  /\ Get(d, "draws_format") = "v0-provisional"
  /\ IsInt(Get(d, "chain")) /\ IsInt(Get(d, "draw"))
  /\ ValuesAreOf(d, h.params)
  /\ Get(h, "sample_stats_mode") # Null =>
       /\ Get(d, "sample_stats_mode") = h.sample_stats_mode
       /\ IsOneOf(Get(d, "diverging"), BOOLEAN)
       /\ IsInt(Get(d, "tree_depth"))
       /\ Get(d, "tree_accept") \notin {Null, Other}
       /\ h.sample_stats_mode = "per_draw_v2" => Get(d, "energy") \notin {Null, Other}

CountsAgree(h, t, records) ==
  LET chains == ChainOrder(h)
      per(c) == Cardinality({k \in DOMAIN records : records[k].chain = c})
  IN  /\ records # <<>>
      /\ OptionalCount(h, "chain_count", Len(chains))
      /\ OptionalCount(h, "draw_count", Len(records))
      /\ OptionalCount(t, "draw_count", Len(records))
      /\ \A k \in DOMAIN records : records[k].chain \in Range(chains)
      /\ \A c, e \in Range(chains) : per(c) = per(e)
      /\ OptionalCount(t, "draws_per_chain", per(chains[1]))
      /\ {<<records[k].chain, records[k].draw>> : k \in DOMAIN records} =
           Range(chains) \X (0..per(chains[1]) - 1)

Readable(file) ==
  LET docs == Documents(file)
  IN  /\ Len(docs) >= 2
      /\ Get(Head(docs), "draws_format") = "v0-provisional"
      /\ SpecsAreNamed(Get(Head(docs), "params"))
      /\ HasChainOrder(Head(docs))
      /\ Get(Head(docs), "sample_stats_mode") \in {Null, "per_draw_v1", "per_draw_v2"}
      /\ Get(Last(docs), "trailer") \notin {Null, Other}
      /\ \A k \in 2..Len(docs) - 1 : RecordIsReadable(Head(docs), docs[k])
      /\ \A k, m \in 2..Len(docs) - 1 :
           docs[k].chain = docs[m].chain /\ docs[k].draw = docs[m].draw => k = m
      /\ CountsAgree(Head(docs), Last(docs).trailer, SubSeq(docs, 2, Len(docs) - 1))

ReadPosterior(file) ==
  LET docs == Documents(file)
      h == Head(docs)
      records == SubSeq(docs, 2, Len(docs) - 1)
      cells == {<<records[k].chain, records[k].draw>> : k \in DOMAIN records}
      at(cell) == CHOOSE d \in Range(records) : <<d.chain, d.draw>> = cell
  IN  [params |-> [k \in DOMAIN h.params |-> [name |-> h.params[k].name, shape |-> h.params[k].shape]],
       chains |-> ChainOrder(h),
       draws_per_chain |-> Len(records) \div Len(ChainOrder(h)),
       mode |-> Get(h, "sample_stats_mode"),
       seed |-> Get(h, "seed"),
       records |-> [cell \in cells |->
                      [values |-> ValuesOf(at(cell), h.params),
                       diverging |-> Get(at(cell), "diverging"),
                       tree_depth |-> Get(at(cell), "tree_depth"),
                       tree_accept |-> Get(at(cell), "tree_accept"),
                       energy |-> Get(at(cell), "energy")]]]
=============================================================================
