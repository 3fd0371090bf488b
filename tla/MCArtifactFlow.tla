--------------------------- MODULE MCArtifactFlow ---------------------------
(* Small instances of ArtifactFlow: three models, fits of each, a simulation, *)
(* data documents in every accepted spelling, and generation requests.        *)
EXTENDS ArtifactFlow

P(n, shape) == [name |-> n, shape |-> shape]
Trace(chains, draws, x) == [c \in 1..chains |-> [d \in 1..draws |-> x]]
\* Cells are told apart by fit, parameter, chain, draw and position.
Result(seed, bound, chains, draws) ==
  [max_tree_depth |-> 1,
   samples |-> [n \in Range(NamesOf(bound)) |-> [c \in 1..chains |-> [d \in 1..draws |->
     LET k == CHOOSE j \in DOMAIN bound : bound[j].name = n
     IN  [i \in 1..Product(bound[k].shape) |-> 1000 * seed + 200 * k + 80 * c + 10 * d + i]]]],
   sample_shapes |-> [n \in Range(NamesOf(bound)) |->
     <<chains, draws>> \o (CHOOSE p \in Range(bound) : p.name = n).shape],
   diagnostic_shapes |-> [f \in Diagnostics |-> <<chains, draws>>],
   step_shape |-> <<chains>>,
   is_divergent |-> [c \in 1..chains |-> [d \in 1..draws |-> (c + d) % 2 = 0]],
   acceptance_rate |-> [c \in 1..chains |-> [d \in 1..draws |-> 2 * c + d - 4]],
   num_trajectory_expansions |-> [c \in 1..chains |-> [d \in 1..draws |-> d % 2]],
   energy |-> [c \in 1..chains |-> [d \in 1..draws |-> c - d]],
   step_size |-> [c \in 1..chains |-> 1]]
Fit(seed, bound, chains, draws) ==
  [bound |-> bound, result |-> Result(seed, bound, chains, draws),
   settings |-> [seed |-> seed, chains |-> chains, warmup |-> 0, draws |-> draws,
                 max_tree_depth |-> 1, target_accept |-> 1]]
Deep(f, depth) == [f EXCEPT !.result.max_tree_depth = depth, !.settings.max_tree_depth = depth]
With(f, field, x) == [f EXCEPT !.result[field] = x]

Vector == <<P("mu", <<>>), P("b", <<2>>)>>
Matrix == <<P("m", <<2, 2>>)>>
Short == <<P("mu", <<>>)>>
NoSamples(f) == [f EXCEPT !.result.samples["mu"][1][1] = <<NaN>>]
MCFits ==
  {Fit(1, Vector, 2, 1), Fit(2, Vector, 2, 1), Fit(3, Vector, 1, 2), Fit(4, Vector, 2, 2), Fit(10, Vector, 1, 1),
   Fit(7, Vector, 1, 7), Deep(Fit(5, Vector, 1, 1), 3), Fit(1, Matrix, 1, 2), Fit(2, Short, 1, 3)}
  \cup \* What a sampler must not have written.
  {With(Fit(6, Vector, 1, 1), "acceptance_rate", <<<<-2>>>>),
   With(Fit(6, Vector, 1, 1), "acceptance_rate", <<<<Unit + 2>>>>),
   With(Fit(6, Vector, 1, 1), "num_trajectory_expansions", <<<<2>>>>),
   With(Fit(6, Vector, 1, 1), "energy", <<<<NaN>>>>),
   With(Fit(6, Vector, 1, 1), "step_size", <<0>>),
   With(Fit(6, Vector, 1, 1), "sample_shapes", [n \in {"mu", "b"} |-> <<1, 1>>]),
   NoSamples(Fit(6, Vector, 1, 1))}

Site(n, shape, cells) == [name |-> n, integer |-> FALSE, shape |-> shape, cells |-> cells]
MCSimulations ==
  {[settings |-> [seed |-> 1, draws |-> 2],
    result |-> [data |-> <<"x">>,
                parameters |-> <<Site("mu", <<2>>, <<<<10>>, <<11>>>>)>>,
                observed |-> <<Site("y", <<2, 3>>, <<<<10, 11, 12>>, <<20, 21, 22>>>>)>>]],
   [settings |-> [seed |-> 1, draws |-> 1],
    result |-> [data |-> <<>>, parameters |-> <<Site("mu", <<1>>, <<<<NaN>>>>)>>, observed |-> <<>>]]}

Ints(xs) == JsonArray([k \in DOMAIN xs |-> Whole(xs[k])])
Y == Field("y", Ints(<<1, 2, 3>>))
X == Field("x", JsonArray(<<Ints(<<1, 0>>), Ints(<<0, 1>>), Ints(<<1, 1>>)>>))
Model(bound, observed) == [observed_nodes |-> observed, sites_of_data |-> {}, bound |-> bound]
NoLabels == [dims |-> <<>>, coords |-> <<>>]
Labels == [dims |-> [y |-> <<"obs">>, b |-> <<"k">>],
           coords |-> [obs |-> <<Text("a"), Text("b"), Text("c")>>]]
\* Labels of the right number that the axes or the groups do not fit.
Misfits ==
  {[dims |-> [b |-> <<"k">>], coords |-> [k |-> <<Text("a")>>]],
   [dims |-> [b |-> <<"mu">>], coords |-> <<>>],
   [dims |-> [y |-> <<"draw">>], coords |-> <<>>],
   [dims |-> [y |-> <<"obs">>], coords |-> [obs |-> <<JsonNull, Whole(1), Whole(2)>>]]}
Input(model, data, dims) == [model |-> model, data |-> data, dims |-> dims, ranks |-> [y |-> 1, b |-> 1]]

\* One variable in every spelling; the last ones are no data.
TypedValue(dtype, shape, values) ==
  Object(<<Field("values", values), Field("dtype", Text(dtype)), Field("shape", Ints(shape))>>)
Spellings ==
  {Whole(2), Whole(5), Whole(-3), Real(4), Real(-5), Real(NotFinite), Bool(1), Text("a"), JsonNull,
   JsonArray(<<>>), JsonArray(<<JsonArray(<<>>), JsonArray(<<>>)>>),
   JsonArray(<<Whole(1), Real(2)>>), JsonArray(<<Whole(1), Bool(1)>>), JsonArray(<<Bool(0), Bool(1)>>),
   JsonArray(<<Ints(<<1, 2>>), Ints(<<3>>)>>), JsonArray(<<Ints(<<1, 2>>), Whole(3)>>),
   TypedValue("int32", <<2>>, Ints(<<1, 2>>)), TypedValue("int32", <<1>>, Ints(<<3>>)),
   TypedValue("uint8", <<>>, Whole(2)), TypedValue("float64", <<>>, Whole(2)),
   TypedValue("float64", <<2, 1>>, Ints(<<1, 2>>)), TypedValue("float64", <<0, 3>>, Ints(<<>>)),
   TypedValue("float64", <<2, 0>>, Ints(<<>>)), TypedValue("float32", <<1>>, JsonArray(<<Real(NotFinite)>>)),
   TypedValue("int64", <<2>>, Ints(<<1>>)), TypedValue("bool", <<1>>, Ints(<<1>>)),
   TypedValue("complex", <<1>>, Ints(<<1>>))}
Spelled(v) == {Object(<<Field("x", v)>>),
               Object(<<Field("format", Text("bayescycle.data.json.v1")),
                        Field("variables", Object(<<Field("x", v)>>))>>)}

MCInputs ==
  {Input(Model(Vector, {"y"}), Object(<<X, Y>>), Labels)}
  \cup {Input(Model(Matrix, {"y"}), Object(<<X, Y>>), NoLabels)}
  \cup {Input(Model(Short, {}), Object(<<Y>>), d) : d \in Misfits}
  \cup {Input(Model(Short, {"z"}), Object(<<Y>>), NoLabels)}
  \cup {Input(Model(<<>>, {}), doc, NoLabels) : doc \in UNION {Spelled(v) : v \in Spellings}}

Design == CanonicalDoc(<<Float("x", <<1>>, <<7>>)>>)
Theta == CanonicalDoc(<<Float("mu", <<>>, <<3>>)>>)
Request(kind, design, count, seed) ==
  [kind |-> kind, design |-> design, count |-> count, seed |-> seed, parameters |-> Theta]
MCRequests ==
  {Request(kind, Design, count, 3) : kind \in {"fixed", "model-prior", "posterior"}, count \in 1..2}
  \cup {Request("fixed", Object(<<X>>), 1, 3), Request("fixed", Design, 0, 3), Request("fixed", Design, 1, 10)}
  \cup {[Request("fixed", Design, 1, 3) EXCEPT !.parameters = Design]}
=============================================================================
