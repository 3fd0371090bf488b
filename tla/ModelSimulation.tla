---------------------------- MODULE ModelSimulation ----------------------------
(* One prior predictive draw of bayesjax (simulation/core.py, domains.py): a *)
(* site is found for every declaration, parameters are drawn in their order *)
(* and outcomes after what they depend on.  Which of the numbers a          *)
(* distribution may give is drawn is left open: a "side" for each name      *)
(* points at the low or the high end of its support.  Nothing checks the parameters that were    *)
(* drawn before they are used: outside their domain a draw is what the      *)
(* formula of the sampler gives, in or out of any support, or no number.    *)
EXTENDS ModelDensity

-----------------------------------------------------------------------------
(* The plan.                                                                *)
IsPartial(site, name) ==
  site.value.node = "VectorScatterOp" /\ site.value.missing_values = ParamRef(name)
FreeOutcomes(meta) == NameSet(FreeValues(meta)) \ NameSet(meta.params)
SitesFor(meta, name) ==
  LET has(entries) == name \in NameSet(entries)
  IN  Where(StochasticSites(meta), LAMBDA s :
        CASE has(meta.params) ->
               s.value = ParamRef(name) /\ s.distribution = Entry(meta.params, name).distribution
          [] has(meta.observed_nodes) ->
               s.value = DataRef(name) /\ s.distribution = Entry(meta.observed_nodes, name).distribution
          [] OTHER -> s.name = name /\ (s.value = ParamRef(name) \/ IsPartial(s, name)))
Declared(meta) == NameSet(meta.params) \cup NameSet(meta.observed_nodes) \cup FreeOutcomes(meta)

\* One site for each declaration and no other site, which would be a factor.
PlanExists(meta) ==
  LET sites == StochasticSites(meta)
  IN  /\ \A n \in Declared(meta) : Cardinality(SitesFor(meta, n)) = 1
      /\ UNION {SitesFor(meta, n) : n \in Declared(meta)} = DOMAIN sites
      /\ \A n \in FreeOutcomes(meta) : \A i \in SitesFor(meta, n) : IsPartial(sites[i], n)

Outcomes(meta) == \* [name, site] in the order of the sites
  LET sites == StochasticSites(meta)
      names == NameSet(meta.observed_nodes) \cup FreeOutcomes(meta)
      places == SetToSortSeq(UNION {SitesFor(meta, n) : n \in names}, <)
  IN  [k \in DOMAIN places |->
         [name |-> CHOOSE n \in names : places[k] \in SitesFor(meta, n), site |-> sites[places[k]]]]

\* Each time the first outcome whose parameters are all drawn.
RECURSIVE OutcomeOrder(_, _)
OutcomeOrder(pending, available) ==
  LET ready == Where(pending, LAMBDA o : ParamReferences(o.site.distribution) \subseteq available)
  IN  IF pending = <<>> THEN {<<>>}
      ELSE IF ready = {} THEN {}
      ELSE {<<pending[Min(ready)]>> \o rest : rest \in
              OutcomeOrder(RemoveAt(pending, Min(ready)), available \cup {pending[Min(ready)].name})}

-----------------------------------------------------------------------------
(* Draws of evaluated distributions: value[e] is the value of a field.      *)
FieldShapes(value) == [e \in DOMAIN value |-> {x.shape : x \in value[e]}]
Support(d, value) ==
  LET number(k) == {Scalar("float", k)}
      plain(b) == CASE b.node \in {"HalfNormal", "Exponential"} -> [lower |-> number(0), upper |-> {}]
                    [] b.node = "Beta" -> [lower |-> number(0), upper |-> number(1)]
                    [] b.node = "Uniform" -> [lower |-> value[b.args[1]], upper |-> value[b.args[2]]]
                    [] OTHER -> [lower |-> {}, upper |-> {}]
      side(e) == IF e = Nothing THEN {} ELSE value[e]
  IN  IF d.node = "Truncated" THEN [lower |-> plain(d.base).lower \cup side(d.lower),
                                    upper |-> plain(d.base).upper \cup side(d.upper)]
      ELSE plain(d)

\* The value of an expression at a coordinate of a shape.
At(value, e, shape, i) == Broadcast(CHOOSE x \in value[e] : TRUE, shape).at[i]

MustBePositive(class) ==
  CASE class \in {"HalfNormal", "Exponential", "Poisson"} -> {1}
    [] class = "Normal" -> {2}
    [] class = "StudentT" -> {1, 3}
    [] class \in {"Beta", "NegativeBinomial"} -> {1, 2}
    [] class = "BetaBinomial" -> {2, 3}
    [] OTHER -> {}
HasFiniteFields(d, value) == \A e \in Fields(d) : \A x \in value[e] : x.kind # "infinite"

\* Where a log density may be above -inf: the parameters at a coordinate are in
\* the domain of their distribution.
InDomain(d, value, shape, i) ==
  LET b == IF d.node = "Truncated" THEN d.base ELSE d
      arg(k) == At(value, b.args[k], shape, i)
      support == Support(d, value)
  IN  /\ HasFiniteFields(d, value)
      /\ \A k \in MustBePositive(b.node) : arg(k) > 0
      /\ b.node \in {"Binomial", "BetaBinomial"} => arg(1) >= 0
      /\ b.node = "Binomial" => arg(2) \in 0..1
      /\ \A x \in support.lower, y \in support.upper :
           Broadcast(x, shape).at[i] < Broadcast(y, shape).at[i]

NoLimits == [lower |-> {}, upper |-> {}]

\* A draw with parameters in their domain: inside the support and the limits,
\* or at the edge of a support that is all outside the limits.
Regular(d, value, shape, i, limits, side) ==
  LET edge(X) == {Broadcast(x, shape).at[i] : x \in X}
      most == CASE d.node = "Bernoulli" -> 1
                [] d.node \in {"Binomial", "BetaBinomial"} -> At(value, d.args[1], shape, i)
                [] d.node = "OrderedLogistic" -> Last((CHOOSE x \in value[d.args[2]] : TRUE).shape)
                [] OTHER -> 2
      top(S) == {k \in S : \A l \in S : l <= k}
      bottom(S) == {k \in S : \A l \in S : k <= l}
      support == Support(d, value)
      low == top(edge(support.lower \cup limits.lower))
      high == bottom(edge(support.upper \cup limits.upper))
      beyond == {k \in bottom(edge(support.upper)) : \E l \in edge(limits.lower) : k <= l}
      short == {k \in top(edge(support.lower)) : \E l \in edge(limits.upper) : l <= k}
  IN  CASE d.node \in DiscreteClasses -> IF side < 0 THEN 0 ELSE most
        [] d.node \notin DiscreteClasses /\ beyond \cup short # {} -> CHOOSE k \in beyond \cup short : TRUE
        [] OTHER -> Inside(low, high, side)

\* Outside the domain: the sign of what the formula of the sampler gives.  A
\* Poisson draw is -1 when its rate is negative or no number; a binomial one is
\* no number, made an integer in a way that is left to the platform.  Truncated,
\* Beta and limited draws are not followed further: any number, or none.
Astray(d, value, shape, i, limits, side) ==
  LET arg(k) == At(value, d.args[k], shape, i)
      formula == limits = NoLimits /\ HasFiniteFields(d, value)
  IN  CASE d.node \in {"Binomial", "BetaBinomial"} -> IF side < 0 THEN -1 ELSE 0
        [] d.node = "NegativeBinomial" /\ formula ->
             IF arg(2) > 0 THEN Sign(arg(1))
             ELSE IF side > 0 /\ arg(1) < 0 /\ arg(2) < 0 THEN 1 ELSE -1
        [] d.node \in {"Poisson", "HalfNormal", "Exponential"} /\ formula -> Sign(arg(1))
        [] d.node = "Uniform" /\ formula ->
             IF arg(1) = arg(2) THEN arg(1) ELSE Inside({arg(2)}, {arg(1)}, side)
        [] OTHER -> side
IsNoNumber(d, value, shape, i, limits, side) ==
  LET arg(k) == At(value, d.args[k], shape, i)
  IN  CASE d.node \in DiscreteClasses -> FALSE
        [] d.node \notin DiscreteClasses /\ ~HasFiniteFields(d, value) -> TRUE
        [] d.node \in {"Beta", "Truncated"} \/ limits # NoLimits -> side < 0
        [] d.node = "Exponential" -> arg(1) = 0
        [] d.node = "StudentT" -> arg(1) <= 0
        [] OTHER -> FALSE

\* One number for each coordinate of the shape.
Draw(d, value, shape, limits, side) ==
  LET fits(i) == d.node \in {"Bernoulli", "OrderedLogistic"} \/ InDomain(d, value, shape, i)
      kind == CASE d.node \in DiscreteClasses -> "int"
                [] \E i \in Indices(shape) : ~fits(i) /\ IsNoNumber(d, value, shape, i, limits, side) -> "infinite"
                [] OTHER -> "fraction"
  IN  Array(shape, kind, LAMBDA i :
        IF fits(i) THEN Regular(d, value, shape, i, limits, side)
        ELSE Astray(d, value, shape, i, limits, side))

\* Mutant: only the number of axes counts.
HasRoomFor(target, suffix) == Len(suffix) <= Len(target)

EndsWith(target, suffix) ==
  Len(suffix) <= Len(target) /\ SubSeq(target, Len(target) - Len(suffix) + 1, Len(target)) = suffix
InverseCdf(d) == d.node \in InverseCdfClasses \/ (d.node = "Truncated" /\ Sampleable(d))

\* What drawing itself refuses.
DrawRaises(d, value, target) ==
  \/ d.node = "MultivariateNormal" /\ \E m \in value[d.args[1]] : BroadcastShapes(m.shape, target) # {target}
  \/ d.node = "OrderedLogistic" /\ \E c \in value[d.args[2]] : Last(c.shape) = 0

\* The iid axes of a target, in front of the axes of the distribution.
HasSamples(d, value, target) == \E s \in ValueShape(d, FieldShapes(value)) : EndsWith(target, s)
Unrestricted(d, value, target, side) ==
  IF Sampleable(d) /\ HasSamples(d, value, target) /\ ~DrawRaises(d, value, target)
  THEN {Draw(d, value, target, NoLimits, side)} ELSE {}
Restricted(d, value, target, limits, side) ==
  IF InverseCdf(d) /\ HasSamples(d, value, target)
  THEN {Draw(d, value, target, limits, side)} ELSE {}

\* Draws of one scalar prior, sorted along the last axis: the first of them at
\* its low end, or all of them.
OrderedDraw(d, value, target, side) ==
  LET draws(end) == Unrestricted(d, value, target, end)
  IN  IF target = <<>> \/ BatchShape(d, FieldShapes(value)) # {<<>>} \/ EventShape(d, FieldShapes(value)) # {<<>>}
      THEN {}
      ELSE {Array(target, Promoted(low.kind, high.kind), LAMBDA i :
              IF side < 0 \/ Last(i) = 0 THEN low.at[i] ELSE high.at[i]) :
              low \in draws(-1), high \in draws(1)}

PriorValue(d, value, constraint, target, side) ==
  LET number(k) == {Scalar("float", k)}
      within(low, high) == Restricted(d, value, target, [lower |-> low, upper |-> high], side)
  IN  CASE constraint = Nothing -> Unrestricted(d, value, target, side)
        [] constraint.node = "Positive" -> within(number(0), {})
        [] constraint.node = "UnitInterval" -> within(number(0), number(1))
        [] constraint.node = "Interval" -> within(number(constraint.lower.number), number(constraint.upper.number))
        [] constraint.node = "Ordered" -> OrderedDraw(d, value, target, side)
        [] OTHER -> {}

\* The missing values of a bounded vector, drawn within their bounds.
MissingValue(d, value, bounds, target, side) ==
  LET limit(x) == IF x = Nothing THEN {} ELSE {x}
      limits == [lower |-> limit(bounds.lower), upper |-> limit(bounds.upper)]
  IN  IF d.node = "MultivariateNormal" \/ BatchShape(d, FieldShapes(value)) # {<<>>} THEN {}
      ELSE Restricted(d, value, target, limits, side)

\* The whole vector, of each length, and its missing values at each index.
PartialDraw(o, value, lengths, indexes, bounds, side) ==
  LET d == o.site.distribution
      bounded == o.name \in DOMAIN bounds
      whole == UNION {Unrestricted(d, value, <<n>>, side) : n \in SizeOf(lengths)}
      missing(w, m) == IF ~bounded THEN Gather(w, <<m>>)
                       ELSE MissingValue(d, value, bounds[o.name], <<m.shape[1]>>, side)
  IN  UNION {{[full |-> IF bounded THEN Scatter(p[1], p[2], f) ELSE p[1], free |-> f] :
                f \in missing(p[1], p[2])} : p \in whole \X indexes}

-----------------------------------------------------------------------------
(* A draw in progress: the values known so far, and the whole vectors.      *)
DrawParam(state, p, shapes, side) ==
  LET value == [e \in Fields(p.distribution) |-> Value(e, state.values, <<>>)]
  IN  {[state EXCEPT !.values = (p.name :> x) @@ @] :
         x \in PriorValue(p.distribution, value, p.constraint, shapes[p.name], side[p.name])}

DrawOutcome(state, o, observedShapes, bounds, side) ==
  LET V(f) == Value(f, state.values, state.full)
      d == o.site.distribution
      e == o.site.value
      value == [f \in Fields(d) |-> V(f)]
      targets == CASE o.name \in DOMAIN observedShapes -> {observedShapes[o.name]}
                   [] OTHER -> ValueShape(d, FieldShapes(value))
      next(values, full, x) == [values |-> (o.name :> values) @@ state.values,
                                full |-> full @@ state.full,
                                observed |-> (o.name :> x) @@ state.observed]
  IN  IF IsPartial(o.site, o.name)
      THEN {next(w.free, o.name :> w.full, w.full) : 
               w \in PartialDraw(o, value, V(e.length), V(e.missing_idx), bounds, side[o.name])}
      ELSE {next(x, <<>>, x) : x \in UNION {PriorValue(d, value, Nothing, t, side[o.name]) : t \in targets}}

\* The parameters in their order, then the outcomes in the order of the plan.
Drawn(meta, data, observedShapes, shapes, bounds, side) ==
  LET start == {[values |-> data, full |-> <<>>, observed |-> <<>>]}
      params == FoldLeft(LAMBDA states, p : UNION {DrawParam(s, p, shapes, side) : s \in states},
                         start, meta.params)
  IN  UNION {FoldLeft(LAMBDA states, o :
                        UNION {DrawOutcome(s, o, observedShapes, bounds, side) : s \in states},
                      params, order) : order \in OutcomeOrder(Outcomes(meta), NameSet(meta.params))}

\* simulate_prior_predictive: a draw, or nothing when it raises.
SimulatePriorPredictive(meta, data, observedShapes, side) ==
  IF /\ PlanExists(meta)
     /\ DOMAIN data = NameSet(meta.data)
     /\ DeclaredDataValid(meta, data)
     /\ ShapesResolve(meta, data)
  THEN UNION {Drawn(meta, data, observedShapes, shapes,
                [n \in VectorBounded(meta) |-> CHOOSE b \in BoundsOf(meta, n, data, shapes) : TRUE], side) :
              shapes \in {s \in {ParamShapes(meta, data)} :
                /\ \A n \in VectorBounded(meta) : BoundsOf(meta, n, data, s) # {}
                /\ IndexExpressionsValid(meta, data, s)
                /\ \A site \in ToSet(StochasticSites(meta)) :
                     DistributionParametersValid(site, meta, data, s)}}
  ELSE {}
=============================================================================
