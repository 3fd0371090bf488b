---------------------------- MODULE ModelExecution ----------------------------
(* A model class in use: its data is bound, outcomes are simulated from its *)
(* priors, and simulated outcomes are bound in place of observed ones.      *)
EXTENDS ModelSimulation

CONSTANTS Uses   \* [meta, dimensions, data: the data a user may have for it]

VARIABLES use,       \* the model class: its metadata and its labels
          data,      \* the data at hand
          bound,     \* the bound model, in a set that is empty before a binding
          simulated  \* a prior predictive draw, with its parameters, likewise
vars == <<use, data, bound, simulated>>

Init == /\ \E u \in Uses : /\ use = [meta |-> u.meta, dimensions |-> u.dimensions]
                           /\ data \in u.data
        /\ bound = {} /\ simulated = {}

DeclaredData == [n \in NameSet(use.meta.data) |-> data[n]]
Observations == NameSet(use.meta.observed_nodes)

\* bind_model; a binding that raises leaves nothing behind.
Bind ==
  /\ bound = {}
  /\ bound' = BindModelMeta(use.meta, use.dimensions, data)
  /\ bound' # {}
  /\ UNCHANGED <<use, data, simulated>>

\* sample_prior_predictive with the declared data, and with the shapes the
\* observations have or without them; each value is drawn at a side of its own.
Simulate(shaped, side) ==
  /\ bound = {} /\ simulated = {}
  /\ simulated' = SimulatePriorPredictive(use.meta, DeclaredData,
                    [n \in IF shaped THEN Observations ELSE {} |-> data[n].shape], side)
  /\ simulated' # {}
  /\ UNCHANGED <<use, data, bound>>

\* The drawn outcomes become the observations.
WithDraws(outcomes) ==
  [n \in DOMAIN data |-> IF n \in Observations THEN outcomes[n] ELSE data[n]]
ObserveDraws ==
  /\ bound = {}
  /\ \E draw \in simulated : data' = WithDraws(draw.observed)
  /\ simulated' = {}
  /\ UNCHANGED <<use, bound>>

Next == \/ Bind
        \/ \E shaped \in BOOLEAN, side \in [Declared(use.meta) -> {-1, 1}] : Simulate(shaped, side)
        \/ ObserveDraws

Spec == Init /\ [][Next]_vars

-----------------------------------------------------------------------------
(* Properties.                                                              *)
Sites(b) == ToSet(StochasticSites(b.meta))
FlatVectors(b) == [1..b.n_params -> {-1, 1}]

\* What binding checks ahead of time is what evaluation does: under the rules
\* JAX has for indexes and shapes, where an index out of range is clamped and
\* an array index may move its axes to the front, every site of a bound model
\* has the shape that was inferred for it, no index is clamped, and the term of
\* a site is no larger than its value.
BoundModelsEvaluate ==
  \A b \in bound :
    LET values == DensityValues([k \in 1..b.n_params |-> 1], b)
        V(e) == Value(e, values, <<>>)
        S(e) == ExprShape(e, b.data, b.param_shapes)
    IN  \A site \in Sites(b) :
          /\ Sampleable(site.distribution) => TermShape(site, values) = {x.shape : x \in V(site.value)}
          /\ \A e \in Nodes(site) :
               e.node \in {"IndexOp", "MatVecOp", "BinOp", "VectorScatterOp"} =>
                 {x.shape : x \in V(e)} = S(e) /\ S(e) # {}
          /\ \A e \in Nodes(site) : e.node = "IndexOp" =>
               \A base \in V(e.base) : \A k \in DOMAIN IndexItems(e.index) :
                 LET item == IndexItems(e.index)[k]
                 IN  item # FullSlice =>
                       \A x \in V(item.expr) : Elements(x) \subseteq 0..(base.shape[k] - 1)

\* "`MultivariateNormal.scale_tril` must be a valid lower-triangular Cholesky
\* factor at bind time" (docs/invariants.md): and it still is one wherever the
\* sampler goes, since what multiplies it is positive under its constraint.
ScalesStayCholesky ==
  \A b \in bound : \A q \in FlatVectors(b) : \A site \in Sites(b) :
    \A d \in Nodes(site.distribution) : d.node = "MultivariateNormal" =>
      \E x \in Value(d.args[2], DensityValues(q, b), <<>>) : IsScaleTril(x)

\* A partially observed vector is put together from every observed and every
\* missing value, each at its own position, though evaluation no longer looks
\* at the declared length.  A bounded coordinate has room between its bounds,
\* and they are inside the support the site has at the coordinate's position.
PartialVectorsAreWhole ==
  \A b \in bound :
    LET marked == b.data @@ [n \in DOMAIN b.param_shapes |->
                    Array(b.param_shapes[n], "float", LAMBDA i : 1000 + IF i = <<>> THEN 0 ELSE i[1])]
    IN  \A site \in {s \in Sites(b) : s.value.node = "VectorScatterOp"} :
          LET e == site.value
              at(x) == CHOOSE v \in Value(x, marked, <<>>) : TRUE
              observed == at(e.observed_idx)
              missing == at(e.missing_idx)
              given == at(e.observed_values)
              whole == at(e)
              n == Item(at(e.length))
              d == site.distribution
              name == e.missing_values.name
          IN  /\ whole.shape = <<n>>
              /\ \A k \in DOMAIN observed.at : whole.at[<<observed.at[k]>>] = given.at[k]
              /\ \A k \in DOMAIN missing.at : whole.at[<<missing.at[k]>>] = 1000 + k[1]
              /\ name \in DOMAIN b.vector_bounds => \A k \in DOMAIN missing.at :
                   LET bounds == b.vector_bounds[name]
                       support == Support(d, [f \in Fields(d) |-> DataValue(f, b.data)])
                       edge(xs) == {Broadcast(x, <<n>>).at[<<missing.at[k]>>] : x \in xs}
                       side(x) == IF x = Nothing THEN {} ELSE {x.at[k]}
                   IN  /\ \A l \in side(bounds.lower) \cup edge(support.lower),
                             u \in side(bounds.upper) \cup edge(support.upper) : l < u
                       /\ \A l \in edge(support.lower) : \E k2 \in side(bounds.lower) : l <= k2
                       /\ \A u \in edge(support.upper) : \E k2 \in side(bounds.upper) : k2 <= u

\* Simulation and binding agree: what a model without labels simulates can be
\* bound to it again.  Binding refuses an observation only where a parameter drawn
\* for it, or a number of trials in the data, is outside the domain in which the
\* log density has a value: a count whose rate is negative is drawn as -1.  (The
\* data a simulation is given is not checked for infinite numbers.)
DrawsCanBeFitted ==
  \A draw \in simulated :
    LET Evaluated(d) == [e \in Fields(d) |-> Value(e, draw.values, draw.full)]
        DrawnInDomain(o) ==
          LET d == o.site.distribution
              shape == draw.observed[o.name].shape
          IN  \A i \in Indices(shape) : InDomain(d, Evaluated(d), shape, i)
    IN  /\ Finite(data, NameSet(use.meta.data) \ VectorBoundData(use.meta))
        /\ \A o \in ToSet(Outcomes(use.meta)) : o.name \in Observations => DrawnInDomain(o)
        => BindModelMeta(use.meta, Nothing, WithDraws(draw.observed)) # {}
=============================================================================
