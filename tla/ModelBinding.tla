----------------------------- MODULE ModelBinding -----------------------------
(* Binding data to the metadata of a model in bayesjax                      *)
(* (_backends/jax/binding.py): which values are accepted, the shapes of the *)
(* free values, the bounds of missing coordinates.                          *)
(*                                                                          *)
(* data is a function from names to arrays, shapes one from free values to  *)
(* shapes.  What may raise is a set: the result, or nothing when it raises. *)
(* The only refusal the code recovers from is that of an expression that    *)
(* depends on a parameter: it takes it for "no value".                      *)
EXTENDS ModelArrays

-----------------------------------------------------------------------------
(* Expressions over data and constants, and the shapes of all expressions.  *)
IndexItems(spec) == IF spec.node = "IndexTuple" THEN spec.items ELSE <<spec>>

IndexValid(x, size) == IsInteger(x) /\ \A k \in Elements(x) : k \in 0..(size - 1)

MatVecShape(m, v) ==
  IF Len(m) = 2 /\ Len(v) = 1 /\ m[2] = v[1] THEN {<<m[1]>>} ELSE {}

\* Mutant: an array index keeps its place in the result.
ShapeStaysInPlace(items, scalars, arrays) == FALSE

\* The axes of the one array index come first when a slice is between it and a
\* scalar index.
ShapeMovesToFront(items, scalars, arrays) ==
  \E a \in arrays, s \in scalars :
    \E k \in (Min({a, s}) + 1)..(Max({a, s}) - 1) : items[k] = FullSlice

\* The shape of base[spec]; value[k] is the value of item k, if it has one.
IndexedShape(base, items, value) ==
  LET scalars == {k \in DOMAIN items : \E x \in value[k] : x.shape = <<>>}
      arrays == {k \in DOMAIN items : \E x \in value[k] : x.shape # <<>>}
      shapeOf(k) == (CHOOSE x \in value[k] : TRUE).shape
      part(k) == CASE k \in scalars -> <<>>
                   [] k \in arrays -> shapeOf(k)
                   [] OTHER -> <<base[k]>>
      rest == [k \in DOMAIN base |-> IF k \in arrays THEN <<>> ELSE part(k)]
  IN  IF /\ Len(items) \in 1..Len(base)
         /\ \A k \in DOMAIN items : items[k] # FullSlice =>
              \E x \in value[k] : IndexValid(x, base[k])
         /\ Cardinality(arrays) <= 1
      THEN {IF ShapeMovesToFront(items, scalars, arrays)
            THEN shapeOf(CHOOSE k \in arrays : TRUE) \o FlattenSeq(rest)
            ELSE FlattenSeq([k \in DOMAIN base |-> part(k)])}
      ELSE {}

RECURSIVE DataValue(_, _)
DataValue(e, data) ==
  LET V(x) == DataValue(x, data)
  IN  CASE e.node = "DataRef" -> {data[e.name]}
        [] e.node = "ConstNode" -> {Scalar(e.type, e.number)}
        [] e.node = "BinOp" -> UNION {Arithmetic(e.op, x, y) : x \in V(e.left), y \in V(e.right)}
        [] e.node = "UnaryOp" -> {Unary(e.function, x) : x \in V(e.operand)}
        [] e.node = "MatVecOp" ->
             {MatMul(p[1], p[2]) : p \in {p \in V(e.matrix) \X V(e.vector) :
                                         MatVecShape(p[1].shape, p[2].shape) # {}}}
        [] e.node = "IndexOp" ->
             LET items == IndexItems(e.index)
                 value == [k \in DOMAIN items |->
                             IF items[k] = FullSlice THEN {} ELSE V(items[k].expr)]
                 index == [k \in DOMAIN items |-> IF items[k] = FullSlice THEN FullSlice
                                                  ELSE CHOOSE x \in value[k] : TRUE]
             IN  UNION {Gather(b, index) : b \in {b \in V(e.base) :
                          IndexedShape(b.shape, items, value) # {}}}
        [] OTHER -> {}

\* Mutant: the positions are only counted.
PositionsAreCounted(observed, missing, length) ==
  observed.shape[1] + missing.shape[1] = length

\* Every position of a partially observed vector is in one of the two indexes, once.
PositionsPartition(observed, missing, length) ==
  /\ Cardinality(Elements(observed)) = observed.shape[1]
  /\ Cardinality(Elements(missing)) = missing.shape[1]
  /\ Elements(observed) \cap Elements(missing) = {}
  /\ Elements(observed) \cup Elements(missing) = 0..(length - 1)

\* A scalar integer that is no negative number, as a size.
SizeOf(xs) == {Item(x) : x \in {x \in xs : x.shape = <<>> /\ IsInteger(x) /\ Elements(x) \subseteq Nat}}

RECURSIVE ExprShape(_, _, _)
ExprShape(e, data, shapes) ==
  LET S(x) == ExprShape(x, data, shapes)
  IN  CASE e.node = "ParamRef" -> {shapes[e.name]}
        [] e.node = "DataRef" -> {data[e.name].shape}
        [] e.node = "ConstNode" -> {<<>>}
        [] e.node = "BinOp" -> UNION {BroadcastShapes(s, t) : s \in S(e.left), t \in S(e.right)}
        [] e.node = "UnaryOp" -> S(e.operand)
        [] e.node = "MatVecOp" -> UNION {MatVecShape(m, v) : m \in S(e.matrix), v \in S(e.vector)}
        [] e.node = "IndexOp" ->
             LET items == IndexItems(e.index)
             IN  UNION {IndexedShape(b, items, [k \in DOMAIN items |->
                          IF items[k] = FullSlice THEN {} ELSE DataValue(items[k].expr, data)]) :
                        b \in S(e.base)}
        [] e.node = "VectorScatterOp" ->
             {<<n>> : n \in {n \in SizeOf(DataValue(e.length, data)) :
               \E o \in DataValue(e.observed_idx, data), m \in DataValue(e.missing_idx, data) :
                 /\ Len(o.shape) = 1 /\ Len(m.shape) = 1
                 /\ IndexValid(o, n) /\ IndexValid(m, n)
                 /\ S(e.observed_values) = {o.shape} /\ S(e.missing_values) = {m.shape}
                 /\ PositionsPartition(o, m, n)}}

-----------------------------------------------------------------------------
(* Distributions (_backends/jax/distributions.py): shapes of their fields.  *)
Sampleable(d) == /\ d.node \in BuiltinClasses
                 /\ d.node = "Truncated" => d.base.node \in InverseCdfClasses
FieldsOf(d) == IF d.node = "Truncated" THEN SelectSeq(<<d.lower, d.upper>>, LAMBDA e : e # Nothing)
               ELSE d.args
Fields(d) == ToSet(FieldsOf(d)) \cup IF d.node = "Truncated" THEN ToSet(d.base.args) ELSE {}
BroadcastAll(options) ==
  FoldSeq(LAMBDA o, acc : UNION {BroadcastShapes(s, t) : s \in acc, t \in o}, {<<>>}, options)

\* batch_shape; shapeOf[e] is the shape of a field, or nothing.
PlainBatchShape(d, shapeOf) ==
  CASE d.node = "MultivariateNormal" ->
         UNION {BroadcastShapes(IF m = <<>> THEN <<>> ELSE Front(m), SubSeq(s, 1, Len(s) - 2)) :
                  m \in shapeOf[d.args[1]], s \in {s \in shapeOf[d.args[2]] : Len(s) >= 2}}
    [] d.node = "OrderedLogistic" ->
         UNION {BroadcastShapes(s, Front(c)) : s \in shapeOf[d.args[1]], c \in shapeOf[d.args[2]] \ {<<>>}}
    [] OTHER -> BroadcastAll([k \in DOMAIN d.args |-> shapeOf[d.args[k]]])
BatchShape(d, shapeOf) ==
  IF d.node # "Truncated" THEN PlainBatchShape(d, shapeOf)
  ELSE BroadcastAll(<<PlainBatchShape(d.base, shapeOf)>>
                    \o [k \in DOMAIN FieldsOf(d) |-> shapeOf[FieldsOf(d)[k]]])
EventShape(d, shapeOf) ==
  IF d.node = "MultivariateNormal" THEN {<<Last(s)>> : s \in shapeOf[d.args[2]]} ELSE {<<>>}
ValueShape(d, shapeOf) == {b \o e : b \in BatchShape(d, shapeOf), e \in EventShape(d, shapeOf)}

\* validate_scale_tril of a concrete matrix or batch of matrices.
IsScaleTril(x) ==
  LET r == Len(x.shape)
  IN  /\ r >= 2 /\ x.shape[r] = x.shape[r - 1]
      /\ \A i \in DOMAIN x.at : /\ i[r - 1] < i[r] => x.at[i] = 0
                                /\ i[r - 1] = i[r] => x.at[i] > 0

-----------------------------------------------------------------------------
(* Bounds of missing coordinates.  A side is an array or Nothing.           *)
OptionalValue(e, data) == IF DataValue(e, data) = {} THEN Nothing ELSE CHOOSE x \in DataValue(e, data) : TRUE
VectorBounded(meta) == {n \in NameSet(FreeValues(meta)) :
                          Entry(FreeValues(meta), n).constraint.node = "VectorBounds"}
VectorBoundData(meta) ==
  UNION {LET c == Entry(FreeValues(meta), n).constraint
         IN  {r.name : r \in {c.lower, c.upper} \ {Nothing}} : n \in VectorBounded(meta)}

BoundSide(ref, data, n) ==
  IF ref = Nothing THEN {Nothing}
  ELSE {x \in {data[ref.name]} : x.shape = <<n>> /\ x.kind # "infinite"}

\* The index of the missing positions at the one site of a free value, Nothing
\* when the site is the free value itself.
NamedSites(meta, name) == {s \in ToSet(StochasticSites(meta)) : s.name = name}
OwnedAt(site, name, data) ==
  CASE site.value = ParamRef(name) -> {Nothing}
    [] site.value.node = "VectorScatterOp" /\ site.value.missing_values = ParamRef(name) ->
         DataValue(site.value.missing_idx, data)
    [] OTHER -> {}

\* Mutant: the support is that of the first positions.
SupportOfFirst(x, missing, n) ==
  IF x = Nothing THEN Nothing
  ELSE CHOOSE g \in (IF x.shape = <<>> THEN {Broadcast(x, <<n>>)}
                     ELSE Gather(x, <<Array(<<n>>, "int", LAMBDA i : i[1])>>)) : TRUE

\* An edge of the support in the order of the missing values.
AlignedSupport(x, missing, n) ==
  IF x = Nothing THEN Nothing
  ELSE CASE x.shape = <<>> -> Broadcast(x, <<n>>)
         [] x.shape # <<>> /\ missing = Nothing -> x
         [] OTHER -> CHOOSE g \in Gather(x, <<missing>>) : TRUE
SupportEdges(d, data, missing, n) ==
  LET const(k) == Broadcast(Scalar("float", k), <<n>>)
      edge(e) == AlignedSupport(OptionalValue(e, data), missing, n)
  IN  CASE d.node \in {"Exponential", "HalfNormal"} -> [lower |-> const(0), upper |-> Nothing]
        [] d.node = "Beta" -> [lower |-> const(0), upper |-> const(1)]
        [] d.node = "Uniform" -> [lower |-> edge(d.args[1]), upper |-> edge(d.args[2])]
        [] OTHER -> [lower |-> Nothing, upper |-> Nothing]

\* x < y or x <= y at every coordinate, for the sides that are there.
Below(x, y) == x = Nothing \/ y = Nothing \/ Everywhere(LAMBDA a, b : a < b, x, y)
NotAbove(x, y) == x = Nothing \/ y = Nothing \/ Everywhere(LAMBDA a, b : a <= b, x, y)

\* The bounds that fit the edges of the support, and each other.
BoundsInside(edges, lower, upper) ==
  {b \in {[lower |-> IF low = Nothing THEN edges.lower ELSE low,
           upper |-> IF high = Nothing THEN edges.upper ELSE high] : low \in lower, high \in upper} :
     /\ Below(b.lower, b.upper)
     /\ NotAbove(edges.lower, b.lower) /\ NotAbove(b.upper, edges.upper)
     /\ NotAbove(edges.lower, b.upper) /\ NotAbove(b.lower, edges.upper)
     /\ edges.lower # Nothing /\ edges.upper # Nothing =>
          Below(b.lower, edges.upper) /\ Below(edges.lower, b.upper)
     /\ b.lower # Nothing \/ b.upper # Nothing
     /\ b.lower # Nothing /\ b.upper # Nothing => b.lower.shape = b.upper.shape}

BoundsOf(meta, name, data, shapes) ==
  LET c == Entry(FreeValues(meta), name).constraint
      n == shapes[name][1]
  IN  IF Len(shapes[name]) # 1 \/ Cardinality(Where(StochasticSites(meta), LAMBDA s : s.name = name)) # 1
      THEN {}
      ELSE UNION {UNION {BoundsInside(edges, BoundSide(c.lower, data, n), BoundSide(c.upper, data, n)) :
                           edges \in {SupportEdges(site.distribution, data, missing, n) :
                                      missing \in OwnedAt(site, name, data)}} :
                    site \in NamedSites(meta, name)}

-----------------------------------------------------------------------------
(* The checks of a binding.                                                 *)
Finite(data, names) == \A n \in names : data[n].kind # "infinite"

DimSize(d, data) == IF d.node = "Number" THEN {d.number} \cap Nat ELSE SizeOf({data[d.name]})
ParamShape(size, data) == IF size = Nothing THEN {<<>>} ELSE {<<n>> : n \in DimSize(size, data)}
ShapesResolve(meta, data) == \A v \in ToSet(FreeValues(meta)) : ParamShape(v.size, data) # {}
ParamShapes(meta, data) ==
  [n \in NameSet(FreeValues(meta)) |-> CHOOSE s \in ParamShape(Entry(FreeValues(meta), n).size, data) : TRUE]

DeclaredDataValid(meta, data) ==
  \A d \in ToSet(meta.data) :
    LET shape == data[d.name].shape
    IN  IF d.schema.node = "Rank" THEN Len(shape) = d.schema.rank
        ELSE /\ Len(shape) = Len(d.schema.dims)
             /\ \A k \in DOMAIN shape : DimSize(d.schema.dims[k], data) = {shape[k]}

\* The concrete indexes of every expression, before a gather could clamp them.
IndexExpressionsValid(meta, data, shapes) ==
  \A v \in ToSet(StochasticSites(meta)) \cup ToSet(meta.expressions) :
    \A e \in Nodes(v) :
      e.node \in {"IndexOp", "MatVecOp", "VectorScatterOp"} => ExprShape(e, data, shapes) # {}

\* Mutant: a site is as large as its value and its distribution together.
SiteBroadcasts(site, data, shapes) ==
  LET shapeOf == [e \in Fields(site.distribution) |-> ExprShape(e, data, shapes)]
  IN  Sampleable(site.distribution) =>
        \E v \in ExprShape(site.value, data, shapes), d \in ValueShape(site.distribution, shapeOf) : BroadcastShapes(v, d) # {}

\* No stochastic site is made larger than its value by its distribution.
SiteKeepsItsShape(site, data, shapes) ==
  LET shapeOf == [e \in Fields(site.distribution) |-> ExprShape(e, data, shapes)]
  IN  /\ \E v \in ExprShape(site.value, data, shapes) :
           Sampleable(site.distribution) =>
             \E d \in ValueShape(site.distribution, shapeOf) : BroadcastShapes(v, d) = {v}
      /\ \A d \in Nodes(site.distribution) :
           d.node \in DistributionClasses => \A e \in ToSet(FieldsOf(d)) : ExprShape(e, data, shapes) # {}

InRange(x, low, high) == Elements(x) \subseteq low..high
DiscreteValuesValid(site, data, shapes) ==
  LET d == site.distribution
      S(e) == ExprShape(e, data, shapes)
      counts == {"Poisson", "NegativeBinomial", "Binomial", "BetaBinomial", "OrderedLogistic"}
  IN  d.node \in DiscreteClasses =>
        \E x \in DataValue(site.value, data) :
          /\ x.kind \in {"int", "float"}
          /\ d.node = "Bernoulli" => InRange(x, 0, 1)
          /\ d.node \in counts => Elements(x) \subseteq Nat
          /\ d.node \in {"Binomial", "BetaBinomial"} => NotAbove(x, OptionalValue(d.args[1], data))
          /\ d.node = "OrderedLogistic" => \A c \in S(d.args[2]) \ {<<>>} : InRange(x, 0, Last(c))

\* Mutant: an interval is taken to be positive.
BoundedUnder(c) == c.node \in {"Positive", "UnitInterval", "Interval"}

PositiveUnder(c) == \/ c.node \in {"Positive", "UnitInterval"}
                    \/ c.node = "Interval" /\ c.lower.number >= 0

\* An expression that is a positive scalar whatever the parameters are.
RECURSIVE PositiveScalar(_, _, _, _)
PositiveScalar(e, meta, data, shapes) ==
  LET P(x) == PositiveScalar(x, meta, data, shapes)
  IN  /\ ExprShape(e, data, shapes) = {<<>>}
      /\ IF DataValue(e, data) # {} THEN \A x \in DataValue(e, data) : Item(x) > 0
         ELSE CASE e.node = "ParamRef" -> PositiveUnder(Entry(FreeValues(meta), e.name).constraint)
                [] e.node = "UnaryOp" -> e.function \in {"exp", "sigmoid"}
                [] e.node = "BinOp" -> e.op \in {"*", "/"} /\ P(e.left) /\ P(e.right)
                [] OTHER -> FALSE

\* A Cholesky factor, or one times or over positive scalars.
RECURSIVE ScaleTrilValid(_, _, _, _, _)
ScaleTrilValid(e, meta, data, shapes, top) ==
  LET T(x) == ScaleTrilValid(x, meta, data, shapes, FALSE)
      P(x) == PositiveScalar(x, meta, data, shapes)
  IN  IF DataValue(e, data) # {}
      THEN \A x \in DataValue(e, data) : (top \/ Len(x.shape) >= 2) /\ IsScaleTril(x)
      ELSE /\ e.node = "BinOp"
           /\ \/ e.op \in {"*", "/"} /\ T(e.left) /\ P(e.right)
              \/ e.op = "*" /\ T(e.right) /\ P(e.left)
DistributionParametersValid(site, meta, data, shapes) ==
  \A d \in Nodes(site.distribution) :
    d.node = "MultivariateNormal" => ScaleTrilValid(d.args[2], meta, data, shapes, TRUE)

DimensionsMatch(labels, data, shapes) ==
  labels # Nothing => \A v \in DOMAIN labels.variables :
    LET shape == CASE v \in DOMAIN shapes -> shapes[v] [] OTHER -> data[v].shape
        dims == labels.variables[v]
    IN  /\ v \in DOMAIN shapes \cup DOMAIN data
        /\ Len(dims) = Len(shape)
        /\ \A k \in DOMAIN dims : dims[k] \in DOMAIN labels.coords =>
             Len(labels.coords[dims[k]]) = shape[k]

-----------------------------------------------------------------------------
RECURSIVE Product(_)
Product(shape) == IF shape = <<>> THEN 1 ELSE Last(shape) * Product(Front(shape))
RECURSIVE CountOf(_, _)
CountOf(names, shapes) == \* over names in their order
  IF names = <<>> THEN 0 ELSE CountOf(Front(names), shapes) + Product(shapes[Last(names)])

\* validate_bound_model, of a model whose shapes are resolved.
BindingValid(meta, labels, data, shapes) ==
  /\ DeclaredDataValid(meta, data)
  /\ IndexExpressionsValid(meta, data, shapes)
  /\ \A s \in ToSet(StochasticSites(meta)) :
       /\ SiteKeepsItsShape(s, data, shapes)
       /\ DiscreteValuesValid(s, data, shapes)
       /\ DistributionParametersValid(s, meta, data, shapes)
  /\ DimensionsMatch(labels, data, shapes)

\* bind_model_meta: a BoundModel, or nothing when it raises.
BindModelMeta(meta, labels, data) ==
  IF /\ DOMAIN data = NameSet(meta.data) \cup NameSet(meta.observed_nodes)
     /\ Finite(data, DOMAIN data \ VectorBoundData(meta))
     /\ ShapesResolve(meta, data)
  THEN {[meta |-> meta, data |-> data, dimensions |-> labels, param_shapes |-> shapes,
         n_params |-> CountOf(NameSeq(FreeValues(meta)), shapes),
         vector_bounds |-> [n \in VectorBounded(meta) |-> CHOOSE b \in BoundsOf(meta, n, data, shapes) : TRUE]] :
        shapes \in {s \in {ParamShapes(meta, data)} :
                     /\ \A n \in VectorBounded(meta) : BoundsOf(meta, n, data, s) # {}
                     /\ BindingValid(meta, labels, data, s)}}
  ELSE {}
=============================================================================
