----------------------------- MODULE ModelDensity -----------------------------
(* Evaluating a bound model in bayesjax (compiler/core.py and               *)
(* _backends/jax/constraints.py): the flat vector of unconstrained numbers  *)
(* is split and constrained, and every stochastic site is evaluated with no *)
(* further check, under the rules JAX has for shapes and indexes.           *)
EXTENDS ModelBinding

\* values holds free values and data; full the whole vectors of partially
\* observed names already drawn by a simulation, which has them in place of a
\* vector put together from its parts.
RECURSIVE Value(_, _, _)
Value(e, values, full) ==
  LET V(x) == Value(x, values, full)
  IN  CASE e.node \in {"ParamRef", "DataRef"} ->
             IF e.name \in DOMAIN values THEN {values[e.name]} ELSE {}
        [] e.node = "ConstNode" -> {Scalar(e.type, e.number)}
        [] e.node = "BinOp" -> UNION {Arithmetic(e.op, x, y) : x \in V(e.left), y \in V(e.right)}
        [] e.node = "UnaryOp" -> {Unary(e.function, x) : x \in V(e.operand)}
        [] e.node = "MatVecOp" -> {MatMul(m, v) : m \in V(e.matrix), v \in V(e.vector)}
        [] e.node = "IndexOp" ->
             LET items == IndexItems(e.index)
                 index == [k \in DOMAIN items |->
                             IF items[k] = FullSlice THEN {FullSlice}
                             ELSE Value(items[k].expr, values, <<>>)]
             IN  IF {} \in ToSet(index) THEN {}
                 ELSE UNION {Gather(b, [k \in DOMAIN items |-> CHOOSE x \in index[k] : TRUE]) :
                               b \in V(e.base)}
        [] e.node = "VectorScatterOp" ->
             LET free == e.missing_values
             IN  IF free.node = "ParamRef" /\ free.name \in DOMAIN full THEN {full[free.name]}
                 ELSE {Scatter(Scatter(Zeros(<<p[1].shape[1] + p[3].shape[1]>>), p[1], p[2]), p[3], p[4]) :
                         p \in V(e.observed_idx) \X V(e.observed_values)
                               \X V(e.missing_idx) \X V(e.missing_values)}

-----------------------------------------------------------------------------
(* The flat parameter vector.                                               *)

\* _split_params, in the order of the free values.
SplitParams(q, names, shapes) ==
  [n \in ToSet(names) |->
     LET k == CHOOSE k \in DOMAIN names : names[k] = n
         offset == CountOf(SubSeq(names, 1, k - 1), shapes)
     IN  Array(shapes[n], "fraction", LAMBDA i : q[offset + 1 + IF i = <<>> THEN 0 ELSE i[1]])]

\* A number strictly between two optional limits, by its sign: just inside the
\* limit that y points at, or far from the only one.
Inside(low, high, y) ==
  LET aboveLow == IF \E l \in low : l >= 0 THEN 1 ELSE -1
      belowHigh == IF \E h \in high : h <= 0 THEN -1 ELSE 1
  IN  CASE low = {} /\ high = {} -> y
        [] low = {} /\ high # {} -> IF y < 0 THEN belowHigh ELSE -1
        [] low # {} /\ high = {} -> IF y < 0 THEN aboveLow ELSE 1
        [] OTHER -> IF y < 0 THEN aboveLow ELSE belowHigh

\* The limits a constraint puts on coordinate i.
Limits(c, bounds, name, i) ==
  LET side(x) == IF x = Nothing THEN {} ELSE {x.at[i]}
  IN  CASE c.node = "Positive" -> [lower |-> {0}, upper |-> {}]
        [] c.node = "UnitInterval" -> [lower |-> {0}, upper |-> {1}]
        [] c.node = "Interval" -> [lower |-> {c.lower.number}, upper |-> {c.upper.number}]
        [] c.node = "VectorBounds" -> [lower |-> side(bounds[name].lower), upper |-> side(bounds[name].upper)]
        [] OTHER -> [lower |-> {}, upper |-> {}]

\* A vector from its first number and positive increments.
Ascending(x) == Array(x.shape, x.kind, LAMBDA i : x.at[[i EXCEPT ![Len(i)] = 0]] + Last(i))

\* _constrain_params of a split vector.
Constrained(params, bound) ==
  [n \in DOMAIN params |->
     LET c == Entry(FreeValues(bound.meta), n).constraint
     IN  IF c.node = "Ordered" THEN Ascending(params[n])
         ELSE Array(params[n].shape, "fraction", LAMBDA i :
                LET l == Limits(c, bound.vector_bounds, n, i)
                IN  Inside(l.lower, l.upper, params[n].at[i]))]

\* The values a log density of the flat vector q evaluates the sites with.
DensityValues(q, bound) ==
  bound.data @@ Constrained(SplitParams(q, NameSeq(FreeValues(bound.meta)), bound.param_shapes), bound)

\* The shape of the term of a site, or nothing when the evaluation raises.
TermShape(site, values) ==
  LET shapesOf(e) == {x.shape : x \in Value(e, values, <<>>)}
      shapeOf == [e \in Fields(site.distribution) |-> shapesOf(e)]
  IN  UNION {BroadcastShapes(v, d) : v \in shapesOf(site.value), d \in ValueShape(site.distribution, shapeOf)}
=============================================================================
