-------------------------- MODULE ModelDeclarations --------------------------
(* From a class body to the metadata @model attaches (model/core.py,        *)
(* decorator.py, dimensions.py).                                            *)
(*                                                                          *)
(* A class body is a sequence of lines  name = declaration.  Running a line *)
(* creates one declaration object with a symbol of its own and binds the    *)
(* name to it; operands are captured as objects, not as names, so a name    *)
(* that is bound again leaves earlier lines with a symbol no name has.      *)
EXTENDS ModelIR

\* Operands of a line, before and after it runs.
Name(n) == [node |-> "Name", name |-> n]                    \* a name of the body
Attr(n, path) == [node |-> "Attr", name |-> n, path |-> path]  \* n.path, n a Submodel
Symbol(s) == [node |-> "Symbol", id |-> s]
Member(s, path) == [node |-> "Member", id |-> s, path |-> path]

\* A body is a sequence of [name, symbol, object].  A Submodel object holds its
\* target, a finished model: its metadata and its optional sidecar of labels.
ObjectOf(body, s) == Entry([i \in DOMAIN body |->
                              [name |-> body[i].symbol, object |-> body[i].object]], s).object
Latest(body, n) == body[CHOOSE i \in Where(body, LAMBDA a : a.name = n) :
                          \A j \in Where(body, LAMBDA a : a.name = n) : j <= i]

\* cls.__dict__: a name keeps the place of its first binding and has the last.
Attributes(body) ==
  LET again == {i \in DOMAIN body : \E j \in 1..(i - 1) : body[j].name = body[i].name}
      firsts == Without(body, again)
  IN  [k \in DOMAIN firsts |-> Latest(body, firsts[k].name)]

-----------------------------------------------------------------------------
(* Members of a composed model.                                             *)
Child(body, s) == ObjectOf(body, s).target.meta
MemberNames(meta) == UNION {NameSet(meta.params), NameSet(meta.data), NameSet(meta.expressions),
                            NameSet(FreeValues(meta)), NameSet(meta.observed_nodes)}
MemberKind(meta, path) ==
  CASE path \in NameSet(meta.params) -> "param"
    [] path \in NameSet(meta.data) -> "data"
    [] path \in NameSet(meta.expressions) -> "expression"
    [] path \in NameSet(FreeValues(meta)) \ NameSet(meta.params) -> "partially_observed"
    [] path \in NameSet(meta.observed_nodes) -> "observed"
    [] /\ path \notin MemberNames(meta)
       /\ \E n \in MemberNames(meta) : IsStrictPrefix(path, n) -> "namespace"
    [] OTHER -> "missing"

-----------------------------------------------------------------------------
(* Running a line.                                                          *)

\* The operands of a line as the objects its names are bound to at that moment.
\* A name of a derived expression stands for the captured expression itself.
RECURSIVE Captured(_, _)
Captured(v, body) ==
  CASE v.node = "Name" ->
         LET a == Latest(body, v.name)
         IN  IF a.object.decl = "Expression" THEN a.object.value ELSE Symbol(a.symbol)
    [] v.node = "Attr" -> Member(Latest(body, v.name).symbol, v.path)
    [] OTHER -> [f \in DOMAIN v |->
                   CASE f \in Leaves -> v[f]
                     [] f \in Lists -> [i \in DOMAIN v[f] |-> Captured(v[f][i], body)]
                     [] OTHER -> Captured(v[f], body)]

\* The operand fields of each declaration class.
Operands == [Param |-> {"distribution", "constraint", "size"}, Data |-> {"schema"},
             Observed |-> {"distribution"}, Submodel |-> {}, Expression |-> {"value"},
             PartiallyObserved |-> {"distribution", "length", "observed", "observed_idx",
                                    "missing_idx", "missing_lower", "missing_upper"}]
OperandNodes(object) == UNION {Nodes(object[f]) : f \in Operands[object.decl]}

\* NameError and AttributeError: an operand is bound, a member exists and is no
\* observed value.
OperandsExist(object, body) ==
  \A n \in OperandNodes(object) :
    /\ n.node \in {"Name", "Attr"} => n.name \in NameSet(body)
    /\ n.node = "Attr" =>
         LET a == Latest(body, n.name)
         IN  /\ a.object.decl = "Submodel"
             /\ MemberKind(a.object.target.meta, n.path) \notin {"observed", "missing"}

\* The schema of a data operand, Nothing for an operand that is no data.
SchemaOf(v, body) ==
  CASE v.node = "Symbol" -> LET o == ObjectOf(body, v.id)
                            IN  IF o.decl = "Data" THEN o.schema ELSE Nothing
    [] v.node = "Member" ->
         LET meta == Child(body, v.id)
         IN  IF MemberKind(meta, v.path) = "data" THEN Entry(meta.data, v.path).schema ELSE Nothing
    [] OTHER -> Nothing
ScalarOperand(v, body) == IsScalar(SchemaOf(v, body))
VectorOperand(v, body) == IsExactVector(SchemaOf(v, body))
NaturalNumber(v) == v.node = "Number" /\ v.type = "int" /\ v.number >= 0

\* The one dimension of a vector operand: a number, or the data it is the value
\* of, named from the class body wherever the vector is declared.
VectorDimension(v, body) ==
  LET dim == SchemaOf(v, body).dims[1]
  IN  IF dim.node = "DataDimRef" THEN Member(v.id, dim.name) ELSE dim

Rank(schema) == IF schema.node = "Shape" THEN Len(schema.dims) ELSE schema.rank
DimsHaveRank(dims, rank) == dims = Nothing \/ Len(dims.items) = rank

\* What the constructors of Param, Data and PartiallyObserved accept.
ParamConstructible(o) == DimsHaveRank(o.dims, IF o.size = Nothing THEN 0 ELSE 1)
DataConstructible(o, body) ==
  /\ o.schema.node = "Rank" => o.schema.rank >= 0
  /\ o.schema.node = "Shape" =>
       \A d \in ToSet(o.schema.dims) : NaturalNumber(d) \/ ScalarOperand(d, body)
  /\ DimsHaveRank(o.dims, Rank(o.schema))
BoundConstructible(o, bound, body) ==
  bound # Nothing => /\ VectorOperand(bound, body)
                     /\ VectorDimension(bound, body) = VectorDimension(o.missing_idx, body)
PartialConstructible(o, body) ==
  /\ NaturalNumber(o.length) \/ ScalarOperand(o.length, body)
  /\ \A f \in {"observed", "observed_idx", "missing_idx"} : VectorOperand(o[f], body)
  /\ \A f \in {"missing_lower", "missing_upper"} : BoundConstructible(o, o[f], body)
Constructible(o, body) ==
  CASE o.decl = "Param" -> ParamConstructible(o)
    [] o.decl = "Data" -> DataConstructible(o, body)
    [] o.decl = "PartiallyObserved" -> PartialConstructible(o, body)
    [] OTHER -> TRUE

\* One more line: a new object, except that  a = b  binds another name to b's.
RunLine(body, line) ==
  IF line.object.decl = "Alias"
  THEN LET a == Latest(body, line.object.of)
       IN  Append(body, [name |-> line.name, symbol |-> a.symbol, object |-> a.object])
  ELSE LET o == line.object
           fields == Operands[o.decl]
       IN  Append(body, [name |-> line.name, symbol |-> Len(body) + 1,
                         object |-> [f \in DOMAIN o |->
                           IF f \in fields THEN Captured(o[f], body) ELSE o[f]]])
LineRuns(body, line) ==
  IF line.object.decl = "Alias" THEN line.object.of \in NameSet(body)
  ELSE /\ OperandsExist(line.object, body)
       /\ LET after == RunLine(body, line)
          IN  Constructible(after[Len(after)].object, after)

\* A class body with `child` for the target of its Submodel lines: the whole
\* body, or <<>> when one of its lines raises.
Targeted(line, child) ==
  IF line.object.decl = "Submodel" THEN [line EXCEPT !.object.target = child] ELSE line
RECURSIVE RunBody(_, _)
RunBody(lines, child) ==
  IF lines = <<>> THEN <<>>
  ELSE LET before == RunBody(Front(lines), child)
           line == Targeted(Last(lines), child)
       IN  IF Len(before) = Len(lines) - 1 /\ LineRuns(before, line) THEN RunLine(before, line) ELSE <<>>
HasSubmodel(lines) == \E i \in DOMAIN lines : lines[i].object.decl = "Submodel"

-----------------------------------------------------------------------------
(* Resolution: the only step from symbols to names.                         *)
SymbolName(attributes, s) ==
  <<attributes[CHOOSE i \in DOMAIN attributes : attributes[i].symbol = s].name>>

PartialVector(name, length, idx, values, missing) ==
  [node |-> "VectorScatterOp", length |-> length, observed_idx |-> idx, observed_values |-> values,
   missing_idx |-> missing, missing_values |-> ParamRef(name)]

\* Mutant: a parameter of the child keeps the name it has there.
MemberValueOfChild(meta, p, path) ==
  CASE MemberKind(meta, path) = "data" -> DataRef(Qualified(p, path))
    [] MemberKind(meta, path) = "param" -> ParamRef(path)
    [] MemberKind(meta, path) = "expression" -> Prefixed(Entry(meta.expressions, path).value, p)
    [] OTHER -> Prefixed(Entry(StochasticSites(meta), path).value, p)

\* A child's member in the parent's tree.
MemberValue(meta, p, path) ==
  CASE MemberKind(meta, path) = "data" -> DataRef(Qualified(p, path))
    [] MemberKind(meta, path) = "param" -> ParamRef(Qualified(p, path))
    [] MemberKind(meta, path) = "expression" -> Prefixed(Entry(meta.expressions, path).value, p)
    [] OTHER -> Prefixed(Entry(StochasticSites(meta), path).value, p)

\* Raw Python indexes become explicit index nodes.
RECURSIVE Resolved(_, _, _)
Resolved(v, body, attributes) ==
  LET R(x) == Resolved(x, body, attributes)
      Index(x) == CASE x.node = "Slice" -> FullSlice [] OTHER -> ScalarIndex(R(x))
  IN  CASE v.node = "Symbol" ->
             LET o == ObjectOf(body, v.id)
                 n == SymbolName(attributes, v.id)
             IN  CASE o.decl = "Param" -> ParamRef(n)
                   [] o.decl = "Data" -> DataRef(n)
                   [] OTHER -> PartialVector(n, R(o.length), R(o.observed_idx), R(o.observed),
                                             R(o.missing_idx))
        [] v.node = "Member" -> MemberValue(Child(body, v.id),
                                            SymbolName(attributes, v.id), v.path)
        [] v.node = "Number" -> ConstNode(v.type, v.number)
        [] v.node = "IndexOp" ->
             [node |-> "IndexOp", base |-> R(v.base),
              index |-> IF v.index.node = "Tuple"
                        THEN [node |-> "IndexTuple",
                              items |-> [i \in DOMAIN v.index.items |-> Index(v.index.items[i])]]
                        ELSE Index(v.index)]
        [] v.node \in Opaque \cup {"None"} -> v
        [] OTHER -> Construct([f \in DOMAIN v |->
             CASE f \in Leaves -> v[f]
               [] f \in Lists -> [i \in DOMAIN v[f] |-> R(v[f][i])]
               [] OTHER -> R(v[f])])

\* What resolution refuses: a symbol no attribute has any more, an object or a
\* member that is no expression, a constant that is no scalar, an index that is
\* a partial slice, a bool, or an empty or nested tuple, a symbol in an opaque
\* distribution.
RECURSIVE Resolvable(_, _, _)
Resolvable(v, body, attributes) ==
  \A n \in Nodes(v) :
    /\ n.node \in {"Symbol", "Member"} => \E i \in DOMAIN attributes : attributes[i].symbol = n.id
    /\ n.node = "Symbol" =>
         LET o == ObjectOf(body, n.id)
         IN  /\ o.decl \in {"Param", "Data", "PartiallyObserved"}
             /\ o.decl = "PartiallyObserved" =>
                  \A f \in {"length", "observed_idx", "observed", "missing_idx"} :
                    Resolvable(o[f], body, attributes)
    /\ n.node = "Member" => MemberKind(Child(body, n.id), n.path) # "namespace"
    /\ n.node = "Number" => n.type # "array"
    /\ n.node = "IndexOp" =>
         LET items == IF n.index.node = "Tuple" THEN ToSet(n.index.items) ELSE {n.index}
         IN  items # {} /\ \A x \in items :
               /\ x.node # "Tuple"
               /\ x.node = "Slice" => x.number = 0
               /\ x.node = "Number" => x.type # "bool"
    /\ n.node \in Opaque => \A x \in Nodes(n) : x.node \notin {"Symbol", "Member"}

ResolvedDim(d, attributes) ==
  CASE d.node = "Symbol" -> DataDimRef(SymbolName(attributes, d.id))
    [] d.node = "Member" -> DataDimRef(Qualified(SymbolName(attributes, d.id), d.path))
    [] OTHER -> d
ResolvedSchema(schema, attributes) ==
  IF schema.node = "Rank" THEN schema
  ELSE [schema EXCEPT !.dims = [i \in DOMAIN schema.dims |->
                                  ResolvedDim(schema.dims[i], attributes)]]
ResolvedSize(size, attributes) ==
  IF size.node \in {"None", "Number"} THEN size
  ELSE DataRef(ResolvedDim(size, attributes).name)
SizeAccepted(size, body) ==
  size = Nothing \/ NaturalNumber(size) \/ ScalarOperand(size, body)

-----------------------------------------------------------------------------
(* Declared supports against declared constraints.  An optional bound is a  *)
(* set of at most one number.                                               *)
IsConcrete(e) == e.node \in {"ConstNode", "None"}
Bound(e) == IF e.node = "ConstNode" THEN {e.number} ELSE {}
Unbounded == [known |-> TRUE, lower |-> {}, upper |-> {}]

KnownSupport(d) ==
  CASE d.node = "Normal" -> Unbounded
    [] d.node \in {"HalfNormal", "Exponential"} -> [Unbounded EXCEPT !.lower = {0}]
    [] d.node = "Uniform" /\ IsConcrete(d.args[1]) /\ IsConcrete(d.args[2]) ->
         [known |-> TRUE, lower |-> Bound(d.args[1]), upper |-> Bound(d.args[2])]
    [] OTHER -> [Unbounded EXCEPT !.known = FALSE]

TruncatedSupport(d) ==
  LET base == KnownSupport(d.base)
      lows == base.lower \cup Bound(d.lower)
      highs == base.upper \cup Bound(d.upper)
      low == {k \in lows : \A j \in lows : j <= k}
      high == {k \in highs : \A j \in highs : k <= j}
  IN  [known |-> /\ base.known /\ IsConcrete(d.lower) /\ IsConcrete(d.upper)
                 /\ \A j \in low, k \in high : j < k,
       lower |-> low, upper |-> high]

MatchesBounds(c, low, high) ==
  \/ low = {0} /\ high = {1} /\ c.node = "UnitInterval"
  \/ c.node = "Interval" /\ {c.lower.number} = low /\ {c.upper.number} = high

PriorMatchesConstraint(d, c) ==
  CASE d.node = "Truncated" ->
         /\ ~IsDiscrete(d) /\ SupportedTruncation(d)
         /\ LET s == TruncatedSupport(d)
            IN  /\ s.known
                /\ IF s.lower = {0} /\ s.upper = {} THEN c.node = "Positive"
                   ELSE s.lower # {} /\ s.upper # {} /\ MatchesBounds(c, s.lower, s.upper)
    [] d.node \in {"Normal", "StudentT"} -> c.node \notin {"Positive", "Interval", "UnitInterval"}
    [] d.node \in {"Exponential", "HalfNormal"} -> c.node = "Positive"
    [] d.node = "Beta" -> c.node = "UnitInterval"
    [] d.node = "Uniform" /\ KnownSupport(d).known ->
         MatchesBounds(c, KnownSupport(d).lower, KnownSupport(d).upper)
    [] OTHER -> TRUE

-----------------------------------------------------------------------------
(* Dimension labels.  A sidecar maps variables to sequences of dimension    *)
(* names and dimension names to coordinate values.                          *)
\* Python's == on coordinate tuples: True, 1 and 1.0 are equal.
Numeric == {"bool", "int", "float"}
LooselyEqual(xs, ys) ==
  /\ Len(xs) = Len(ys)
  /\ \A i \in DOMAIN xs : /\ xs[i].number = ys[i].number
                          /\ xs[i].type = ys[i].type \/ {xs[i].type, ys[i].type} \subseteq Numeric

StaticAxes(o) ==
  LET size(d) == IF d.node = "Number" THEN {d.number} ELSE {}
  IN  CASE o.decl = "Param" -> IF o.size = Nothing THEN <<>> ELSE <<size(o.size)>>
        [] o.decl = "Data" -> IF o.schema.node = "Rank" THEN [i \in 1..o.schema.rank |-> {}]
                              ELSE [i \in DOMAIN o.schema.dims |-> size(o.schema.dims[i])]
        [] OTHER -> [i \in DOMAIN o.dims.items |-> {}]

OwnLengthsMatch(o) ==
  \A i \in DOMAIN o.dims.items :
    o.dims.items[i].coords # <<>> =>
      \A k \in StaticAxes(o)[i] : Len(o.dims.items[i].coords[1]) = k

HasLabels(o) == o.decl \in {"Param", "Data", "Observed"} /\ o.dims # Nothing
IsScalarParam(o) == o.decl = "Param" /\ o.dims = Nothing /\ o.size = Nothing
HasChildLabels(a) ==
  a.object.decl = "Submodel" /\ a.object.target.dimensions # Nothing
ChildLabels(a) == a.object.target.dimensions

\* The coordinate tuples attributes give to dimensions, their own and their
\* children's, as pairs <<dimension, values>> in the order they are read.
OwnClaims(o) ==
  LET labelled == SelectSeq(o.dims.items, LAMBDA d : d.coords # <<>>)
  IN  [i \in DOMAIN labelled |-> <<<<labelled[i].label>>, labelled[i].coords[1]>>]
ChildClaims(a) ==
  LET coords == ChildLabels(a).coords
  IN  SetToSeq({<<Qualified(<<a.name>>, d), coords[d]>> : d \in DOMAIN coords})
CoordClaims(attributes) ==
  FlattenSeq([i \in DOMAIN attributes |->
    LET a == attributes[i]
    IN  CASE HasLabels(a.object) -> OwnClaims(a.object)
          [] HasChildLabels(a) -> ChildClaims(a)
          [] OTHER -> <<>>])
ClaimsAgree(claims) ==
  \A i, j \in DOMAIN claims : claims[i][1] = claims[j][1] =>
    LooselyEqual(claims[i][2], claims[j][2])

ResolvedDimensions(attributes) ==
  LET own == {a \in ToSet(attributes) : HasLabels(a.object) \/ IsScalarParam(a.object)}
      parents == {a \in ToSet(attributes) : HasChildLabels(a)}
      names(a) == IF HasLabels(a.object)
                  THEN [i \in DOMAIN a.object.dims.items |-> <<a.object.dims.items[i].label>>]
                  ELSE <<>>
      claims == CoordClaims(attributes)
      inherited == UNION {{<<a, v>> : v \in DOMAIN ChildLabels(a).variables} : a \in parents}
      claimed(d) == CHOOSE i \in DOMAIN claims :
                      claims[i][1] = d /\ \A j \in DOMAIN claims : claims[j][1] = d => j <= i
  IN  [variables |-> [v \in {<<a.name>> : a \in own} \cup {Qualified(<<q[1].name>>, q[2]) : q \in inherited} |->
         IF \E a \in own : <<a.name>> = v THEN names(CHOOSE a \in own : <<a.name>> = v)
         ELSE LET q == CHOOSE q \in inherited : Qualified(<<q[1].name>>, q[2]) = v
                  dims == ChildLabels(q[1]).variables[q[2]]
              IN  [i \in DOMAIN dims |-> Qualified(<<q[1].name>>, dims[i])]],
       coords |-> [d \in {claims[i][1] : i \in DOMAIN claims} |-> claims[claimed(d)][2]]]

-----------------------------------------------------------------------------
(* @model: the metadata is the concatenation, field by field and in         *)
(* attribute order, of what each attribute contributes.                     *)
Empty == ModelMeta(<<>>, <<>>, <<>>, <<>>, <<>>, <<>>)

HasBounds(o) == o.missing_lower # Nothing \/ o.missing_upper # Nothing

MissingSize(o, body, attributes) == ResolvedSize(VectorDimension(o.missing_idx, body), attributes)
MissingBounds(o, attributes) ==
  IF HasBounds(o) THEN VectorBounds(ResolvedSize(o.missing_lower, attributes),
                                    ResolvedSize(o.missing_upper, attributes))
  ELSE Nothing

Contribution(a, body, attributes) ==
  LET o == a.object
      n == <<a.name>>
      R(v) == Resolved(v, body, attributes)
      size(v) == ResolvedSize(v, attributes)
  IN  CASE o.decl = "Param" ->
             ModelMeta(<<ResolvedParam(n, R(o.distribution), o.constraint, size(o.size))>>,
                       <<>>, <<>>, <<>>,
                       <<ResolvedFreeValue(n, o.constraint, size(o.size))>>,
                       <<ResolvedStochasticSite(n, R(o.distribution), ParamRef(n))>>)
        [] o.decl = "Data" ->
             [Empty EXCEPT !.data = <<ResolvedData(n, ResolvedSchema(o.schema, attributes))>>]
        [] o.decl = "Observed" ->
             [Empty EXCEPT !.observed_nodes = <<ResolvedObserved(n, R(o.distribution))>>,
                           !.stochastic_sites =
                             <<ResolvedStochasticSite(n, R(o.distribution), DataRef(n))>>]
        [] o.decl = "PartiallyObserved" ->
             [Empty EXCEPT !.free_values = <<ResolvedFreeValue(n, MissingBounds(o, attributes),
                                                               MissingSize(o, body, attributes))>>,
                           !.stochastic_sites =
                             <<ResolvedStochasticSite(n, R(o.distribution), R(Symbol(a.symbol)))>>]
        [] o.decl = "Submodel" ->
             LET meta == o.target.meta
             IN  Prefixed([meta EXCEPT !.free_values = FreeValues(meta),
                                       !.stochastic_sites = StochasticSites(meta)], n)
        [] OTHER -> [Empty EXCEPT !.expressions = <<Expression(n, R(o.value))>>]

MetaFields == DOMAIN Empty \ {"node"}
Decorated(body) ==
  LET attributes == Attributes(body)
      parts == [i \in DOMAIN attributes |->
                  Contribution(attributes[i], body, attributes)]
  IN  [f \in DOMAIN Empty |-> IF f = "node" THEN "ModelMeta"
                              ELSE FlattenSeq([i \in DOMAIN parts |-> parts[i][f]])]

\* What one attribute must satisfy before it is resolved, and after.
Declarable(o, body, attributes) ==
  /\ \A f \in Operands[o.decl] \ {"constraint", "schema", "size"} :
       Resolvable(o[f], body, attributes)
  /\ o.decl = "Param" => /\ SizeAccepted(o.size, body)
                         /\ Resolvable(o.size, body, attributes)
  /\ o.decl = "Data" => Resolvable(o.schema, body, attributes)
DistributionAccepted(o, d) ==
  CASE o.decl = "Param" -> ~IsDiscrete(d) /\ PriorMatchesConstraint(d, o.constraint)
    [] o.decl = "Observed" -> SupportedTruncation(d)
    [] o.decl = "PartiallyObserved" -> /\ ~IsDiscrete(d) /\ SupportedTruncation(d)
                                       /\ ~(d.node = "Truncated" /\ HasBounds(o))
    [] OTHER -> TRUE

\* The bodies @model accepts: no declaration under two names, everything
\* resolves, priors match their constraints, labels match static axes, and at
\* least one stochastic declaration.
DeclarationAccepted(body) ==
  LET attributes == Attributes(body)
      claims == CoordClaims(attributes)
  IN  /\ \A i, j \in DOMAIN attributes :
           i # j /\ attributes[i].symbol = attributes[j].symbol =>
             attributes[i].object.decl = "Expression"
      /\ \A i \in DOMAIN attributes :
           LET o == attributes[i].object
           IN  /\ Declarable(o, body, attributes)
               /\ "distribution" \in DOMAIN o =>
                    DistributionAccepted(o, Resolved(o.distribution, body, attributes))
               /\ HasLabels(o) => OwnLengthsMatch(o)
      /\ ClaimsAgree(claims)
      /\ LET meta == Decorated(body)
         IN  /\ meta.stochastic_sites # <<>>
             /\ \A f \in {"params", "data", "free_values", "expressions"} :
                  \A i, j \in DOMAIN meta[f] : i # j => meta[f][i].name # meta[f][j].name
=============================================================================
