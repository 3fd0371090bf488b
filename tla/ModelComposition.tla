-------------------------- MODULE ModelComposition --------------------------
(* with_prior(target, prior=source): the closed prior of one model replaces *)
(* the priors of another (model/_closure.py, _factorization.py, _compose.py,*)
(* composition.py).  A model is [meta, dimensions].  Every error is a       *)
(* conjunct that does not hold: the call then changes nothing.              *)
EXTENDS ModelDeclarations

-----------------------------------------------------------------------------
(* Closure: a model that stands on its own.                                 *)
IntegerNode(n) ==
  CASE n.node = "ConstNode" -> n.type = "int"
    [] n.node = "BinOp" -> n.op \in {"+", "-", "*"}
    [] n.node = "UnaryOp" -> n.function = "neg"
    [] OTHER -> n.node \in {"DataRef", "MatVecOp", "IndexOp", "ScalarIndex", "FullSlice", "IndexTuple"}

WellFormed(e) ==
  \A n \in Nodes(e) :
    /\ n.node = "ConstNode" => n.type \in {"int", "float"}
    /\ n.node = "BinOp" => n.op \in {"+", "-", "*", "/"}
    /\ n.node = "UnaryOp" => n.function \in {"exp", "neg", "sigmoid"}
    /\ n.node = "ScalarIndex" => \A x \in Nodes(n.expr) : IntegerNode(x)
    /\ n.node = "IndexTuple" =>
         n.items # <<>> /\ \A i \in DOMAIN n.items : n.items[i].node # "IndexTuple"

DataOnly(e) == \A n \in Nodes(e) : n.node \notin {"ParamRef", "VectorScatterOp"}

ValidDistribution(registry, d) ==
  /\ d.node \in RegisteredDistributions(registry)
  /\ d.node = "Truncated" =>
       /\ d.base.node # "Truncated"
       /\ d.base.node \in RegisteredDistributions(registry)
       /\ d.lower # Nothing \/ d.upper # Nothing
  /\ d.node \in BuiltinClasses => WellFormed(d)

ValidConstraint(c) ==
  /\ c.node \in {"None", "Positive", "Interval", "UnitInterval", "Ordered", "VectorBounds"}
  /\ c.node = "VectorBounds" =>
       /\ c.lower # Nothing \/ c.upper # Nothing
       /\ {c.lower.node, c.upper.node} \subseteq {"None", "DataRef"}

\* A dimension as the set of the one value it has, empty when there is none.
ExactDimension(m, n) ==
  UNION {ToSet(e.schema.dims) : e \in {e \in ToSet(m.data) : e.name = n /\ IsExactVector(e.schema)}}
SizeDimension(size) ==
  CASE size.node = "DataRef" -> {DataDimRef(size.name)} [] size.node = "Number" -> {size} [] OTHER -> {}
ScalarData(m) == {e.name : e \in {e \in ToSet(m.data) : IsScalar(e.schema)}}

ScatterRoles(v, m) ==
  /\ \/ v.length.node = "DataRef" /\ v.length.name \in ScalarData(m)
     \/ v.length.node = "ConstNode" /\ v.length.type = "int" /\ v.length.number >= 0
  /\ \A f \in {"observed_idx", "observed_values", "missing_idx"} :
       v[f].node = "DataRef" /\ ExactDimension(m, v[f].name) # {}
  /\ ExactDimension(m, v.observed_values.name) = ExactDimension(m, v.observed_idx.name)
  /\ v.missing_values.node = "ParamRef"

\* Every node nested in v is executable and every name it uses is declared.
ValueClosed(registry, v, m, observed) ==
  /\ WellFormed(v)
  /\ \A n \in Nodes(v) :
       /\ n.node = "ParamRef" => n.name \in NameSet(m.free_values)
       /\ n.node = "DataRef" => n.name \in NameSet(m.data) \cup observed
       /\ n.node = "VectorScatterOp" => ScatterRoles(n, m)
       /\ n.node \in DistributionClasses => ValidDistribution(registry, n)
SizeClosed(size, m) ==
  CASE size.node = "DataRef" -> size.name \in ScalarData(m)
    [] OTHER -> size = Nothing \/ NaturalNumber(size)

\* The sites that own a parameter, and the form the owner of any free value has.
OwnerSites(m, p) ==
  Where(m.stochastic_sites, LAMBDA s : s.value = ParamRef(p.name) /\ s.distribution = p.distribution)
SitesNamed(m, n) == Where(m.stochastic_sites, LAMBDA s : s.name = n)
IsCanonicalOwner(s, n) ==
  /\ s.name = n
  /\ \/ s.value = ParamRef(n)
     \/ s.value.node = "VectorScatterOp" /\ s.value.missing_values = ParamRef(n)
CanonicalOwners(m, n) == Where(m.stochastic_sites, LAMBDA s : IsCanonicalOwner(s, n))

ParamsOwned(m) ==
  \A p \in ToSet(m.params) :
    /\ Cardinality(OwnerSites(m, p)) = 1
    /\ \A v \in ToSet(m.free_values) :
         v.name = p.name /\ v.constraint.node = "VectorBounds" => SitesNamed(m, p.name) = OwnerSites(m, p)
OtherFreeValuesOwned(m) ==
  \A v \in {v \in ToSet(m.free_values) : v.name \notin NameSet(m.params)} :
    LET bounded == v.constraint.node = "VectorBounds"
        owners == IF bounded THEN SitesNamed(m, v.name) ELSE CanonicalOwners(m, v.name)
    IN  /\ Cardinality(owners) = 1
        /\ \A i \in owners :
             LET s == m.stochastic_sites[i]
             IN  /\ IsCanonicalOwner(s, v.name)
                 /\ ~IsDiscrete(s.distribution) /\ SupportedTruncation(s.distribution)
                 /\ ~(bounded /\ s.distribution.node = "Truncated")

FreeValueClosed(registry, v, m) ==
  LET size == SizeDimension(v.size)
  IN  /\ ValidConstraint(v.constraint)
      /\ SizeClosed(v.size, m)
      /\ \A i \in CanonicalOwners(m, v.name) :
           LET owner == m.stochastic_sites[i].value
           IN  owner.node = "VectorScatterOp" => ExactDimension(m, owner.missing_idx.name) = size
      /\ v.constraint.node = "VectorBounds" =>
           /\ size # {}
           /\ \A b \in {v.constraint.lower, v.constraint.upper} \ {Nothing} :
                ExactDimension(m, b.name) = size
      /\ ValueClosed(registry, v.constraint, m, {})

SiteClosed(registry, s, m) ==
  LET owned == {o.name : o \in {o \in ToSet(m.observed_nodes) :
                                  s.value = DataRef(o.name) /\ s.distribution = o.distribution}}
  IN  /\ IsDiscrete(s.distribution) => DataOnly(s.value)
      /\ SupportedTruncation(s.distribution)
      /\ ValueClosed(registry, s.distribution, m, {})
      /\ ValueClosed(registry, s.value, m, owned)

ParamClosed(registry, p, m) ==
  /\ ~IsDiscrete(p.distribution) /\ PriorMatchesConstraint(p.distribution, p.constraint)
  /\ ValidConstraint(p.constraint)
  /\ SizeClosed(p.size, m)
  /\ ValueClosed(registry, p.distribution, m, {})

DataClosed(d, m) ==
  d.schema.node = "Shape" =>
    \A dim \in ToSet(d.schema.dims) : IF dim.node = "DataDimRef" THEN dim.name \in ScalarData(m)
                                      ELSE NaturalNumber(dim)

\* The axis lengths a declaration fixes, {} for a length that data decides.
StaticShape(m, n) ==
  LET known(d) == IF d.node = "Number" THEN {d.number} ELSE {}
  IN  IF n \in NameSet(m.params)
      THEN LET size == Entry(m.params, n).size
           IN  IF size = Nothing THEN <<>> ELSE <<known(size)>>
      ELSE LET schema == Entry(m.data, n).schema
           IN  IF schema.node = "Rank" THEN [i \in 1..schema.rank |-> {}]
               ELSE [i \in DOMAIN schema.dims |-> known(schema.dims[i])]

LabelsClosed(m, labels) ==
  labels # Nothing =>
    LET shaped == NameSet(m.params) \cup NameSet(m.data)
    IN  /\ DOMAIN labels.variables \subseteq shaped \cup NameSet(m.observed_nodes)
        /\ DOMAIN labels.coords \subseteq UNION {ToSet(labels.variables[v]) : v \in DOMAIN labels.variables}
        /\ \A v \in DOMAIN labels.variables \cap shaped :
             LET dims == labels.variables[v]
                 axes == StaticShape(m, v)
             IN  /\ Len(dims) = Len(axes)
                 /\ \A i \in DOMAIN dims : dims[i] \in DOMAIN labels.coords =>
                      \A k \in axes[i] : Len(labels.coords[dims[i]]) = k

ModelClosed(registry, m, labels) ==
  /\ m.params # <<>> \/ m.observed_nodes # <<>> \/ m.free_values # <<>>
  /\ \A d \in ToSet(m.data) : DataClosed(d, m)
  /\ ParamsOwned(m) /\ OtherFreeValuesOwned(m)
  /\ \A p \in ToSet(m.params) : ParamClosed(registry, p, m)
  /\ \A v \in ToSet(m.free_values) : FreeValueClosed(registry, v, m)
  /\ \A e \in ToSet(m.expressions) : ValueClosed(registry, e.value, m, {})
  /\ \A o \in ToSet(m.observed_nodes) :
       SupportedTruncation(o.distribution) /\ ValueClosed(registry, o.distribution, m, {})
  /\ \A s \in ToSet(m.stochastic_sites) : SiteClosed(registry, s, m)
  /\ LabelsClosed(m, labels)

-----------------------------------------------------------------------------
(* Factorization: what a source gives and what a target keeps.              *)
Snapshot(meta) == [meta EXCEPT !.free_values = FreeValues(meta),
                               !.stochastic_sites = StochasticSites(meta)]

Disjoint(sets) == \A i, j \in DOMAIN sets : i # j => sets[i] \cap sets[j] = {}
RolesUnambiguous(m) ==
  /\ Cardinality(NameSet(m.observed_nodes)) = Len(m.observed_nodes)
  /\ Disjoint(<<NameSet(m.params), NameSet(m.data), NameSet(m.expressions),
                NameSet(m.observed_nodes), NameSet(m.free_values) \ NameSet(m.params)>>)

\* Equal with the classes and types of every part: 1, 1.0 and True differ.
StructurallyEqual(x, y) == x = y

\* A parameter has one direct owner site and a free slot of the same form.
SlotMatches(slot, p) ==
  StructurallyEqual(slot.constraint, p.constraint) /\ StructurallyEqual(slot.size, p.size)
ParamFactored(m, p) ==
  LET slot == Entry(m.free_values, p.name)
  IN  /\ SlotMatches(slot, p)
      /\ Cardinality(OwnerSites(m, p)) = 1
      /\ slot.constraint.node = "VectorBounds" => SitesNamed(m, p.name) = OwnerSites(m, p)
ParamOwners(m) == UNION {OwnerSites(m, p) : p \in ToSet(m.params)}
OwnerSite(m, n) == CHOOSE i \in OwnerSites(m, Entry(m.params, n)) : TRUE

\* Every prior refers to parameters declared, and with their site, before it.
AncestralOrder(m) ==
  \A i \in DOMAIN m.params : \A n \in ParamReferences(m.params[i].distribution) :
    /\ n \in {m.params[j].name : j \in 1..(i - 1)}
    /\ OwnerSite(m, n) <= OwnerSite(m, m.params[i].name)

\* A source has nothing but parameters, one site each.
SourceAccepted(registry, source) ==
  LET m == Snapshot(source.meta)
  IN  /\ SurvivesCodec(registry, source.meta)
      /\ RolesUnambiguous(m)
      /\ m.observed_nodes = <<>>
      /\ NameSeq(m.free_values) = NameSeq(m.params)
      /\ \A p \in ToSet(m.params) : ParamFactored(m, p)
      /\ ParamOwners(m) = DOMAIN m.stochastic_sites
      /\ AncestralOrder(m)
      /\ ModelClosed(registry, m, source.dimensions)

ObservedOwners(m, o) ==
  Where(m.stochastic_sites, LAMBDA s : s.value = DataRef(o.name) /\ s.distribution = o.distribution)
TargetAccepted(registry, target) ==
  LET m == Snapshot(target.meta)
      slots == SelectSeq(m.free_values, LAMBDA v : v.name \in NameSet(m.params))
  IN  /\ SurvivesCodec(registry, target.meta)
      /\ RolesUnambiguous(m)
      /\ NameSeq(slots) = NameSeq(m.params)
      /\ \A v \in ToSet(m.free_values) :
           v.name \notin NameSet(m.params) => Cardinality(CanonicalOwners(m, v.name)) = 1
      /\ \A o \in ToSet(m.observed_nodes) : Cardinality(ObservedOwners(m, o)) = 1
      /\ \A p \in ToSet(m.params) : ParamFactored(m, p)
      /\ ModelClosed(registry, m, target.dimensions)

\* Mutant: the target keeps the factors of its own priors.
AllSites(m) == m.stochastic_sites

RetainedSites(m) == Without(m.stochastic_sites, ParamOwners(m))
RetainedFreeValues(m) == SelectSeq(m.free_values, LAMBDA v : v.name \notin NameSet(m.params))

-----------------------------------------------------------------------------
(* Wiring and closing.                                                      *)
\* Labels of a variable: its dimension names and their coordinates, or {}.
VariableLabels(labels, n) ==
  IF labels = Nothing \/ n \notin DOMAIN labels.variables THEN {}
  ELSE {[names |-> labels.variables[n],
         coords |-> {<<d, labels.coords[d]>> : d \in ToSet(labels.variables[n]) \cap DOMAIN labels.coords}]}

InterfacesMatch(source, target) ==
  \A p \in ToSet(target.meta.params) :
    /\ p.name \in NameSet(source.meta.params)
    /\ LET q == Entry(source.meta.params, p.name)
       IN  /\ SlotMatches(q, p)
           /\ VariableLabels(source.dimensions, p.name) = VariableLabels(target.dimensions, p.name)

\* Mutant: the derived expressions of the source are not looked at.
NamesCollideForParams(source, target) ==
  LET s == source.meta
      t == Snapshot(target.meta)
      expressions == NameSet(t.expressions)
      outcomes == NameSet(t.observed_nodes) \cup NameSet(RetainedFreeValues(t))
  IN  /\ NameSet(s.params) \cap (NameSet(t.data) \cup expressions \cup outcomes) = {}
      /\ NameSet(s.data) \cap (expressions \cup outcomes) = {}

\* Only data may have one name on both sides, then with one schema and labels.
NamesDoNotCollide(source, target) ==
  LET s == source.meta
      t == Snapshot(target.meta)
      expressions == NameSet(t.expressions)
      outcomes == NameSet(t.observed_nodes) \cup NameSet(RetainedFreeValues(t))
  IN  /\ NameSet(s.params) \cap (NameSet(t.data) \cup expressions \cup outcomes) = {}
      /\ NameSet(s.data) \cap (expressions \cup outcomes) = {}
      /\ NameSet(s.expressions) \cap (NameSet(t.data) \cup outcomes \cup expressions) = {}
      /\ \A n \in NameSet(s.data) \cap NameSet(t.data) :
           /\ StructurallyEqual(Entry(s.data, n).schema, Entry(t.data, n).schema)
           /\ VariableLabels(source.dimensions, n) = VariableLabels(target.dimensions, n)

\* The variables whose labels each side keeps: of the target, no parameter.
KeptVariables(model, isSource) ==
  IF model.dimensions = Nothing THEN {}
  ELSE LET m == model.meta
           kept == IF isSource THEN NameSet(m.params) \cup NameSet(m.data)
                   ELSE (NameSet(m.data) \cup NameSet(m.observed_nodes)) \ NameSet(m.params)
       IN  DOMAIN model.dimensions.variables \cap kept
UsedDimensions(model, isSource) ==
  UNION {ToSet(model.dimensions.variables[v]) : v \in KeptVariables(model, isSource)}
CoordsOf(model) == IF model.dimensions = Nothing THEN <<>> ELSE model.dimensions.coords

\* Mutant: coordinates are compared where both sides have them.
LabelsMergeLoosely(source, target) ==
  LET used == UsedDimensions(source, TRUE) \cup UsedDimensions(target, FALSE)
      both == DOMAIN CoordsOf(source) \cap DOMAIN CoordsOf(target)
  IN  \A d \in both \cap used : StructurallyEqual(CoordsOf(source)[d], CoordsOf(target)[d])

LabelsMerge(source, target) ==
  LET used == UsedDimensions(source, TRUE) \cup UsedDimensions(target, FALSE)
      both == DOMAIN CoordsOf(source) \cap DOMAIN CoordsOf(target)
  IN  /\ \A v \in KeptVariables(source, TRUE) \cap KeptVariables(target, FALSE) :
           source.dimensions.variables[v] = target.dimensions.variables[v]
      /\ \A d \in UsedDimensions(source, TRUE) \cap UsedDimensions(target, FALSE) :
           d \in DOMAIN CoordsOf(source) <=> d \in DOMAIN CoordsOf(target)
      /\ \A d \in both \cap used : StructurallyEqual(CoordsOf(source)[d], CoordsOf(target)[d])
MergedLabels(source, target) ==
  IF source.dimensions = Nothing /\ target.dimensions = Nothing THEN Nothing
  ELSE LET mine == KeptVariables(source, TRUE)
           yours == KeptVariables(target, FALSE)
           used == UsedDimensions(source, TRUE) \cup UsedDimensions(target, FALSE)
       IN  [variables |-> [v \in mine \cup yours |->
              IF v \in mine THEN source.dimensions.variables[v] ELSE target.dimensions.variables[v]],
            coords |-> [d \in used \cap (DOMAIN CoordsOf(source) \cup DOMAIN CoordsOf(target)) |->
              IF d \in DOMAIN CoordsOf(target) THEN CoordsOf(target)[d] ELSE CoordsOf(source)[d]]]

Composed(source, target) ==
  LET s == Snapshot(source.meta)
      t == Snapshot(target.meta)
  IN  [meta |-> ModelMeta(s.params,
                  s.data \o SelectSeq(t.data, LAMBDA d : d.name \notin NameSet(s.data)),
                  t.observed_nodes, s.expressions \o t.expressions,
                  s.free_values \o RetainedFreeValues(t),
                  s.stochastic_sites \o RetainedSites(t)),
       dimensions |-> MergedLabels(source, target)]

\* The pairs with_prior accepts.  The result is checked once more, whole: it is
\* closed and it survives the codec.
CompositionAccepted(registry, source, target) ==
  /\ SourceAccepted(registry, source)
  /\ TargetAccepted(registry, target)
  /\ InterfacesMatch(source, target)
  /\ NamesDoNotCollide(source, target)
  /\ LabelsMerge(source, target)
  /\ LET c == Composed(source, target)
     IN  /\ ModelClosed(registry, c.meta, c.dimensions)
         /\ SurvivesCodec(registry, c.meta)
=============================================================================
