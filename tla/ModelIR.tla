------------------------------- MODULE ModelIR -------------------------------
(* The resolved metadata of a bayeswire model (model/expr.py, decorator.py, *)
(* ir.py, _ir_registry.py) as values.  Every dataclass instance is a record *)
(* whose "node" field is its class, so that one walk serves every class:    *)
(* expressions, distributions, constraints, schemas and ModelMeta itself.   *)
(* A dotted name is the sequence of its parts, an ordered dictionary is the *)
(* sequence of its entries, and None is a node of its own.                  *)
EXTENDS Integers, Sequences, FiniteSets, SequencesExt

CONSTANTS Extensions,  \* frozen dataclass distributions of a user's package
          Altering,    \* those whose constructor changes a field it is given
          Opaque       \* user distributions that are no dataclasses

ASSUME ExtensionsAssumption == /\ Altering \subseteq Extensions
                               /\ Opaque \cap Extensions = {}

-----------------------------------------------------------------------------
Nothing == [node |-> "None"]
ParamRef(n) == [node |-> "ParamRef", name |-> n]
DataRef(n) == [node |-> "DataRef", name |-> n]
DataDimRef(n) == [node |-> "DataDimRef", name |-> n]
FullSlice == [node |-> "FullSlice"]
ScalarIndex(e) == [node |-> "ScalarIndex", expr |-> e]
VectorBounds(low, high) == [node |-> "VectorBounds", lower |-> low, upper |-> high]

\* A Python number held by a field; the same number as a constant expression.
Number(t, k) == [node |-> "Number", type |-> t, number |-> k]
ConstNode(t, k) == [node |-> "ConstNode", type |-> t, number |-> k]

\* The fields of a record that hold no node, and those that hold several.
Leaves == {"node", "name", "op", "function", "type", "number", "rank", "id", "path"}
Lists == {"args", "items", "dims", "params", "data", "observed_nodes",
          "expressions", "free_values", "stochastic_sites"}

\* A value and every node nested in it.
RECURSIVE Nodes(_)
Nodes(v) ==
  {v} \cup UNION { IF f \in Lists THEN UNION {Nodes(v[f][i]) : i \in DOMAIN v[f]}
                                  ELSE Nodes(v[f]) : f \in DOMAIN v \ Leaves }

Named(v, kind) == {n.name : n \in {n \in Nodes(v) : n.node = kind}}
ParamReferences(v) == Named(v, "ParamRef")

-----------------------------------------------------------------------------
(* Distribution classes.                                                    *)
DiscreteClasses == {"Bernoulli", "Poisson", "Binomial", "BetaBinomial", "NegativeBinomial",
                    "OrderedLogistic"}
InverseCdfClasses == {"Normal", "HalfNormal", "Exponential", "Uniform"}
BuiltinClasses == DiscreteClasses \cup InverseCdfClasses
                  \cup {"Beta", "StudentT", "MultivariateNormal", "Truncated"}
DistributionClasses == BuiltinClasses \cup Extensions \cup Opaque

IsDiscrete(d) == \/ d.node \in DiscreteClasses
                 \/ d.node = "Truncated" /\ d.base.node \in DiscreteClasses
SupportedTruncation(d) == d.node = "Truncated" => d.base.node \in InverseCdfClasses

\* Calling the class of v on its fields.  A constructor of an Altering class
\* keeps something else than it is given: here the next number.
Construct(v) ==
  IF v.node \in Altering /\ v.args[1].node = "ConstNode"
  THEN [v EXCEPT !.args[1].number = @ + 1] ELSE v

-----------------------------------------------------------------------------
(* Namespaces.                                                              *)
Qualified(p, n) == p \o n

\* Mutant: the dimensions of a shape are not looked into.
UntouchedWithDims == Opaque \cup {"DataDimRef"}

\* The nodes that are passed on as they are.
Untouched == Opaque

\* The same value inside the namespace p: every name it declares or refers to
\* gets the prefix.
RECURSIVE Prefixed(_, _)
Prefixed(v, p) ==
  IF v.node \in Untouched THEN v
  ELSE Construct([f \in DOMAIN v |->
         CASE f = "name" -> Qualified(p, v.name)
           [] f \in Leaves \ {"name"} -> v[f]
           [] f \in Lists -> [i \in DOMAIN v[f] |-> Prefixed(v[f][i], p)]
           [] OTHER -> Prefixed(v[f], p)])

NameSet(entries) == {entries[i].name : i \in DOMAIN entries}
NameSeq(entries) == [i \in DOMAIN entries |-> entries[i].name]
Entry(entries, n) == entries[CHOOSE i \in DOMAIN entries : entries[i].name = n]
Where(entries, Test(_)) == {i \in DOMAIN entries : Test(entries[i])}
Without(entries, gone) == \* the entries at the other places
  LET kept == DOMAIN entries \ gone
  IN  [k \in 1..Cardinality(kept) |->
         entries[CHOOSE i \in kept : Cardinality({j \in kept : j <= i}) = k]]

ModelMeta(ps, ds, os, es, fs, ss) ==
  [node |-> "ModelMeta", params |-> ps, data |-> ds, observed_nodes |-> os,
   expressions |-> es, free_values |-> fs, stochastic_sites |-> ss]
ResolvedParam(n, d, c, s) ==
  [node |-> "ResolvedParam", name |-> n, distribution |-> d, constraint |-> c, size |-> s]
ResolvedData(n, s) == [node |-> "ResolvedData", name |-> n, schema |-> s]
ResolvedObserved(n, d) == [node |-> "ResolvedObserved", name |-> n, distribution |-> d]
ResolvedFreeValue(n, c, s) ==
  [node |-> "ResolvedFreeValue", name |-> n, constraint |-> c, size |-> s]
ResolvedStochasticSite(n, d, v) ==
  [node |-> "ResolvedStochasticSite", name |-> n, distribution |-> d, value |-> v]
Expression(n, v) == [node |-> "Expression", name |-> n, value |-> v]

\* Metadata without free values or sites stands for its params and observed nodes.
FreeValues(meta) ==
  IF meta.free_values # <<>> THEN meta.free_values
  ELSE [i \in DOMAIN meta.params |->
          LET p == meta.params[i] IN ResolvedFreeValue(p.name, p.constraint, p.size)]
StochasticSites(meta) ==
  IF meta.stochastic_sites # <<>> THEN meta.stochastic_sites
  ELSE [i \in DOMAIN meta.params |->
          LET p == meta.params[i]
          IN  ResolvedStochasticSite(p.name, p.distribution, ParamRef(p.name))]
       \o [i \in DOMAIN meta.observed_nodes |->
          LET o == meta.observed_nodes[i]
          IN  ResolvedStochasticSite(o.name, o.distribution, DataRef(o.name))]

IsScalar(schema) == \/ schema.node = "Shape" /\ schema.dims = <<>>
                    \/ schema.node = "Rank" /\ schema.rank = 0
IsExactVector(schema) == schema.node = "Shape" /\ Len(schema.dims) = 1

-----------------------------------------------------------------------------
(* The registry of node classes, a function from the tags of extensions to  *)
(* their classes (a built-in class is its own tag), and the codec it drives.*)
RegisteredDistributions(registry) == BuiltinClasses \cup {registry[t] : t \in DOMAIN registry}

\* Mutant: a class may be registered again under another tag.
RegistrationOfFreeTag(registry, class, tag) == tag \notin DOMAIN registry \cup BuiltinClasses

\* register_node: one tag for a class and one class for a tag.  A second
\* registration of the same pair changes nothing.
RegistrationAccepted(registry, class, tag) ==
  /\ tag \notin DOMAIN registry \cup BuiltinClasses
  /\ \A t \in DOMAIN registry : registry[t] # class
Registered(registry, class, tag) ==
  [t \in DOMAIN registry \cup {tag} |-> IF t = tag THEN class ELSE registry[t]]

\* Every instance has a registered class and no number is infinite.
Encodable(registry, v) ==
  \A n \in Nodes(v) :
    /\ n.node \in DistributionClasses => n.node \in RegisteredDistributions(registry)
    /\ n.node \in {"Number", "ConstNode"} => n.type # "infinite"

\* One walk serves both directions: the class of a node is replaced by its tag,
\* or the tag by its class and the class is called on the decoded fields.
RECURSIVE Recoded(_, _, _)
Recoded(v, rename, calls) ==
  LET fields == [f \in DOMAIN v |->
        CASE f = "node" -> IF v.node \in DOMAIN rename THEN rename[v.node] ELSE v.node
          [] f \in Leaves \ {"node"} -> v[f]
          [] f \in Lists -> [i \in DOMAIN v[f] |-> Recoded(v[f][i], rename, calls)]
          [] OTHER -> Recoded(v[f], rename, calls)]
  IN  IF calls THEN Construct(fields) ELSE fields

Encoded(registry, v) == Recoded(v, AntiFunction(registry), FALSE)
\* UnknownNodeTag: only the tags registered in this process can be read.
Decodable(registry, doc, extensionTags) ==
  {n.node : n \in Nodes(doc)} \cap extensionTags \subseteq DOMAIN registry
Decoded(registry, doc) == Recoded(doc, registry, TRUE)

\* _validate_input_codec and the check of _model_class_from_closed: the
\* metadata survives the ordinary codec without changing.
SurvivesCodec(registry, meta) ==
  /\ Encodable(registry, meta)
  /\ Decoded(registry, Encoded(registry, meta)) = meta
=============================================================================
