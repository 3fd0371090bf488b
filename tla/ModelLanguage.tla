---------------------------- MODULE ModelLanguage ----------------------------
(* The life of model classes in a Python process that uses bayeswire: class *)
(* bodies are run and decorated, priors are replaced, models are written as *)
(* IR documents and read back, distribution classes are registered, and the *)
(* process ends while the documents stay.                                   *)
EXTENDS ModelComposition

CONSTANTS Projects,      \* user code: [bodies: class bodies, classes: distributions,
                         \* maxModels: a bound on the model classes of a process]
          Tags,          \* the tags extensions are registered under
          MaxDocuments   \* bound on the documents written

ASSUME TagsAssumption == Tags \cap BuiltinClasses = {}

VARIABLES project,    \* the code the process runs
          models,     \* the model classes of the process
          documents,  \* written documents: [wire, dimensions]
          registry    \* extension tag -> class
vars == <<project, models, documents, registry>>

\* A class and its direct dependencies: target then source of a composition, or
\* the targets of its Submodels.
Model(meta, labels, route, dependencies) ==
  [meta |-> meta, dimensions |-> labels, route |-> route, dependencies |-> dependencies]

Init == project \in Projects /\ models = {} /\ documents = {} /\ registry = <<>>

Room == Cardinality(models) < project.maxModels

\* The bodies that run to their end and are accepted, with the child they take.
ValidDeclarations == {d \in project.bodies \X (models \cup {Nothing}) :
  LET body == RunBody(d[1], d[2])
  IN  /\ HasSubmodel(d[1]) <=> d[2] # Nothing
      /\ Len(body) = Len(d[1])
      /\ DeclarationAccepted(body)}
Composable == {pair \in models \X models : CompositionAccepted(registry, pair[2], pair[1])}

\* @model on a class whose body is `lines`.
Declare(lines, child) ==
  LET body == RunBody(lines, child)
      attributes == Attributes(body)
      submodels == SelectSeq(attributes, LAMBDA a : a.object.decl = "Submodel")
  IN  /\ Room
      /\ <<lines, child>> \in ValidDeclarations
      /\ models' = models \cup {Model(Decorated(body), ResolvedDimensions(attributes), "declared",
                                      [i \in DOMAIN submodels |-> submodels[i].object.target])}
      /\ UNCHANGED <<project, documents, registry>>

WithPrior(target, source) ==
  /\ Room
  /\ <<target, source>> \in Composable
  /\ LET c == Composed(source, target)
     IN  models' = models \cup {Model(c.meta, c.dimensions, "composed", <<target, source>>)}
  /\ UNCHANGED <<project, documents, registry>>

\* canonical_bytes, with the labels in a sidecar of its own.
Export(model) ==
  /\ Cardinality(documents) < MaxDocuments
  /\ Encodable(registry, model.meta)
  /\ documents' = documents \cup {[wire |-> Encoded(registry, model.meta),
                                   dimensions |-> model.dimensions]}
  /\ UNCHANGED <<project, models, registry>>

\* meta_from_dict and bindable_from_meta, with the sidecar or without it.
Import(doc, labelled) ==
  /\ Room
  /\ Decodable(registry, doc.wire, Tags)
  /\ models' = models \cup {Model(Decoded(registry, doc.wire),
                                  IF labelled THEN doc.dimensions ELSE Nothing, "decoded", <<>>)}
  /\ UNCHANGED <<project, documents, registry>>

RegisterDistribution(class, tag) ==
  /\ RegistrationAccepted(registry, class, tag)
  /\ registry' = Registered(registry, class, tag)
  /\ UNCHANGED <<project, models, documents>>

\* The process ends and another one starts.
Restart ==
  /\ models # {}
  /\ models' = {} /\ registry' = <<>>
  /\ UNCHANGED <<project, documents>>

Next ==
  \/ \E lines \in project.bodies, child \in models \cup {Nothing} : Declare(lines, child)
  \/ \E target, source \in models : WithPrior(target, source)
  \/ \E model \in models : Export(model)
  \/ \E doc \in documents, labelled \in BOOLEAN : Import(doc, labelled)
  \/ \E class \in project.classes, tag \in Tags : RegisterDistribution(class, tag)
  \/ Restart

Spec == Init /\ [][Next]_vars

-----------------------------------------------------------------------------
(* Properties.                                                              *)

MadeBy(route) == {m \in models : m.route = route}

\* What a model refers to is declared by it, and nothing of a class body is left.
UsesWhatItDeclares ==
  \A model \in models :
    LET m == Snapshot(model.meta)
        used == Named(m, "DataRef") \cup Named(m, "DataDimRef")
    IN  /\ ParamReferences(m) \subseteq NameSet(m.free_values)
        /\ used \subseteq NameSet(m.data) \cup NameSet(m.observed_nodes)
        /\ \A e \in ToSet(m.params) \cup ToSet(m.free_values) : SizeClosed(e.size, m)
        /\ \A d \in ToSet(m.data) : DataClosed(d, m)
        /\ ParamsOwned(m) /\ OtherFreeValuesOwned(m)
        /\ \A n \in Nodes(m) : n.node \notin {"Name", "Attr", "Symbol", "Member", "Slice", "Tuple"}

\* "Repeated submodel instances are independent" (docs/invariants.md): what a
\* declared model took over under a submodel's name refers to names under that
\* name only.
NamespacesAreClosed ==
  \A model \in MadeBy("declared") :
    \A e \in UNION {ToSet(model.meta[f]) : f \in MetaFields} :
      Len(e.name) > 1 =>
        \A n \in UNION {Named(e, kind) : kind \in {"ParamRef", "DataRef", "DataDimRef"}} :
          n[1] = e.name[1]

\* Every name a model uses is one it declares, with the right role, however the
\* model was made: @model resolves symbols and prefixes whole children without a
\* check at the end, and only with_prior validates closure.
ModelsStandAlone ==
  /\ NamespacesAreClosed
  /\ UsesWhatItDeclares

\* The model whose outcomes a composition keeps, through any number of earlier
\* replacements of its prior.
RECURSIVE Root(_)
Root(model) == IF model.route = "composed" THEN Root(model.dependencies[1]) ELSE model

\* Prior replacement is complete: after any number of replacements the density
\* is that of the last prior and of the first model's outcomes, each once.
PriorsDoNotAccumulate ==
  \A model \in MadeBy("composed") :
    LET source == model.dependencies[2].meta
        root == Snapshot(Root(model).meta)
    IN  /\ model.meta.stochastic_sites = StochasticSites(source) \o RetainedSites(root)
        /\ model.meta.params = source.params
        /\ model.meta.observed_nodes = root.observed_nodes

\* Composition neither drops, adds nor changes a label of a variable its target
\* has, whatever dimensions and coordinates the source brings with it.
LabelsSurviveComposition ==
  \A model \in MadeBy("composed") :
    LET target == model.dependencies[1]
        t == target.meta
    IN  \A v \in NameSet(t.params) \cup NameSet(t.data) \cup NameSet(t.observed_nodes) :
          VariableLabels(model.dimensions, v) = VariableLabels(target.dimensions, v)

\* A composed model is an ordinary model: with_prior takes it as a target again,
\* and as a source when its target had no outcomes; its density is the last
\* prior's and the first model's, and its labels are its target's.
ComposedIsAnOrdinaryModel ==
  /\ PriorsDoNotAccumulate
  /\ LabelsSurviveComposition
  /\ \A model \in MadeBy("composed") :
       /\ TargetAccepted(registry, model)
       /\ RetainedSites(Snapshot(Root(model).meta)) = <<>> => SourceAccepted(registry, model)

\* A document that can be read at all means the same to every process: read and
\* written again it is the same document, also when another class now has the tag.
DocumentsKeepTheirMeaning ==
  \A doc \in documents :
    LET read == Decoded(registry, doc.wire)
    IN  /\ Decodable(registry, doc.wire, Tags)
        /\ {n.node : n \in Nodes(read)} \cap Altering = {}
        => Encodable(registry, read) /\ Encoded(registry, read) = doc.wire
=============================================================================
