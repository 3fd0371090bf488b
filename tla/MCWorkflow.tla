----------------------------- MODULE MCWorkflow -----------------------------
(***************************************************************************)
(* Instances of Workflow for TLC.                                          *)
(*                                                                         *)
(* Revisions and request ids grow for ever, but the code compares them for *)
(* equality only, and every new one is fresh.  Observed is the state up to *)
(* that: ids are renumbered in order of issue, a revision that is still    *)
(* current is told from one that never can be again, and a driver whose    *)
(* signal has been aborted keeps no more than its kind, since it can only  *)
(* end without effect, unless the run shown is still its own and an error  *)
(* of it would end that; of the two pairs of the selected collection it    *)
(* matters which one is selected, not which position it has.  Two states   *)
(* with the same Observed have the same future up to renumbering, so as a  *)
(* VIEW it makes the instance finite although edits and attempts are       *)
(* unlimited.                                                              *)
(***************************************************************************)
EXTENDS Workflow, TLC

ASSUME IndicesAssumption == Cardinality(Indices) <= 2

Symmetric == Permutations(IrHashes) \cup Permutations(Documents) \cup Permutations(Settings)

DatasetIds(d) == IF d.source = "generated" THEN {d.pair.gen} ELSE {}
KeyIds(k) == IF k = None THEN {} ELSE DatasetIds(k.dataset)
TaskIds(t) ==
  {t.id} \cup
  CASE t.kind = "compile" -> {}
    [] t.kind = "generation" -> KeyIds(t.guard.fitLineageKey)
    [] t.kind = "conditioning" -> DatasetIds(t.dataset)
LiveIds ==
  (({state.compile.requestId, state.run.requestId,
    state.generation.attempt.requestId, state.conditioning.attempt.requestId}
   \cup {active[k] : k \in Kinds}) \ {None})
  \cup UNION {TaskIds(t) : t \in tasks}
  \cup KeyIds(FitLineage(state))
  \cup KeyIds(state.generation.attempt.sourceFitLineageKey)
  \cup UNION {KeyIds(a.lineageKey) : a \in state.artifacts}
  \cup (IF state.generation.collection = None THEN {}
        ELSE {state.generation.collection.gen}
             \cup KeyIds(state.generation.collection.sourceFitLineageKey))
  \cup (IF state.generation.selected = None THEN {} ELSE {state.generation.selected.gen})

Observed ==
  LET live == LiveIds
      rank == [i \in live |-> Cardinality({j \in live : j <= i})]
      Id(i) == IF i = None THEN None ELSE rank[i]
      chosen == state.generation.selected
      Index(p) == IF chosen = None \/ p.gen # chosen.gen THEN p.index
                  ELSE IF p.index = chosen.index THEN 0 ELSE 1
      Dataset(d) == IF d.source = "generated"
                    THEN [source |-> "generated", pair |-> <<rank[d.pair.gen], Index(d.pair)>>]
                    ELSE d
      Key(k) == IF k = None THEN None ELSE [k EXCEPT !.dataset = Dataset(@)]
      Settled(status) == IF status = "running" THEN "running" ELSE "settled"
      GenerationTaskView(t) ==
        <<t.kind, rank[t.id], t.pc, t.irHash, t.guard.sourceKind, Key(t.guard.fitLineageKey),
          t.pc = "keying" =>
            /\ t.guard.compileRevision = state.sourceRevision
            /\ t.guard.inputRevision = state.generation.inputRevision
            /\ t.guard.settingsRevision = state.generation.settingsRevision>>
      FitTaskView(t) ==
        <<t.kind, rank[t.id], t.pc, t.irHash, Dataset(t.dataset), t.settings,
          t.projectRevision = state.projectRevision,
          t.pc = "keying" =>
            /\ t.guard.compileRevision = state.sourceRevision
            /\ t.guard.settingsRevision = state.conditioning.settingsRevision
            /\ t.guard.datasetSourceRevision = state.conditioning.datasetSourceRevision
            /\ t.guard.datasetSource = "generated" =>
                 t.guard.selectionRevision = state.generation.selectionRevision>>
      TaskView(t) ==
        IF t.aborted
        THEN <<t.kind, rank[t.id],
               IF state.run.requestId = t.id THEN <<t.pc, t.irHash = None>> ELSE None>>
        ELSE CASE t.kind = "compile" ->
                    <<t.kind, rank[t.id], t.priorIrHash, t.sourceRevision = state.sourceRevision>>
               [] t.kind = "generation" -> GenerationTaskView(t)
               [] t.kind = "conditioning" -> FitTaskView(t)
  IN <<state.observed,
       <<state.compile.status, Id(state.compile.requestId), state.compile.irHash,
         state.compile.priorIrHash>>,
       <<Settled(state.run.status), Id(state.run.requestId), state.run.datasetSource,
         state.run.revision = state.projectRevision>>,
       <<Settled(state.generation.attempt.status), Id(state.generation.attempt.requestId),
         state.generation.attempt.sourceKind,
         Key(state.generation.attempt.sourceFitLineageKey)>>,
       IF state.generation.collection = None THEN None
       ELSE [state.generation.collection EXCEPT !.gen = rank[@], !.sourceFitLineageKey = Key(@)],
       IF chosen = None THEN None ELSE rank[chosen.gen],
       <<Settled(state.conditioning.attempt.status), Id(state.conditioning.attempt.requestId),
         state.conditioning.attempt.datasetSource, FitSource(state), Key(FitLineage(state)),
         state.conditioning.datasetSource>>,
       {<<a.name, Key(a.lineageKey)>> : a \in state.artifacts},
       state.fitDatasetSource, form, {TaskView(t) : t \in tasks},
       [k \in Kinds |-> Id(active[k])]>>

=============================================================================
