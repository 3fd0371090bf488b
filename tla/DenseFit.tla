------------------------------ MODULE DenseFit ------------------------------
(* The fit as the plots are given it: the artifacts a run directory holds,    *)
(* assembled into groups of dense arrays with labelled axes, or refused       *)
(* (bayesite_idata/run_dir.py, model_ir.py, dense.py).                        *)
(*                                                                            *)
(* A run is its artifacts, Null for the one it does not have.  A variable has *)
(* a name, the shape of its event and its cells in row-major order, for each  *)
(* position of a chain and a draw where it has samples.                       *)
EXTENDS PredictiveStreams, DataDocuments

Sidecar(run) == IF run.dims = Null THEN [dims |-> <<>>, coords |-> <<>>] ELSE run.dims

\* The data a model document observes: its observed nodes, and the stochastic
\* sites whose value is data.
ObservedDataNames(model) == model.observed_nodes \cup model.sites_of_data
\* Those names, or all the data where the document does not tell.
ObservedNames(run) ==
  IF run.posterior_predictive # Null
  THEN Range(NamesOf(ReadPosteriorPredictive(run.posterior_predictive).sites))
  ELSE IF ObservedDataNames(run.model) # {} THEN ObservedDataNames(run.model)
       ELSE DOMAIN ReadDataArrays(run.data)

----------------------------------------------------------------------------
\* Labels: an axis has the declared label, or one of its own.

EventDims(sidecar, v) ==
  IF v.name \in DOMAIN sidecar.dims
  THEN [axis \in DOMAIN sidecar.dims[v.name] |-> <<sidecar.dims[v.name][axis]>>]
  ELSE [axis \in DOMAIN v.shape |-> <<v.name, axis>>]
Positions(size) == [k \in 1..size |-> Whole(k - 1)]
Coordinates(sidecar, dim, size) ==
  IF Len(dim) = 1 /\ dim[1] \in DOMAIN sidecar.coords THEN sidecar.coords[dim[1]] ELSE Positions(size)
CoordsOf(sidecar, v) ==
  {<<EventDims(sidecar, v)[axis], Coordinates(sidecar, EventDims(sidecar, v)[axis], v.shape[axis])>> :
     axis \in DOMAIN v.shape}

\* The variables of a group fit together: every label has a value for each
\* position of its axis, the same ones in every variable, and is no variable.
GroupIsConsistent(sidecar, variables, sampled) ==
  LET coords == sampled \cup UNION {CoordsOf(sidecar, v) : v \in variables}
  IN  /\ \A v \in variables :
           /\ Len(EventDims(sidecar, v)) = Len(v.shape)
           /\ \A axis \in DOMAIN v.shape :
                Len(Coordinates(sidecar, EventDims(sidecar, v)[axis], v.shape[axis])) = v.shape[axis]
      /\ \A p, q \in coords : p[1] = q[1] => p[2] = q[2]
      /\ \A p \in coords : \A v \in variables : p[1] # <<v.name>>

----------------------------------------------------------------------------
\* The groups.

SampleCoords(chains, draws) ==
  {<<<<"chain">>, [k \in DOMAIN chains |-> Whole(chains[k])]>>, <<<<"draw">>, Positions(draws)>>}
Cells(posterior) == (1..Len(posterior.chains)) \X (0..posterior.draws_per_chain - 1)

PosteriorVariables(posterior) ==
  {[name |-> p.name, shape |-> p.shape,
    cells |-> [at \in Cells(posterior) |->
                 posterior.records[<<posterior.chains[at[1]], at[2]>>].values[p.name]]] :
     p \in Range(posterior.params)}

SampleStats(posterior) ==
  IF posterior.mode = Null THEN {}
  ELSE {[name |-> f, shape |-> <<>>,
         cells |-> [at \in Cells(posterior) |->
                      <<posterior.records[<<posterior.chains[at[1]], at[2]>>][f]>>]] :
          f \in {"diverging", "tree_depth", "tree_accept"}
                \cup (IF posterior.mode = "per_draw_v2" THEN {"energy"} ELSE {})}

DataVariables(run, observed) ==
  {[name |-> n, shape |-> ReadDataArrays(run.data)[n].shape, cells |-> ReadDataArrays(run.data)[n].values] :
     n \in {m \in DOMAIN ReadDataArrays(run.data) : (m \in ObservedNames(run)) = observed}}

PriorVariables(stream, parameters) ==
  {[name |-> s.name, shape |-> s.shape,
    cells |-> [at \in {1} \X {c[1] : c \in DOMAIN stream.records} |->
                 stream.records[<<at[2]>>][s.name]]] :
     s \in {r \in Range(stream.sites) : (r.role = "parameter") = parameters}}

PredictiveVariables(posterior, stream) ==
  {[name |-> s.name, shape |-> s.shape,
    cells |-> [at \in Cells(posterior) |->
                 stream.records[<<posterior.chains[at[1]], at[2]>>][s.name]]] :
     s \in Range(stream.sites)}

\* The predictive draws are of this fit, one for each of its draws.
\* Mutant: of any fit with these cells.
PredictiveHasItsCells(posterior, stream) ==
  DOMAIN stream.records = Range(posterior.chains) \X (0..posterior.draws_per_chain - 1)
PredictiveIsOfFit(posterior, stream) ==
  /\ posterior.seed # Null => stream.source_fit_seeds \subseteq {posterior.seed}
  /\ DOMAIN stream.records = Range(posterior.chains) \X (0..posterior.draws_per_chain - 1)

PredictiveMatchesData(run, variables) ==
  \A v \in variables : v.name \in DOMAIN ReadDataArrays(run.data)
                       /\ v.shape = ReadDataArrays(run.data)[v.name].shape

Export(run) ==
  LET posterior == ReadPosterior(run.posterior)
      prior(parameters) == IF run.prior_predictive = Null THEN {}
                           ELSE PriorVariables(ReadPriorPredictive(run.prior_predictive), parameters)
  IN  [posterior |-> PosteriorVariables(posterior),
       seed |-> posterior.seed,
       sample_stats |-> SampleStats(posterior),
       observed_data |-> DataVariables(run, TRUE),
       constant_data |-> DataVariables(run, FALSE),
       prior |-> prior(TRUE),
       prior_predictive |-> prior(FALSE),
       posterior_predictive |->
         IF run.posterior_predictive = Null THEN {}
         ELSE PredictiveVariables(posterior, ReadPosteriorPredictive(run.posterior_predictive))]

\* Every artifact can be read.
CanDiscover(run) == run.model # Null /\ run.data # Null /\ run.posterior # Null
CanAssemble(run) ==
  /\ CanDiscover(run)
  /\ Readable(run.posterior)
  /\ (run.prior_predictive # Null => PriorPredictiveIsReadable(run.prior_predictive))
  /\ (run.posterior_predictive # Null => PosteriorPredictiveIsReadable(run.posterior_predictive))
  /\ IsReadSidecar(Sidecar(run))
  /\ CanReadArrays(run.data)
  /\ ObservedNames(run) \subseteq DOMAIN ReadDataArrays(run.data)

\* The artifacts read are of one fit, and their groups fit together.
CanExport(run) ==
  /\ CanAssemble(run)
  /\ run.posterior_predictive # Null =>
       PredictiveIsOfFit(ReadPosterior(run.posterior), ReadPosteriorPredictive(run.posterior_predictive))
  /\ LET fit == Export(run)
         posterior == ReadPosterior(run.posterior)
         sampled == SampleCoords(posterior.chains, posterior.draws_per_chain)
         simulated == SampleCoords(<<0>>, IF run.prior_predictive = Null THEN 0
                                          ELSE Len(Draws(run.prior_predictive)))
     IN  /\ \A g \in {fit.posterior, fit.sample_stats, fit.posterior_predictive} :
              GroupIsConsistent(Sidecar(run), g, sampled)
         /\ \A g \in {fit.prior, fit.prior_predictive} : GroupIsConsistent(Sidecar(run), g, simulated)
         /\ \A g \in {fit.observed_data, fit.constant_data} : GroupIsConsistent(Sidecar(run), g, {})
         /\ PredictiveMatchesData(run, fit.posterior_predictive)
=============================================================================
