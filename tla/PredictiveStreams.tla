------------------------- MODULE PredictiveStreams -------------------------
(* The predictive draw streams: the prior-predictive one the in-process      *)
(* backend writes (prior_predictive_ndjson.py), and what the plots read of   *)
(* it and of the posterior-predictive one of an external engine              *)
(* (bayesite_idata/protocol_v0.py).                                          *)
EXTENDS PosteriorStream

\* A simulation: the declared data, and by name the parameters and observed
\* nodes, each with its shape (the draw axis first), whether its type is
\* integral, and for each draw its cells.
SiteSpecs(result) ==
  LET specs(arrays, role) ==
        [k \in DOMAIN arrays |->
           [name |-> arrays[k].name, role |-> role, integer |-> arrays[k].integer,
            shape |-> IF arrays[k].shape = <<>> THEN <<>> ELSE Tail(arrays[k].shape)]]
  IN  specs(result.parameters, "parameter") \o specs(result.observed, "observed")
SiteArrays(result) == result.parameters \o result.observed

SimulationIsWritable(result, settings) ==
  /\ SiteSpecs(result) # <<>>
  /\ \A k \in DOMAIN SiteArrays(result) :
       /\ SiteArrays(result)[k].shape # <<>>
       /\ Head(SiteArrays(result)[k].shape) = settings.draws
       /\ \A d \in 1..settings.draws : \A i \in DOMAIN SiteArrays(result)[k].cells[d] :
            FiniteNumber(SiteArrays(result)[k].cells[d][i])

SiteFields == [prior_predictive_format |-> "v0-provisional", artifact_kind |-> "prior_predictive_draws",
               artifact_scope |-> "declared_data_conditioned_site_draws"]
\* What the header, the trailer and every draw repeat.
SimulationFields(result, settings) ==
  SiteFields @@
  [draw_index_base |-> "zero_based_prior_predictive_draw_order",
   seed |-> settings.seed, draw_count |-> settings.draws,
   declared_data_count |-> Len(result.data), declared_data_order |-> result.data,
   site_count |-> Len(SiteSpecs(result)), site_order |-> NamesOf(SiteSpecs(result))]

SiteDocument(site) ==
  [name |-> site.name, role |-> site.role, shape |-> site.shape, integer |-> site.integer,
   integer_by_coordinate |-> [k \in 1..Product(site.shape) |-> site.integer],
   coordinate_order |-> IF site.shape = <<>> THEN <<>> ELSE CoordinateOrder(site.shape)]

SimulationDraw(result, settings, draw) ==
  SimulationFields(result, settings) @@
  [draw_index |-> draw, draw |-> draw,
   values |-> [k \in DOMAIN SiteArrays(result) |->
                 [name |-> SiteArrays(result)[k].name,
                  value |-> ParameterValue(SiteArrays(result)[k].cells[draw + 1],
                                           SiteSpecs(result)[k].shape)]]]

WritePriorPredictive(result, settings) ==
  LET fields == SimulationFields(result, settings) @@ [workflow_phases |-> "simulate", draws |-> settings.draws]
      sites == SiteSpecs(result)
  IN  [lines |-> <<fields @@ [sites |-> [k \in DOMAIN sites |-> SiteDocument(sites[k])]]>>
                 \o [d \in 1..settings.draws |-> SimulationDraw(result, settings, d - 1)]
                 \o <<[trailer |-> fields @@ [sites |-> Len(sites)]]>>,
       ended |-> TRUE]

----------------------------------------------------------------------------
\* The readers.

SitesAreNamed(h, marker) ==
  /\ Get(h, marker) = "v0-provisional"
  /\ SpecsAreNamed(Get(h, "sites"))
  /\ \A s \in Range(h.sites) : Get(s, "role") # Other /\ Get(s, "integer") \in {Null, TRUE, FALSE}

Cell(d, fields) == [k \in DOMAIN fields |-> Get(d, fields[k])]
Draws(file) == SubSeq(Documents(file), 2, Len(Documents(file)) - 1)
Trailer(file) == Last(Documents(file)).trailer

\* What both readers ask: a header with sites, draws that have a value for each
\* and tell themselves apart by their cells, and a trailer.
StreamIsReadable(file, marker, fields) ==
  /\ Len(Documents(file)) >= 2
  /\ SitesAreNamed(Head(Documents(file)), marker)
  /\ Get(Last(Documents(file)), "trailer") \notin {Null, Other}
  /\ \A d \in Range(Draws(file)) :
       /\ Get(d, marker) = "v0-provisional"
       /\ \A k \in DOMAIN fields : IsInt(Get(d, fields[k]))
       /\ ValuesAreOf(d, Head(Documents(file)).sites)
  /\ Cardinality({Cell(Draws(file)[k], fields) : k \in DOMAIN Draws(file)}) = Len(Draws(file))

AnnouncedCounts(file, fields) ==
  \A f \in fields : /\ OptionalCount(Head(Documents(file)), f, Len(Draws(file)))
                    /\ OptionalCount(Trailer(file), f, Len(Draws(file)))

PriorPredictiveIsReadable(file) ==
  /\ StreamIsReadable(file, "prior_predictive_format", <<"draw">>)
  /\ AnnouncedCounts(file, {"draw_count", "draws"})
  /\ {d.draw : d \in Range(Draws(file))} = 0..Len(Draws(file)) - 1

\* The sites, and the values of each draw by its cell.
ReadStream(file, fields) ==
  LET h == Head(Documents(file))
      at(cell) == CHOOSE d \in Range(Draws(file)) : Cell(d, fields) = cell
  IN  [sites |-> [k \in DOMAIN h.sites |->
                    [name |-> h.sites[k].name, shape |-> h.sites[k].shape,
                     role |-> Get(h.sites[k], "role"), integer |-> Get(h.sites[k], "integer") = TRUE]],
       records |-> [cell \in {Cell(d, fields) : d \in Range(Draws(file))} |-> ValuesOf(at(cell), h.sites)]]
ReadPriorPredictive(file) == ReadStream(file, <<"draw">>)

SourceFields == <<"source_chain", "source_draw">>
SourceSeeds(file) ==
  {Get(Head(Documents(file)), "source_fit_seed"), Get(Trailer(file), "source_fit_seed")} \ {Null}
PosteriorPredictiveIsReadable(file) ==
  /\ StreamIsReadable(file, "posterior_predictive_format", SourceFields)
  /\ AnnouncedCounts(file, {"draw_count"})
  /\ Other \notin SourceSeeds(file)
  /\ Cardinality(SourceSeeds(file)) <= 1
ReadPosteriorPredictive(file) ==
  ReadStream(file, SourceFields) @@ [source_fit_seeds |-> SourceSeeds(file)]
=============================================================================
