--------------------------- MODULE MCModelLanguage ---------------------------
(* Class bodies for checking ModelLanguage: a target with its priors, plain  *)
(* and hierarchical, sized and labelled data, derived expressions, partial   *)
(* observation, custom distributions, submodels, and bodies the decorator or *)
(* with_prior refuse.                                                        *)
EXTENDS ModelLanguage, ModelBodies

mu(loc) == Param("mu", Normal(Num(loc)))
y(loc) == Observed("y", Normal(loc))
g == <<"g">>

Target == <<mu(0), y(Name("mu"))>>
Prior == <<mu(5)>>
Hierarchical == <<Param("tau", Normal(Num(1))), Param("mu", Normal(Name("tau")))>>
Reordered == <<Param("tau", Normal(Num(2))), Param("mu", Normal(Num(1))),
               Expr("d", BinOp("*", Name("mu"), Name("tau")))>>
Regression == <<Data("d", <<>>, Nothing), mu(0), Expr("e", BinOp("+", Name("mu"), Name("d"))), y(Name("e"))>>

Priors == {Target, Prior, Hierarchical, Reordered}
Expressions == {Regression, Prior,
                <<Data("d", <<>>, Nothing), Param("mu", Normal(Name("d"))), Expr("f", BinOp("*", Name("mu"), Name("mu")))>>,
                <<Param("d", Normal(Num(0))), Param("mu", Normal(Name("d")))>>,
                <<mu(1), Expr("d", BinOp("*", Name("mu"), Num(2)))>>}
Supports == {
  <<Sized("mu", Truncated(Normal(Num(0)), Num(0), Nothing), Positive, Nothing, Nothing), y(Name("mu"))>>,
  <<Sized("mu", Dist("HalfNormal", <<Num(1)>>), Positive, Nothing, Nothing)>>,
  <<Sized("mu", Dist("Uniform", <<Num(0), Num(1)>>), Unit, Nothing, Nothing)>>,
  <<Sized("mu", Truncated(Normal(Num(0)), Num(-1), Num(2)), Interval(-1, 2), Nothing, Nothing), y(Name("mu"))>>}
Custom == {
  <<mu(0), Observed("y", Dist("Skew", <<Name("mu")>>))>>,
  <<Param("mu", Dist("Skew", <<Num(0)>>))>>,
  <<Param("mu", Dist("Incrementing", <<Num(0)>>))>>,
  <<Param("mu", Dist("Foreign", <<Num(0)>>))>>,
  <<Sub("a"), y(Attr("a", <<"mu">>))>>}
SizedBodies == {
  <<Data("n", <<>>, Nothing), Sized("x", Normal(Num(0)), Nothing, Name("n"), Nothing),
    Data("i", <<Num(2)>>, Nothing), y(Index(Name("x"), Name("i")))>>,
  <<Data("n", <<>>, Nothing), Sized("x", Normal(Num(1)), Nothing, Name("n"), Nothing)>>,
  <<Sub("a"), Sized("z", Normal(Num(0)), Nothing, Attr("a", <<"n">>), Nothing)>>,
  <<Sub("a"), Sub("b")>>}
Labelled == {
  <<Sized("x", Normal(Num(0)), Nothing, Num(2), Dims(<<Dim("g", Coords(2))>>)),
    ObservedOver("y", Normal(Name("x")), Dims(<<Dim("g", <<>>)>>))>>,
  <<Sized("x", Normal(Num(1)), Nothing, Num(2), Dims(<<Dim("g", Coords(2))>>))>>,
  <<mu(0), ObservedOver("y", Normal(Name("mu")), Dims(<<Dim("g", <<>>)>>))>>,
  <<Sized("z", Normal(Num(0)), Nothing, Num(2), Dims(<<Dim("g", Coords(2))>>)), mu(5)>>,
  <<Sub("a"), y(Num(0))>>}
Partially == {
  <<Data("k", <<>>, Nothing), Data("v", <<Num(1)>>, Nothing), Data("o", <<Num(1)>>, Nothing),
    Data("m", <<Name("k")>>, Nothing), Data("l", <<Name("k")>>, Nothing), mu(0),
    Partial("p", Normal(Name("mu")), Num(3), Name("l"))>>,
  <<Sub("a"), Expr("e", Attr("a", <<"p">>)), y(Name("e"))>>,
  Prior,
  <<Data("k", <<>>, Nothing), Param("mu", Normal(Name("k")))>>}
NestedBodies == {Target, Prior, <<Sub("a"), y(Attr("a", <<"mu">>))>>, <<Sub("a"), Sub("b")>>,
                 <<Sub("a"), Param("mu", Normal(Attr("a", <<"b", "mu">>)))>>}

\* Bodies that raise, each beside one that is accepted.
Refused == {
  Prior,
  <<mu(0), Param("tau", Normal(Name("mu"))), mu(1)>>,        \* the first mu has no name left
  <<mu(0), Alias("nu", "mu")>>,
  <<Sized("mu", Normal(Num(0)), Positive, Nothing, Nothing)>>,
  <<Param("mu", Dist("Poisson", <<Num(1)>>))>>,
  <<mu(0), y(Index(Name("mu"), [node |-> "Slice", number |-> 1]))>>,
  <<Data("n", <<>>, Nothing)>>,
  <<Sized("x", Normal(Num(0)), Nothing, Num(3), Dims(<<Dim("g", Coords(2))>>))>>,
  <<Param("x", Dist("Normal", <<Number("array", 0), Num(1)>>))>>}

Project(bodies, classes, n) == [bodies |-> bodies, classes |-> classes, maxModels |-> n]
MCProjects ==
  {Project(b, {}, 4) : b \in {Expressions, Supports, SizedBodies, Labelled, Partially, NestedBodies, Refused}}
  \cup {Project(Priors, {}, 5), Project(Custom, {"Skew", "Incrementing"}, 4)}
=============================================================================
