--------------------------- MODULE MCModelExecution ---------------------------
(* Model classes and data for checking ModelExecution: indexes of every form *)
(* over arrays of up to three axes, partial observation with and without     *)
(* bounds, counts, covariance factors, sizes and labels, and a composed      *)
(* model.  For each name there are data that bind and data that do not.      *)
EXTENDS ModelExecution, ModelComposition, ModelBodies

\* Data: scalars, vectors, and arrays that number their own elements.
I(k) == Scalar("int", k)
F(k) == Scalar("float", k)
V(xs) == Array(<<Len(xs)>>, "int", LAMBDA i : xs[i[1] + 1])
VF(kind, xs) == [V(xs) EXCEPT !.kind = kind]
Flat(i, shape) == FoldLeft(LAMBDA acc, k : acc * shape[k] + i[k], 0, [k \in DOMAIN shape |-> k])
Numbered(shape) == Array(shape, "float", LAMBDA i : Flat(i, shape))
Matrix(rows) == Array(<<Len(rows), Len(rows[1])>>, "float", LAMBDA i : rows[i[1] + 1][i[2] + 1])
Ys == {Numbered(<<>>), Numbered(<<2>>), Numbered(<<3>>)}

\* Every way to give each name of the metadata one of its values.
Supplied(values) ==
  FoldSet(LAMBDA n, acc : {(<<n>> :> x) @@ d : x \in values[n], d \in acc}, {<<>>}, DOMAIN values)
Class(lines) == LET body == RunBody(lines, Nothing)
                IN  [meta |-> Decorated(body), dimensions |-> ResolvedDimensions(Attributes(body))]
Use(lines, values) == Class(lines) @@ [data |-> Supplied(values)]

Slice == [node |-> "Slice", number |-> 0]
Tuple(items) == [node |-> "Tuple", items |-> items]
Un(function, x) == [node |-> "UnaryOp", function |-> function, operand |-> x]
MatVec(m, x) == [node |-> "MatVecOp", matrix |-> m, vector |-> x]
Obs(d) == Observed("y", d)
NormalOf(e) == Dist("Normal", <<e, Num(1)>>)
Ranked(n, r) == Line(n, [decl |-> "Data", schema |-> [node |-> "Rank", rank |-> r], dims |-> Nothing])
Scalars(n) == Data(n, <<>>, Nothing)

\* alpha[g[i]], with one level of indirection.
Grouped == Use(<<Scalars("n"), Sized("a", NormalOf(Num(0)), Nothing, Name("n"), Nothing),
                 Ranked("g", 1), Ranked("h", 1), Obs(NormalOf(Index(Name("a"), Index(Name("g"), Name("h")))))>>,
               [n |-> {I(2), I(0), F(2), I(-1)}, g |-> {V(<<1, 0>>), V(<<1, 2>>), VF("float", <<0, 1>>)},
                h |-> {V(<<0, 1, 1>>), V(<<0, -1, 1>>), V(<<1, 1>>)}, y |-> Ys])

\* Every tuple of a scalar, a vector and slices over an array with three axes.
IndexForms == {t \in [1..3 -> {Name("s"), Name("v"), Slice}] :
                 Cardinality({k \in 1..3 : t[k] = Name("v")}) = 1}
Tuples == {Use(<<Ranked("x", 3), Scalars("s"), Ranked("v", 1), Param("b", NormalOf(Num(0))),
                 Obs(NormalOf(BinOp("*", Name("b"), Index(Name("x"), Tuple(t)))))>>,
               [x |-> {Numbered(<<2, 3, 4>>)}, s |-> {I(1)}, v |-> {V(<<1, 0>>), V(<<1, 3>>)},
                y |-> {Numbered(s) : s \in {<<2>>, <<3, 2>>, <<2, 3>>, <<2, 4>>, <<4, 2>>, <<2, 2>>,
                                            <<2, 3, 4>>, <<2, 2, 4>>, <<2, 3, 2>>}}]) : t \in IndexForms}

Regression == Use(<<Ranked("x", 2), Sized("b", NormalOf(Num(0)), Nothing, Num(2), Nothing),
                    Sized("c", Dist("HalfNormal", <<Num(1)>>), Positive, Nothing, Nothing),
                    Obs(Dist("Normal", <<MatVec(Name("x"), Name("b")), Name("c")>>))>>,
                  [x |-> {Numbered(<<3, 2>>), Numbered(<<1, 2>>), Numbered(<<2, 3>>), VF("infinite", <<1, 2>>)},
                   y |-> Ys \cup {Numbered(<<1>>)}])

\* Partial observation: with bounds and a support for each position, and free.
PartialOf(d, lower, upper) ==
  Line("p", [decl |-> "PartiallyObserved", distribution |-> d, length |-> Name("n"),
             observed |-> Name("v"), observed_idx |-> Name("o"), missing_idx |-> Name("m"),
             missing_lower |-> lower, missing_upper |-> upper])
PartialLines(d, lower, upper) ==
  <<Scalars("n"), Scalars("k"), Scalars("j"), Data("v", <<Name("j")>>, Nothing),
    Data("o", <<Name("j")>>, Nothing), Data("m", <<Name("k")>>, Nothing),
    Data("l", <<Name("k")>>, Nothing), Data("u", <<Name("k")>>, Nothing), Ranked("w", 1),
    PartialOf(d, lower, upper), Obs(NormalOf(Name("p")))>>
PartialValues == [n |-> {I(3)}, k |-> {I(2)}, j |-> {I(1)}, v |-> {V(<<7>>)},
                  o |-> {V(<<1>>), V(<<0>>)}, m |-> {V(<<2, 0>>), V(<<0, 2>>), V(<<0, 0>>), V(<<1, 3>>)},
                  l |-> {V(<<0, 2>>), V(<<2, 0>>), V(<<-1, 2>>)}, u |-> {V(<<3, 1>>), V(<<4, 4>>)},
                  w |-> {V(<<1, 0, 2>>), V(<<0>>)}, y |-> {Numbered(<<3>>), Numbered(<<1>>)}]
Partials == {Use(PartialLines(d, bounds[1], bounds[2]), PartialValues) :
               d \in {Dist("Uniform", <<Name("w"), Num(4)>>), Dist("HalfNormal", <<Num(1)>>),
                      Dist("Exponential", <<Num(1)>>), NormalOf(Num(0))},
               bounds \in {<<Name("l"), Nothing>>, <<Nothing, Name("u")>>, <<Name("l"), Name("u")>>}}
            \cup {Use(PartialLines(NormalOf(Name("w")), Nothing, Nothing), PartialValues)}

\* Counts and categories.
Counts == {
  Use(<<Ranked("t", 1), Sized("r", Dist("Uniform", <<Num(0), Num(1)>>), Unit, Nothing, Nothing),
        Obs(Dist("Binomial", <<Name("t"), Name("r")>>))>>,
      [t |-> {V(<<1, 2>>), V(<<0>>), V(<<-1, 2>>)}, y |-> {V(<<1, 2>>), V(<<2, 1>>), VF("fraction", <<1, 1>>), V(<<0>>)}]),
  Use(<<Ranked("c", 1), Param("b", NormalOf(Num(0))), Obs(Dist("OrderedLogistic", <<Name("b"), Name("c")>>))>>,
      [c |-> {VF("float", <<0, 1>>), V(<<3>>)}, y |-> {I(2), I(3), I(-1), V(<<0, 1>>)}]),
  Use(<<Sized("b", Dist("Exponential", <<Num(1)>>), Positive, Num(2), Nothing),
        Obs(Dist("Poisson", <<Un("exp", Name("b"))>>))>>, [y |-> {V(<<0, 4>>), V(<<0, -1>>), I(1)}]),
  Use(<<Ranked("t", 1), Sized("a", Dist("Exponential", <<Num(1)>>), Positive, Nothing, Nothing),
        Param("b", NormalOf(Num(0))), Obs(Dist("BetaBinomial", <<Name("t"), Name("a"), Un("exp", Name("b"))>>))>>,
      [t |-> {V(<<1, 2>>), V(<<2, -1>>)}, y |-> {V(<<1, 0>>), V(<<2, 2>>)}])}

\* Outcomes whose scale or rate is drawn without a constraint, of either sign.
Wandering ==
  {Use(<<Sized("b", NormalOf(Num(0)), Nothing, Num(2), Nothing), Param("c", NormalOf(Num(0))), Obs(d)>>,
       [y |-> {V(<<0, 2>>), V(<<-1, 1>>), I(0)}]) :
     d \in {Dist("Poisson", <<Name("b")>>), Dist("NegativeBinomial", <<Name("b"), Name("c")>>),
            Dist("Binomial", <<Num(2), Un("exp", Name("b"))>>), Dist("Exponential", <<Name("b")>>),
            Truncated(Dist("Normal", <<Num(0), Name("b")>>), Num(-1), Num(1)),
            Dist("Uniform", <<Name("c"), Name("b")>>), Dist("StudentT", <<Name("c"), Num(0), Num(1)>>)}}

\* Cutpoints in ascending order, with a prior for all of them or one for each.
Cutpoints ==
  {Use(<<Scalars("n"), Ranked("m", rank), Param("b", NormalOf(Num(0))),
         Sized("c", NormalOf(Name("m")), Ordered, Name("n"), Nothing),
         Obs(Dist("OrderedLogistic", <<Name("b"), Name("c")>>))>>,
       [n |-> {I(1), I(2)}, m |-> {I(0), V(<<0, 1>>)}, y |-> {I(0), I(2), I(3), V(<<0, 1>>)}]) : rank \in 0..1}

\* A covariance factor from data, scaled by an expression of parameters.
Factor(scale) ==
  Use(<<Ranked("c", 2), Sized("s", Dist("HalfNormal", <<Num(1)>>), Positive, Nothing, Nothing),
        Sized("f", Truncated(NormalOf(Num(0)), Num(-1), Num(1)), Interval(-1, 1), Nothing, Nothing),
        Sized("z", Dist("MultivariateNormal", <<Num(0), scale>>), Nothing, Num(2), Nothing),
        Obs(NormalOf(Name("z")))>>,
      [c |-> {Matrix(<< <<1, 0>>, <<2, 3>> >>), Matrix(<< <<1, 2>>, <<0, 3>> >>),
              Matrix(<< <<1, 0>>, <<1, -1>> >>)}, y |-> {Numbered(<<2>>), Numbered(<<>>)}])
Scales == {Name("c"), BinOp("*", Name("c"), Name("s")), BinOp("*", Name("c"), Name("f")),
           BinOp("/", Name("c"), Un("exp", Name("f"))), BinOp("-", Name("c"), Name("s")),
           BinOp("*", BinOp("*", Num(2), Name("s")), Name("c"))}

\* Labels on axes whose size only the data decide.
Labels == Use(<<Scalars("n"), Sized("x", NormalOf(Num(0)), Nothing, Name("n"), Dims(<<Dim("g", Coords(2))>>)),
                ObservedOver("y", NormalOf(Name("x")), Dims(<<Dim("g", <<>>)>>))>>,
              [n |-> {I(2), I(3), I(1)}, y |-> Ys])

\* A model that takes its prior from another one.
Composition ==
  LET target == Class(<<Scalars("n"), Sized("x", NormalOf(Num(0)), Nothing, Name("n"), Nothing),
                        Ranked("i", 1), Obs(NormalOf(Index(Name("x"), Name("i"))))>>)
      source == Class(<<Scalars("n"), Param("t", NormalOf(Num(0))),
                        Sized("x", NormalOf(Name("t")), Nothing, Name("n"), Nothing)>>)
  IN  Composed(source, target) @@ [data |-> Supplied(
        [n |-> {I(2), I(3)}, i |-> {V(<<0, 1>>), V(<<2>>), V(<<1, 1>>)}, y |-> Ys \cup {Numbered(<<1>>)}])]

MCUses == {Grouped, Regression, Labels, Composition} \cup Tuples \cup Partials \cup Counts
          \cup Wandering \cup Cutpoints
          \cup {Factor(s) : s \in Scales}
=============================================================================
