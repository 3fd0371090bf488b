------------------------------ MODULE ModelBodies ------------------------------
(* Notation for class bodies, used by the modules that check models.         *)
EXTENDS ModelDeclarations

Num(k) == Number("int", k)
Dist(class, args) == [node |-> class, args |-> args]
Normal(loc) == Dist("Normal", <<loc, Num(1)>>)
BinOp(op, l, r) == [node |-> "BinOp", op |-> op, left |-> l, right |-> r]
Index(b, i) == [node |-> "IndexOp", base |-> b, index |-> i]
Positive == [node |-> "Positive"]
Unit == [node |-> "UnitInterval"]
Ordered == [node |-> "Ordered"]
Interval(low, high) == [node |-> "Interval", lower |-> Num(low), upper |-> Num(high)]
Truncated(base, low, high) == [node |-> "Truncated", base |-> base, lower |-> low, upper |-> high]
Dim(label, coords) == [label |-> label, coords |-> coords]
Dims(items) == [node |-> "Dims", items |-> items]
Coords(k) == <<[i \in 1..k |-> [type |-> "int", number |-> i]]>>

Line(n, object) == [name |-> n, object |-> object]
Sized(n, d, c, size, dims) ==
  Line(n, [decl |-> "Param", distribution |-> d, constraint |-> c, size |-> size, dims |-> dims])
Param(n, d) == Sized(n, d, Nothing, Nothing, Nothing)
Data(n, shape, dims) ==
  Line(n, [decl |-> "Data", schema |-> [node |-> "Shape", dims |-> shape], dims |-> dims])
Observed(n, d) == Line(n, [decl |-> "Observed", distribution |-> d, dims |-> Nothing])
ObservedOver(n, d, dims) == Line(n, [decl |-> "Observed", distribution |-> d, dims |-> dims])
Sub(n) == Line(n, [decl |-> "Submodel", target |-> Nothing])
Expr(n, v) == Line(n, [decl |-> "Expression", value |-> v])
Alias(n, of) == Line(n, [decl |-> "Alias", of |-> of])
Partial(n, d, length, low) ==
  Line(n, [decl |-> "PartiallyObserved", distribution |-> d, length |-> length,
           observed |-> Name("v"), observed_idx |-> Name("o"), missing_idx |-> Name("m"),
           missing_lower |-> low, missing_upper |-> Nothing])
=============================================================================
