------------------------------ MODULE ModelArrays ------------------------------
(* The arrays of JAX as bayesjax uses them: a shape, a kind and a number at *)
(* every index.  Numbers are integers; one that is none (a quotient, exp,   *)
(* sigmoid) is represented by a number of its sign, and the kind remembers  *)
(* it.  An operation that may raise returns a set: its result, or nothing.  *)
EXTENDS ModelIR

Kinds == <<"int", "float", "fraction", "infinite">>  \* int is the only integer dtype

Indices(shape) == {i \in [DOMAIN shape -> 0..Max({0} \cup ToSet(shape))] :
                     \A k \in DOMAIN shape : i[k] < shape[k]}
Array(shape, kind, At(_)) == [shape |-> shape, kind |-> kind, at |-> [i \in Indices(shape) |-> At(i)]]
Scalar(kind, k) == Array(<<>>, kind, LAMBDA i : k)
Item(x) == x.at[<<>>]                       \* int(x) of a scalar
Elements(x) == {x.at[i] : i \in DOMAIN x.at}
IsInteger(x) == x.kind = "int"
Promoted(k, l) == LET at(kind) == SelectInSeq(Kinds, LAMBDA x : x = kind)
                  IN  Kinds[Max({at(k), at(l)})]

\* jnp.broadcast_shapes: axes are matched from the last one, and 1 matches all.
Axis(shape, k) == IF k < Len(shape) THEN shape[Len(shape) - k] ELSE 1  \* k from the end
BroadcastShapes(s, t) ==
  LET rank == Max({Len(s), Len(t)})
  IN  IF \A k \in 0..(rank - 1) : Axis(s, k) = Axis(t, k) \/ 1 \in {Axis(s, k), Axis(t, k)}
      THEN {[a \in 1..rank |-> LET k == rank - a
                               IN  IF Axis(s, k) = 1 THEN Axis(t, k) ELSE Axis(s, k)]}
      ELSE {}
Broadcast(x, shape) ==
  Array(shape, x.kind, LAMBDA i :
    x.at[[a \in DOMAIN x.shape |-> IF x.shape[a] = 1 THEN 0
                                   ELSE i[Len(shape) - Len(x.shape) + a]]])

Sign(k) == CASE k > 0 -> 1 [] k < 0 -> -1 [] OTHER -> 0
Quotient(a, b) == IF b # 0 /\ \E q \in -Max({a, -a})..Max({a, -a}) : q * b = a
                  THEN CHOOSE q \in -Max({a, -a})..Max({a, -a}) : q * b = a
                  ELSE Sign(a) * Sign(b)
Arithmetic(op, x, y) ==
  LET F(a, b) == CASE op = "+" -> a + b [] op = "-" -> a - b
                   [] op = "*" -> a * b [] op = "/" -> Quotient(a, b)
      exact == \A a \in Elements(x), b \in Elements(y) : b # 0 /\ Quotient(a, b) * b = a
      kind == CASE op # "/" -> Promoted(x.kind, y.kind)
                [] op = "/" /\ 0 \in Elements(y) -> "infinite"
                [] OTHER -> Promoted(Promoted(x.kind, y.kind), IF exact THEN "float" ELSE "fraction")
  IN  {Array(s, kind, LAMBDA i : F(Broadcast(x, s).at[i], Broadcast(y, s).at[i])) :
         s \in BroadcastShapes(x.shape, y.shape)}
Unary(function, x) ==
  IF function = "neg" THEN Array(x.shape, x.kind, LAMBDA i : -x.at[i])
  ELSE Array(x.shape, Promoted(x.kind, "fraction"), LAMBDA i :  \* exp exceeds 1 above 0
         IF function = "exp" /\ x.at[i] > 0 THEN 2 ELSE 1)

\* Everywhere, for arrays that broadcast against each other.
Everywhere(Test(_, _), x, y) ==
  \E s \in BroadcastShapes(x.shape, y.shape) :
    \A i \in Indices(s) : Test(Broadcast(x, s).at[i], Broadcast(y, s).at[i])

MatMul(m, v) ==
  Array(<<m.shape[1]>>, Promoted(m.kind, v.kind), LAMBDA i :
    FoldFunctionOnSet(LAMBDA a, b : a + b, 0,
                      [k \in 0..(v.shape[1] - 1) |-> m.at[<<i[1], k>>] * v.at[<<k>>]],
                      0..(v.shape[1] - 1)))

\* x[items], one item an axis: an index array, or FullSlice.  The arrays are
\* broadcast together; their axes take the place of the first of them when they
\* stand side by side and come first when a slice separates them.  An index
\* outside the axis counts from its end when negative, then stops at its edge.
Clamped(k, size) == LET j == IF k < 0 THEN k + size ELSE k
                    IN  Max({0, IF j < size THEN j ELSE size - 1})
Gather(x, items) ==
  LET arrays == {a \in DOMAIN items : items[a] # FullSlice}
      apart == \E a, b \in arrays : \E k \in (a + 1)..(b - 1) : k \notin arrays
      joint == IF arrays = {} THEN {<<>>}
               ELSE FoldSet(LAMBDA a, acc : UNION {BroadcastShapes(s, items[a].shape) : s \in acc},
                            {<<>>}, arrays)
      before == IF apart \/ arrays = {} THEN 0 ELSE Min(arrays) - 1
      kept == SetToSortSeq(DOMAIN x.shape \ arrays, <)
  IN  {LET rest == [k \in DOMAIN kept |-> x.shape[kept[k]]]
           out == SubSeq(rest, 1, before) \o j \o SubSeq(rest, before + 1, Len(rest))
       IN  Array(out, x.kind, LAMBDA i :
             LET at == SubSeq(i, before + 1, before + Len(j))
                 others == SubSeq(i, 1, before) \o SubSeq(i, before + Len(j) + 1, Len(i))
             IN  x.at[[a \in DOMAIN x.shape |->
                   IF a \in arrays THEN Clamped(Broadcast(items[a], j).at[at], x.shape[a])
                   ELSE others[SelectInSeq(kept, LAMBDA k : k = a)]]]) : j \in joint}

\* x.at[idx].set(values) of a vector: an index past its end is dropped, and of
\* equal indexes one wins, here the last.
Scatter(x, idx, values) ==
  Array(x.shape, Promoted(x.kind, values.kind), LAMBDA i :
    LET hits == {k \in DOMAIN idx.at : idx.at[k] = i[1] \/ idx.at[k] + x.shape[1] = i[1]}
    IN  IF hits = {} THEN x.at[i]
        ELSE Broadcast(values, idx.shape).at[CHOOSE k \in hits : \A l \in hits : l[1] <= k[1]])
Zeros(shape) == Array(shape, "int", LAMBDA i : 0)
=============================================================================
