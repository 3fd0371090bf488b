--------------------------- MODULE DataDocuments ---------------------------
(* The data of a model as a JSON document: its canonical form and the older  *)
(* ones a command still accepts (canonical_data.py), what the in-process     *)
(* backend binds of it, what the plots read of it (bayesite_idata/           *)
(* data_json.py), and the labels of its axes (dimensions.py, dims_json.py).  *)
(*                                                                           *)
(* A JSON value says its type.  A number has a magnitude, NotFinite for a    *)
(* float that is not finite.  An object is the sequence of its fields, each  *)
(* a name and a value, in the order of the text.                             *)
EXTENDS Integers, Sequences, FiniteSets, SequencesExt, FiniteSetsExt

CONSTANTS NotFinite,
          Int32Max, Int64Max, FloatMax \* the bounds of the numbers, scaled down

Bool(n) == [type |-> "bool", n |-> n] \* 0 or 1
Int32(n) == -Int32Max - 1 <= n /\ n <= Int32Max
Int64(n) == -Int64Max - 1 <= n /\ n <= Int64Max
Whole(n) == [type |-> "int", n |-> n]
Real(n) == [type |-> "float", n |-> n]
Text(s) == [type |-> "string", text |-> s]
JsonNull == [type |-> "null"]
JsonArray(items) == [type |-> "array", items |-> items]
Object(fields) == [type |-> "object", fields |-> fields]
Field(name, value) == [name |-> name, value |-> value]
Keys(o) == {o.fields[k].name : k \in DOMAIN o.fields}
At(o, name) == (CHOOSE f \in Range(o.fields) : f.name = name).value
Volume(shape) == FoldLeft(LAMBDA acc, n : acc * n, 1, shape)

IsFormat(v) == v.type = "string" /\ v.text = "bayescycle.data.json.v1"
SupportedDtypes == {"bool", "int32", "int64", "float32", "float64"}
LegacyIntegers == {"int8", "int16", "uint8", "uint16", "uint32", "uint64"}
IsFinite(v) == v.n # NotFinite /\ -FloatMax <= v.n /\ v.n <= FloatMax

----------------------------------------------------------------------------
\* Reading the document of a command.

FitsDtype(v, dtype) ==
  CASE dtype = "bool" -> v.type = "bool"
    [] dtype = "int32" -> v.type = "int" /\ Int32(v.n)
    [] dtype = "int64" -> v.type = "int" /\ Int64(v.n)
    [] OTHER -> v.type \in {"int", "float"} /\ IsFinite(v)
Typed(v, dtype) == IF dtype \in {"float32", "float64"} THEN Real(v.n) ELSE v

IsShapeArray(v) ==
  v.type = "array" /\ \A k \in DOMAIN v.items : v.items[k].type = "int" /\ v.items[k].n >= 0
ShapeArray(v) == [k \in DOMAIN v.items |-> v.items[k].n]

TypedFields == {"dtype", "shape", "values"}
CanonicalDtype(dtype) == IF dtype \in LegacyIntegers THEN "int64" ELSE dtype
Items(v) == IF v.type = "array" THEN v.items ELSE <<v>>

\* A typed array; the older form also takes other integers, and a scalar bare.
\* Mutant: the values are not counted.
IsTypedOfAnyLength(v, dtypes) ==
  /\ v.type = "object" /\ Keys(v) = TypedFields
  /\ At(v, "dtype").type = "string" /\ At(v, "dtype").text \in dtypes
  /\ IsShapeArray(At(v, "shape"))
  /\ \A k \in DOMAIN Items(At(v, "values")) :
       FitsDtype(Items(At(v, "values"))[k], CanonicalDtype(At(v, "dtype").text))
IsTypedArray(v, dtypes) ==
  /\ v.type = "object" /\ Keys(v) = TypedFields
  /\ At(v, "dtype").type = "string" /\ At(v, "dtype").text \in dtypes
  /\ IsShapeArray(At(v, "shape"))
  /\ \A k \in DOMAIN Items(At(v, "values")) :
       FitsDtype(Items(At(v, "values"))[k], CanonicalDtype(At(v, "dtype").text))
  /\ Len(Items(At(v, "values"))) = Volume(ShapeArray(At(v, "shape")))
IsCanonicalVariable(v) == IsTypedArray(v, SupportedDtypes) /\ At(v, "values").type = "array"
TypedArray(v) ==
  LET dtype == CanonicalDtype(At(v, "dtype").text)
      items == Items(At(v, "values"))
  IN  [dtype |-> dtype, shape |-> ShapeArray(At(v, "shape")),
       values |-> [k \in DOMAIN items |-> Typed(items[k], dtype)]]

\* Nested lists have the lengths of the first row of each depth, and down there
\* their values.
LegacyShape(v) ==
  LET first[depth \in Nat] == IF depth = 0 THEN v ELSE first[depth - 1].items[1]
      lengths[depth \in Nat] ==
        IF first[depth].type # "array" THEN <<>>
        ELSE IF first[depth].items = <<>> THEN <<0>>
        ELSE <<Len(first[depth].items)>> \o lengths[depth + 1]
  IN  lengths[0]
Unnested(rows) == FlattenSeq([k \in DOMAIN rows |-> rows[k].items])
RowsByDepth(v) ==
  LET rows[depth \in 0..Len(LegacyShape(v))] == IF depth = 0 THEN <<v>> ELSE Unnested(rows[depth - 1])
  IN  rows
LegacyValues(v) == RowsByDepth(v)[Len(LegacyShape(v))]

IsScalar(v) == v.type \in {"bool", "int"} \/ (v.type = "float" /\ v.n # NotFinite)
\* Mutant: rows of any length.
IsRagged(v) ==
  /\ \A depth \in 1..Len(LegacyShape(v)) : \A row \in Range(RowsByDepth(v)[depth - 1]) : row.type = "array"
  /\ \A x \in Range(LegacyValues(v)) : IsScalar(x)
IsRectangular(v) ==
  /\ \A depth \in 1..Len(LegacyShape(v)) : \A row \in Range(RowsByDepth(v)[depth - 1]) :
       row.type = "array" /\ Len(row.items) = LegacyShape(v)[depth]
  /\ \A x \in Range(LegacyValues(v)) : IsScalar(x)

Types(values) == {values[k].type : k \in DOMAIN values}
InferredDtype(values) ==
  CASE values = <<>> -> "float64"
    [] Types(values) = {"bool"} -> "bool"
    [] Types(values) = {"int"} -> "int64"
    [] OTHER -> "float64"
IsLegacyArray(v) ==
  /\ IsRectangular(v)
  /\ "bool" \in Types(LegacyValues(v)) => Types(LegacyValues(v)) = {"bool"}
  /\ \A x \in Range(LegacyValues(v)) : FitsDtype(x, InferredDtype(LegacyValues(v)))
LegacyArray(v) ==
  LET values == LegacyValues(v)
  IN  [dtype |-> InferredDtype(values), shape |-> LegacyShape(v),
       values |-> [k \in DOMAIN values |-> Typed(values[k], InferredDtype(values))]]

IsTypedLegacy(v) == v.type = "object" /\ TypedFields \subseteq Keys(v)
IsLegacyVariable(v) ==
  IF IsTypedLegacy(v) THEN IsTypedArray(v, SupportedDtypes \cup LegacyIntegers) ELSE IsLegacyArray(v)
LegacyVariable(v) == IF IsTypedLegacy(v) THEN TypedArray(v) ELSE LegacyArray(v)

IsCanonical(doc) == "format" \in Keys(doc) /\ IsFormat(At(doc, "format"))

\* The document is one that a command can read.
IsDataDoc(doc) ==
  /\ doc.type = "object"
  /\ IF IsCanonical(doc)
     THEN /\ Keys(doc) = {"format", "variables"}
          /\ At(doc, "variables").type = "object"
          /\ \A f \in Range(At(doc, "variables").fields) : IsCanonicalVariable(f.value)
     ELSE \A f \in Range(doc.fields) : IsLegacyVariable(f.value)

\* The variables of the document, in its order.
DataDoc(doc) ==
  IF IsCanonical(doc)
  THEN LET fields == At(doc, "variables").fields
       IN  [k \in DOMAIN fields |-> Field(fields[k].name, TypedArray(fields[k].value))]
  ELSE [k \in DOMAIN doc.fields |-> Field(doc.fields[k].name, LegacyVariable(doc.fields[k].value))]

VariableJson(x) ==
  Object(<<Field("dtype", Text(x.dtype)),
           Field("shape", JsonArray([k \in DOMAIN x.shape |-> Whole(x.shape[k])])),
           Field("values", JsonArray(x.values))>>)
WrittenDataDoc(variables) ==
  Object(<<Field("format", Text("bayescycle.data.json.v1")),
           Field("variables", Object([k \in DOMAIN variables |->
                                        Field(variables[k].name, VariableJson(variables[k].value))]))>>)

----------------------------------------------------------------------------
\* The readers of a written document.

\* Nested lists in row-major order, as the in-process backend is given them,
\* and the array it makes of them.
PlainJson(values, shape) ==
  LET rows[depth \in 0..Len(shape)] ==
        IF depth = Len(shape) THEN values
        ELSE [k \in 1..Volume(SubSeq(shape, 1, depth)) |->
                JsonArray(SubSeq(rows[depth + 1], (k - 1) * shape[depth + 1] + 1, k * shape[depth + 1]))]
  IN  rows[0][1]
BoundArray(x) == [shape |-> LegacyShape(PlainJson(x.values, x.shape)),
                  values |-> LegacyValues(PlainJson(x.values, x.shape))]

Unsigned == {"uint8", "uint16", "uint32", "uint64"}
Signed == {"int8", "int16", "int32", "int64"}
IsReadValue(v, dtype) ==
  CASE dtype = "bool" -> v.type = "bool"
    [] dtype \in Signed -> v.type = "int"
    [] dtype \in Unsigned -> v.type = "int" /\ v.n >= 0
    [] OTHER -> v.type \in {"int", "float"}

IsReadArray(v) ==
  /\ v.type = "object" /\ {"shape", "values"} \subseteq Keys(v)
  /\ IsShapeArray(At(v, "shape")) /\ At(v, "values").type = "array"
  /\ "dtype" \in Keys(v) =>
       /\ At(v, "dtype").type = "string"
       /\ At(v, "dtype").text \in {"bool", "float32", "float64"} \cup Signed \cup Unsigned
       /\ \A k \in DOMAIN At(v, "values").items :
            IsReadValue(At(v, "values").items[k], At(v, "dtype").text)
  /\ Len(At(v, "values").items) = Volume(ShapeArray(At(v, "shape")))
IsReadVariable(v) == IsReadArray(v) \/ v.type \in {"bool", "int", "float"} \/ (v.type = "array" /\ IsRectangular(v))

ReadFields(doc) == IF "format" \in Keys(doc) THEN At(doc, "variables").fields ELSE doc.fields
CanReadArrays(doc) ==
  /\ doc.type = "object"
  /\ "format" \in Keys(doc) => /\ IsFormat(At(doc, "format"))
                               /\ "variables" \in Keys(doc) /\ At(doc, "variables").type = "object"
  /\ \A f \in Range(ReadFields(doc)) : IsReadVariable(f.value)
ReadArray(v) ==
  IF v.type = "object" THEN [shape |-> ShapeArray(At(v, "shape")), values |-> At(v, "values").items]
  ELSE [shape |-> LegacyShape(v), values |-> LegacyValues(v)]
ReadDataArrays(doc) ==
  [n \in {f.name : f \in Range(ReadFields(doc))} |->
     ReadArray((CHOOSE f \in Range(ReadFields(doc)) : f.name = n).value)]

----------------------------------------------------------------------------
\* The labels of the axes: dims is a function from a variable to its labels,
\* coords one from a label to the values of the axis.

JsonScalars(values) == \A k \in DOMAIN values :
  \/ values[k].type \in {"null", "bool", "int", "string"}
  \/ values[k].type = "float" /\ values[k].n # NotFinite

\* What a model declares can be written beside its run.
SidecarIsValid(sidecar, ranks) ==
  /\ \A d \in DOMAIN sidecar.coords : JsonScalars(sidecar.coords[d])
  /\ \A v \in DOMAIN sidecar.dims \cap DOMAIN ranks : Len(sidecar.dims[v]) = ranks[v]
SidecarIsEmpty(sidecar) == sidecar.dims = <<>> /\ sidecar.coords = <<>>

\* What the plots read of it.
ReservedDims == {"chain", "draw"}
IsReadSidecar(sidecar) ==
  /\ \A v \in DOMAIN sidecar.dims :
       IsInjective(sidecar.dims[v]) /\ Range(sidecar.dims[v]) \cap ReservedDims = {}
  /\ DOMAIN sidecar.coords \cap ReservedDims = {}
  /\ \A d \in DOMAIN sidecar.coords : \A k \in DOMAIN sidecar.coords[d] :
       sidecar.coords[d][k].type # "null"
=============================================================================
