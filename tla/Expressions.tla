----------------------------- MODULE Expressions -----------------------------
(***************************************************************************)
(* The expressions of SQL statements: the static types that                *)
(* internal/executor/executor.go gives them, their values on a row, and    *)
(* the functions of internal/functions/functions.go.                       *)
(*                                                                         *)
(* A value is <<type, data>>, a record.Value of which only the field of    *)
(* its type is set: integers have IntBits bits, floats are whole numbers   *)
(* of the unit 1/Unit (rounding is all that is kept of their precision),   *)
(* texts are sequences of words, and vectors, points and so on are tuples  *)
(* of floats.  An expression is a tuple that begins with its kind.         *)
(***************************************************************************)
EXTENDS Integers, Sequences, FiniteSets
LOCAL INSTANCE SequencesExt

CONSTANTS
    IntBits,        \* the width of INT; 32 in the code
    Unit,           \* how many ticks of a float make 1
    Real(_, _),     \* what math.Sin, math.Pow... give: name and arguments
    Wkt,            \* the texts that ParseWKT accepts, and their geometries
    VectorOf,       \* the texts that parseVector accepts, and their vectors
    TextOf(_)       \* what formatVector makes of a vector

ASSUME ExpressionAssumption ==
    /\ IntBits \in Nat \ {0} /\ Unit \in Nat \ {0}
    /\ \A t \in DOMAIN Wkt : Wkt[t][1] \in {"point", "polygon"}

Types   == {"int", "float", "varchar", "complex", "vector", "matrix", "tensor",
            "point", "polygon"}
Numeric == {"int", "float"}

Error      == <<"error", "">>
IsError(v) == v[1] = "error"

\* int32 arithmetic wraps around.
Wrap(n) == LET half == 2 ^ (IntBits - 1) IN ((n + half) % (2 * half)) - half

\* Go's division truncates towards zero.
Quotient(a, b) ==
    LET Abs(n) == IF n < 0 THEN -n ELSE n
        q == Abs(a) \div Abs(b)
    IN IF (a < 0) # (b < 0) THEN -q ELSE q

Integer(n)      == <<"int", Wrap(n)>>
Float(x)    == <<"float", x>>
Truth(b)    == Integer(IF b THEN 1 ELSE 0)

\* The zero value of a type, and the field that a value of any type has for
\* another one: Go leaves it zero.
ZeroOf(type) ==
    <<type, CASE type \in Numeric -> 0
              [] type = "complex" \/ type = "point" -> <<0, 0>>
              [] OTHER -> <<>> >>
Field(v, type) == IF v[1] = type THEN v[2] ELSE ZeroOf(type)[2]

AsFloat(v)   == IF v[1] = "int" THEN v[2] * Unit ELSE v[2]
AsComplex(v) == IF v[1] = "complex" THEN v[2] ELSE <<AsFloat(v), 0>>

-----------------------------------------------------------------------------
(* Geometry and vectors.                                                   *)

Closing(ring, i) == ring[(i % Len(ring)) + 1]

Times(x, y) == Quotient(x * y, Unit)
SumOver(n, term(_)) == FoldFunction(+, 0, [i \in 1 .. n |-> term(i)])
Dot(u, v) == SumOver(Len(u), LAMBDA i : Times(u[i], v[i]))
Cross(u, v) ==
    [i \in 1 .. 3 |->
        LET j == (i % 3) + 1  k == (j % 3) + 1
        IN Times(u[j], v[k]) - Times(u[k], v[j])]

\* Twice the area that a and b span with the origin o, with its sign.
Turn(o, a, b) == (a[1] - o[1]) * (b[2] - o[2]) - (a[2] - o[2]) * (b[1] - o[1])
Sign(n) == IF n = 0 THEN 0 ELSE IF n > 0 THEN 1 ELSE -1

Between(x, a, b) == (a <= x /\ x <= b) \/ (b <= x /\ x <= a)
OnSegment(p, a, b) ==
    Turn(a, b, p) = 0 /\ Between(p[1], a[1], b[1]) /\ Between(p[2], a[2], b[2])

SegmentsIntersect(p1, q1, p2, q2) ==
    LET Side(a, b, c) == Sign(Turn(a, b, c)) IN
    \/ Side(p1, q1, p2) # Side(p1, q1, q2) /\ Side(p2, q2, p1) # Side(p2, q2, q1)
    \/ OnSegment(p2, p1, q1) \/ OnSegment(q2, p1, q1)
    \/ OnSegment(p1, p2, q2) \/ OnSegment(q1, p2, q2)

\* A ring without the point that closes it.
Opened(ring) ==
    IF Len(ring) > 0 /\ ring[1] = ring[Len(ring)] THEN SubSeq(ring, 1, Len(ring) - 1) ELSE ring

\* Whether the ray from p to the right crosses the edge from a to b.
Crosses(p, a, b) ==
    /\ (a[2] > p[2]) # (b[2] > p[2])
    /\ IF b[2] > a[2] THEN Turn(a, b, p) > 0 ELSE Turn(a, b, p) < 0

IntersectsPoint(polygon, p) ==
    LET ring == Opened(polygon)  edges == DOMAIN ring IN
    /\ Len(ring) >= 3
    /\ \/ \E i \in edges : OnSegment(p, ring[i], Closing(ring, i))
       \/ Cardinality({i \in edges : Crosses(p, ring[i], Closing(ring, i))}) % 2 = 1

IntersectsPolygon(p, q) ==
    LET v == Opened(p)  w == Opened(q) IN
    /\ Len(v) >= 3 /\ Len(w) >= 3
    /\ \/ \E i \in DOMAIN v, j \in DOMAIN w :
             SegmentsIntersect(v[i], Closing(v, i), w[j], Closing(w, j))
       \/ IntersectsPoint(q, v[1])
       \/ IntersectsPoint(p, w[1])

\* The shoelace formula.
Area(polygon) ==
    LET Edge(i) == LET a == polygon[i]  b == Closing(polygon, i)
                   IN a[1] * b[2] - b[1] * a[2]
        twice == SumOver(Len(polygon), Edge)
    IN (IF twice < 0 THEN -twice ELSE twice) \div (2 * Unit)

-----------------------------------------------------------------------------
(* The functions of the registry, on the values of their arguments.        *)

Elementary == {"SIN", "COS", "TAN", "ASIN", "ACOS", "ATAN", "EXP", "LOG", "LN", "SQRT"}
Registry == Elementary \cup {"ABS", "POW", "DOT", "CROSS", "NORM", "POINT", "POLYGON",
                             "ST_GEOMFROMTEXT", "DISTANCE", "INTERSECTS", "AREA"}

AllNumeric(args) == \A i \in DOMAIN args : args[i][1] \in Numeric

EvalElementary(fn, args) ==
    IF \/ Len(args) # 1 \/ ~AllNumeric(args)
       \/ fn \in {"LOG", "LN"} /\ AsFloat(args[1]) <= 0
       \/ fn = "SQRT" /\ AsFloat(args[1]) < 0
    THEN Error ELSE Float(Real(fn, <<AsFloat(args[1])>>))

EvalAbs(args) ==
    IF Len(args) # 1 \/ ~AllNumeric(args) THEN Error
    ELSE LET x == args[1][2] IN
         IF x >= 0 THEN args[1]
         ELSE IF args[1][1] = "int" THEN Integer(-x) ELSE Float(-x)

EvalPow(args) ==
    IF Len(args) # 2 \/ ~AllNumeric(args) THEN Error
    ELSE Float(Real("POW", <<AsFloat(args[1]), AsFloat(args[2])>>))

\* DOT, CROSS and NORM take vectors that are written as texts.
EvalVectors(fn, args) ==
    LET vs == [i \in DOMAIN args |-> VectorOf[args[i][2]]] IN
    IF \/ Len(args) # (IF fn = "NORM" THEN 1 ELSE 2)
       \/ \E i \in DOMAIN args : args[i][1] # "varchar" \/ args[i][2] \notin DOMAIN VectorOf
    THEN Error
    ELSE CASE fn = "NORM" -> Float(Real("SQRT", <<Dot(vs[1], vs[1])>>))
           [] fn = "DOT" -> IF Len(vs[1]) # Len(vs[2]) THEN Error ELSE Float(Dot(vs[1], vs[2]))
           [] fn = "CROSS" -> IF Len(vs[1]) # 3 \/ Len(vs[2]) # 3 THEN Error
                              ELSE <<"varchar", TextOf(Cross(vs[1], vs[2]))>>

EvalPoint(args) ==
    IF Len(args) # 2 \/ ~AllNumeric(args) THEN Error
    ELSE <<"point", <<AsFloat(args[1]), AsFloat(args[2])>> >>

EvalPolygon(args) ==
    IF Len(args) < 3 \/ \E i \in DOMAIN args : args[i][1] # "point" THEN Error
    ELSE <<"polygon", [i \in DOMAIN args |-> args[i][2]]>>

ParseWKT(text) == IF text \in DOMAIN Wkt THEN Wkt[text] ELSE Error

EvalGeomFromText(args) ==
    IF Len(args) # 1 \/ args[1][1] # "varchar" THEN Error ELSE ParseWKT(args[1][2])

EvalDistance(args) ==
    IF Len(args) # 2 \/ \E i \in DOMAIN args : args[i][1] # "point" THEN Error
    ELSE LET dx == args[1][2][1] - args[2][2][1]  dy == args[1][2][2] - args[2][2][2]
         IN Float(Real("SQRT", <<Times(dx, dx) + Times(dy, dy)>>))

EvalIntersects(args) ==
    LET g == args[1]  h == args[2]  kinds == <<g[1], h[1]>> IN
    IF Len(args) # 2 THEN Error
    ELSE CASE kinds = <<"point", "point">>     -> Truth(g[2] = h[2])
           [] kinds = <<"point", "polygon">>   -> Truth(IntersectsPoint(h[2], g[2]))
           [] kinds = <<"polygon", "point">>   -> Truth(IntersectsPoint(g[2], h[2]))
           [] kinds = <<"polygon", "polygon">> -> Truth(IntersectsPolygon(g[2], h[2]))
           [] OTHER -> Error

EvalArea(args) ==
    IF Len(args) # 1 \/ args[1][1] # "polygon" THEN Error ELSE Float(Area(args[1][2]))

Call(fn, args) ==
    CASE fn \in Elementary -> EvalElementary(fn, args)
      [] fn = "ABS" -> EvalAbs(args)
      [] fn = "POW" -> EvalPow(args)
      [] fn \in {"DOT", "CROSS", "NORM"} -> EvalVectors(fn, args)
      [] fn = "POINT" -> EvalPoint(args)
      [] fn = "POLYGON" -> EvalPolygon(args)
      [] fn = "ST_GEOMFROMTEXT" -> EvalGeomFromText(args)
      [] fn = "DISTANCE" -> EvalDistance(args)
      [] fn = "INTERSECTS" -> EvalIntersects(args)
      [] fn = "AREA" -> EvalArea(args)
      [] OTHER -> Error

-----------------------------------------------------------------------------
(* Expressions:  <<"int", n>>  <<"float", x>>  <<"varchar", text>>          *)
(* <<"imag", x>>  <<"col", name>>  <<"array", elements>>                    *)
(* <<"prefix", op, e>>  <<"infix", op, left, right>>  <<"call", fn, args>>  *)
(* A schema is a sequence of columns; NoSchema is Go's nil.                 *)

Comparisons == {"=", "==", "!=", "<", ">", "<=", ">="}
Arithmetic  == {"+", "-", "*", "/"}

NoSchema == <<>>
ColumnOf(schema, name) == {i \in DOMAIN schema : schema[i].name = name}
HasColumn(schema, name) == ColumnOf(schema, name) # {}
Column(schema, name) == CHOOSE i \in ColumnOf(schema, name) :
                            \A j \in ColumnOf(schema, name) : i <= j

\* The types that a function accepts, by argument.
Parameters(fn, n) ==
    CASE fn \in Elementary \cup {"ABS"}  -> <<Numeric>>
      [] fn \in {"POW", "POINT"}         -> <<Numeric, Numeric>>
      [] fn = "NORM"                     -> <<{"varchar"}>>
      [] fn \in {"DOT", "CROSS"}         -> <<{"varchar"}, {"varchar"}>>
      [] fn = "POLYGON"                  -> [i \in 1 .. (IF n < 3 THEN 3 ELSE n) |-> {"point"}]
      [] fn = "ST_GEOMFROMTEXT"          -> <<{"varchar"}>>
      [] fn = "DISTANCE"                 -> <<{"point"}, {"point"}>>
      [] fn = "INTERSECTS"               -> <<{"point", "polygon"}, {"point", "polygon"}>>
      [] fn = "AREA"                     -> <<{"polygon"}>>

\* The type of a geometry is guessed from the text, when it is a literal.
GeometryType(e) ==
    IF e[1] = "varchar" /\ e[2] # <<>> /\ e[2][1] = "POLYGON" THEN "polygon" ELSE "point"

TypeOfCall(fn, types, args) ==
    LET expected == Parameters(fn, Len(args)) IN
    IF \/ fn \notin Registry
       \/ Len(types) # Len(expected)
       \/ \E i \in DOMAIN types : types[i] \notin expected[i]
    THEN "error"
    ELSE CASE fn = "ABS" -> types[1]
           [] fn = "POINT" -> "point"
           [] fn = "POLYGON" -> "polygon"
           [] fn = "ST_GEOMFROMTEXT" -> GeometryType(args[1])
           [] fn = "CROSS" -> "varchar"
           [] fn = "INTERSECTS" -> "int"
           [] OTHER -> "float"

TypeOfInfix(op, l, r) ==
    IF "error" \in {l, r} THEN "error"
    ELSE CASE op \in Comparisons ->
                IF {l, r} \subseteq Numeric \/ l = r THEN "int" ELSE "error"
           [] op \in Arithmetic ->
                IF {l, r} = {"int"} THEN "int"
                ELSE IF {l, r} \subseteq Numeric THEN "float"
                ELSE IF {l, r} \subseteq Numeric \cup {"complex"} THEN "complex"
                ELSE "error"
           [] OTHER -> "error"

\* typeOfExpression: the static type, or "error".
RECURSIVE TypeOf(_, _)
TypeOf(e, schema) ==
    CASE e[1] \in {"int", "float", "varchar"} -> e[1]
      [] e[1] = "imag" -> "complex"
      [] e[1] = "col" ->
            IF e[2] = "*" THEN "varchar"
            ELSE IF HasColumn(schema, e[2]) THEN schema[Column(schema, e[2])].type ELSE "error"
      [] e[1] = "array" ->
            IF e[2] = <<>> THEN "vector"
            ELSE LET first == TypeOf(e[2][1], schema) IN
                 CASE first = "error" -> "error"
                   [] first = "vector" -> "matrix"
                   [] first \in {"matrix", "tensor"} -> "tensor"
                   [] OTHER -> "vector"
      [] e[1] = "prefix" ->
            LET t == TypeOf(e[3], schema) IN IF t \in Numeric THEN t ELSE "error"
      [] e[1] = "infix" -> TypeOfInfix(e[2], TypeOf(e[3], schema), TypeOf(e[4], schema))
      [] e[1] = "call" ->
            TypeOfCall(e[2], [i \in DOMAIN e[3] |-> TypeOf(e[3][i], schema)], e[3])
      [] OTHER -> "error"

-----------------------------------------------------------------------------
(* Literals of the types that only literals have.                          *)

\* evalFloatVal and evalRealPart; also what evalImagPart does, for its kind.
RECURSIVE Number(_, _)
Number(e, kinds) ==
    CASE e[1] \in kinds -> IF e[1] = "int" THEN Float(e[2] * Unit) ELSE Float(e[2])
      [] e[1] = "prefix" /\ e[2] = "-" ->
            LET n == Number(e[3], kinds) IN IF IsError(n) THEN Error ELSE Float(-n[2])
      [] OTHER -> Error

RealPart(e) == Number(e, Numeric)
ImagPart(e) == Number(e, {"imag"})

RECURSIVE EvalComplex(_)
EvalComplex(e) ==
    CASE e[1] \in Numeric -> <<"complex", <<Number(e, Numeric)[2], 0>> >>
      [] e[1] = "imag"    -> <<"complex", <<0, e[2]>> >>
      [] e[1] = "prefix" /\ e[2] = "-" ->
            LET c == EvalComplex(e[3]) IN
            IF IsError(c) THEN Error ELSE <<"complex", <<-c[2][1], -c[2][2]>> >>
      [] e[1] = "infix" /\ e[2] \in {"+", "-"} ->
            LET re == RealPart(e[3])  im == ImagPart(e[4]) IN
            IF IsError(re) \/ IsError(im) THEN Error
            ELSE <<"complex", <<re[2], IF e[2] = "+" THEN im[2] ELSE -im[2]>> >>
      [] OTHER -> Error

EvalVector(e) ==
    IF e[1] # "array" \/ \E i \in DOMAIN e[2] : IsError(RealPart(e[2][i])) THEN Error
    ELSE <<"vector", [i \in DOMAIN e[2] |-> RealPart(e[2][i])[2]]>>

EvalMatrix(e) ==
    IF \/ e[1] # "array"
       \/ \E i \in DOMAIN e[2] : IsError(EvalVector(e[2][i]))
       \/ \E i \in DOMAIN e[2] : Len(e[2][i][2]) # Len(e[2][1][2])
    THEN Error ELSE <<"matrix", [i \in DOMAIN e[2] |-> EvalVector(e[2][i])[2]]>>

\* flattenArrayLiteral: the shape and the numbers.
RECURSIVE Flatten(_)
Flatten(e) ==
    IF e[1] # "array"
    THEN LET n == RealPart(e) IN IF IsError(n) THEN Error ELSE <<"tensor", << <<>>, <<n[2]>> >> >>
    ELSE LET parts == [i \in DOMAIN e[2] |-> Flatten(e[2][i])] IN
         IF e[2] = <<>> THEN <<"tensor", << <<0>>, <<>> >> >>
         ELSE IF \/ \E i \in DOMAIN parts : IsError(parts[i])
                 \/ \E i \in DOMAIN parts : parts[i][2][1] # parts[1][2][1]
         THEN Error
         ELSE <<"tensor", << <<Len(parts)>> \o parts[1][2][1],
                             FlattenSeq([i \in DOMAIN parts |-> parts[i][2][2]]) >> >>

EvalTensor(e) == IF e[1] # "array" THEN Error ELSE Flatten(e)

EvalArray(e) ==
    LET vec == EvalVector(e)  mat == EvalMatrix(e) IN
    IF ~IsError(vec) THEN vec ELSE IF ~IsError(mat) THEN mat ELSE EvalTensor(e)

-----------------------------------------------------------------------------
(* Evaluation on a row.                                                    *)

\* compareValues looks at the field that the left operand's type names, also
\* in a right operand of another type.
Compare(l, op, r) ==
    LET a == l[2]  b == Field(r, l[1]) IN
    CASE op \in {"=", "=="} -> Truth(a = b)
      [] op = "!=" -> Truth(a # b)
      [] op = "<" /\ l[1] \in Numeric  -> Truth(a < b)
      [] op = ">" /\ l[1] \in Numeric  -> Truth(a > b)
      [] op = "<=" /\ l[1] \in Numeric -> Truth(a <= b)
      [] op = ">=" /\ l[1] \in Numeric -> Truth(a >= b)
      [] OTHER -> Error

Compute(l, op, r) ==
    LET x == AsFloat(l)  y == AsFloat(r)  ints == l[1] = "int" /\ r[1] = "int" IN
    CASE op = "+" -> IF ints THEN Integer(l[2] + r[2]) ELSE Float(x + y)
      [] op = "-" -> IF ints THEN Integer(l[2] - r[2]) ELSE Float(x - y)
      [] op = "*" -> IF ints THEN Integer(l[2] * r[2]) ELSE Float(Times(x, y))
      [] op = "/" -> IF r[2] = 0 THEN Error
                     ELSE IF ints THEN Integer(Quotient(l[2], r[2])) ELSE Float(Quotient(x * Unit, y))

\* Mutant: an operand of type INT gives an INT, whatever the other one is.
ApplyIntegers(l, op, r) ==
    IF IsError(l) \/ IsError(r) THEN Error
    ELSE IF {l[1], r[1]} \subseteq Numeric /\ op \in Arithmetic
    THEN IF l[1] = "int" THEN Compute(l, op, Integer(r[2])) ELSE Compute(l, op, r)
    ELSE Compare(l, op, r)

Apply(l, op, r) ==
    IF IsError(l) \/ IsError(r) THEN Error
    ELSE IF /\ "complex" \in {l[1], r[1]} /\ op \in {"+", "-"}
            /\ {l[1], r[1]} \subseteq Numeric \cup {"complex"}
    THEN LET c == AsComplex(l)  d == AsComplex(r) IN
         <<"complex", IF op = "+" THEN <<c[1] + d[1], c[2] + d[2]>>
                                  ELSE <<c[1] - d[1], c[2] - d[2]>> >>
    ELSE IF {l[1], r[1]} \subseteq Numeric /\ op \in Arithmetic THEN Compute(l, op, r)
    ELSE Compare(l, op, r)

Negate(op, v) ==
    IF op # "-" \/ v[1] \notin Numeric THEN Error
    ELSE IF v[1] = "int" THEN Integer(-v[2]) ELSE Float(-v[2])

\* evalRowExpression.
RECURSIVE Eval(_, _, _)
Eval(e, row, schema) ==
    CASE e[1] = "int"     -> Integer(e[2])
      [] e[1] \in {"float", "varchar"} -> e
      [] e[1] = "imag"    -> <<"complex", <<0, e[2]>> >>
      [] e[1] = "array"   -> EvalArray(e)
      [] e[1] = "col"     -> IF HasColumn(schema, e[2]) THEN row[Column(schema, e[2])] ELSE Error
      [] e[1] = "prefix"  -> Negate(e[2], Eval(e[3], row, schema))
      [] e[1] = "infix"   -> Apply(Eval(e[3], row, schema), e[2], Eval(e[4], row, schema))
      [] e[1] = "call"    ->
            LET args == [i \in DOMAIN e[3] |-> Eval(e[3][i], row, schema)] IN
            IF \E i \in DOMAIN args : IsError(args[i]) THEN Error ELSE Call(e[2], args)
      [] OTHER -> Error

\* evalCondition: "yes", "no" or "error".
Verdict(v) == IF v[1] # "int" THEN "error" ELSE IF v[2] # 0 THEN "yes" ELSE "no"
Condition(e, row, schema) == Verdict(Eval(e, row, schema))

\* The value that a column of a simple type or a geometry is given for one of
\* another type.
Coerced(v, type) ==
    CASE v[1] = type -> v
      [] type \in {"point", "polygon"} /\ v[1] = "varchar" ->
            LET g == ParseWKT(v[2]) IN IF g[1] = type THEN g ELSE Error
      [] type = "float" /\ v[1] = "int" -> Float(v[2] * Unit)
      [] OTHER -> Error

\* evalExpression: the value that a column of the type is given.
EvalAs(e, type) ==
    CASE type = "complex" -> EvalComplex(e)
      [] type = "vector"  -> EvalVector(e)
      [] type = "matrix"  -> EvalMatrix(e)
      [] type = "tensor"  -> EvalTensor(e)
      [] OTHER -> Coerced(Eval(e, <<>>, NoSchema), type)
=============================================================================
