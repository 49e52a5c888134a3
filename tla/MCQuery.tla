------------------------------- MODULE MCQuery -------------------------------
(***************************************************************************)
(* Query with texts of every form that the parser accepts and many that it *)
(* does not, sent one by one, and with a few that change tables and        *)
(* indexes, sent one after the other with transactions and crashes between *)
(* them.                                                                   *)
(***************************************************************************)
EXTENDS Query
LOCAL INSTANCE SequencesExt

-----------------------------------------------------------------------------
(* Writing texts.                                                          *)

Symbols == {"(", ")", "[", "]", ",", ";", "*", "+", "-", "/", "=", "==", "!=", "<", ">", "<=", ">="}
Words(ws) == [i \in DOMAIN ws |-> IF ws[i] \in Symbols THEN <<ws[i]>> ELSE <<"word", ws[i]>>]

MCInt(n)   == << <<"int", n>> >>
MCFloat(x) == << <<"float", x>> >>
MCText(s)  == << <<"string", s>> >>

\* Texts of a sequence, with commas between them.
RECURSIVE Listed(_)
Listed(parts) ==
    IF Len(parts) <= 1 THEN FlattenSeq(parts)
    ELSE Head(parts) \o Words(<<",">>) \o Listed(Tail(parts))

CallText(fn, args) == Words(<<fn, "(">>) \o Listed(args) \o Words(<<")">>)
ArrayText(es)      == Words(<<"[">>) \o Listed(es) \o Words(<<"]">>)
InfixText(l, op, r) == l \o Words(<<op>>) \o r

RECURSIVE PrintExpr(_)
PrintExpr(e) ==
    CASE e[1] \in {"int", "float", "imag"} ->
            IF e[2] < 0 THEN << <<"-">>, <<e[1], -e[2]>> >> ELSE <<e>>
      [] e[1] = "varchar" -> MCText(e[2])
      [] e[1] = "col"     -> Words(<<e[2]>>)
      [] e[1] = "array"   -> ArrayText([i \in DOMAIN e[2] |-> PrintExpr(e[2][i])])
      [] e[1] = "prefix"  -> Words(<<e[2]>>) \o PrintExpr(e[3])
      [] e[1] = "infix"   -> InfixText(PrintExpr(e[3]), e[2], PrintExpr(e[4]))
      [] e[1] = "call"    -> CallText(e[2], [i \in DOMAIN e[3] |-> PrintExpr(e[3][i])])

PrintList(es) == Listed([i \in DOMAIN es |-> PrintExpr(es[i])])
PrintWhere(e) == IF e = NoNode THEN <<>> ELSE Words(<<"WHERE">>) \o PrintExpr(e)
PrintRow(row) == Words(<<"(">>) \o PrintList(row) \o Words(<<")">>)
PrintColumn(c) == Words(<<c.name, c.type>> \o (IF c.auto THEN <<"AUTO_INCREMENT">> ELSE <<>>))
PrintNames(names) ==
    IF names = <<>> THEN <<>>
    ELSE Words(<<"(">>) \o Listed([i \in DOMAIN names |-> Words(<<names[i]>>)]) \o Words(<<")">>)

Print_(s) ==
    CASE s.kind = "select" ->
            Words(<<"SELECT">>) \o PrintList(s.fields) \o Words(<<"FROM", s.table>>) \o PrintWhere(s.where)
      [] s.kind = "insert" ->
            Words(<<"INSERT", "INTO", s.table>>) \o PrintNames(s.columns) \o Words(<<"VALUES">>)
            \o Listed([i \in DOMAIN s.rows |-> PrintRow(s.rows[i])])
      [] s.kind = "update" ->
            LET a == CHOOSE x \in s.set : TRUE IN
            Words(<<"UPDATE", s.table, "SET", a[1], "=">>) \o PrintExpr(a[2]) \o PrintWhere(s.where)
      [] s.kind = "delete" -> Words(<<"DELETE", "FROM", s.table>>) \o PrintWhere(s.where)
      [] s.kind = "create table" ->
            Words(<<"CREATE", "TABLE", s.table, "(">>)
            \o Listed([i \in DOMAIN s.columns |-> PrintColumn(s.columns[i])]) \o Words(<<")">>)
      [] s.kind = "drop table" -> Words(<<"DROP", "TABLE", s.table>>)
      [] s.kind = "create index" ->
            Words(<<"CREATE", "INDEX", s.index, "ON", s.table, "(", s.column, ")">>)
      [] s.kind = "drop index" -> Words(<<"DROP", "INDEX", s.index, "ON", s.table>>)
      [] s.kind = "show tables" -> Words(<<"SHOW", "TABLES">>)
      [] s.kind = "show indexes" -> Words(<<"SHOW", "INDEXES", "FROM", s.table>>)

-----------------------------------------------------------------------------
(* The values of the constants.                                            *)

MCPoint == <<"POINT", "1", "2">>
MCTriangle == <<"POLYGON", "0", "0", "2", "0", "0", "2">>
MCVec == <<"1", "0", "2">>
MCWkt == (MCPoint :> <<"point", <<2, 4>> >>)
         @@ (MCTriangle :> <<"polygon", << <<0, 0>>, <<4, 0>>, <<0, 4>>, <<0, 0>> >> >>)
MCVectorOf == (MCVec :> <<2, 0, 4>>) @@ (<<"1">> :> <<2>>)
MCTextOf(v) == <<"vector", ToString(v)>>
MCReal(fn, args) ==
    IF fn = "SQRT" THEN CHOOSE n \in 0 .. 40 : n * n <= args[1] * Unit /\ (n + 1) * (n + 1) > args[1] * Unit
    ELSE args[1]
MCTextOrder == << <<>>, <<"a">>, <<"b">> >>

MCColumns == <<"id", "f", "v", "c", "w", "m", "n", "p", "y">>
MCTypes == <<"int", "float", "varchar", "complex", "vector", "matrix", "tensor", "point", "polygon">>
MCVector(a, b) == ArrayText(<<MCInt(a), MCFloat(b)>>)
MCRowOf(id, f, v) ==
    <<MCInt(id), MCFloat(f), MCText(v), MCInt(1) \o Words(<<"+">>) \o << <<"imag", 2>> >>,
      MCVector(1, 3), ArrayText(<<MCVector(1, 3), MCVector(0, 2)>>),
      ArrayText(<<ArrayText(<<MCVector(1, 3)>>)>>), MCText(MCPoint), MCText(MCTriangle)>>

\* One table with a column of every type, one with a counter.
CreateG == Words(<<"CREATE", "TABLE", "g", "(">>)
           \o Listed([i \in DOMAIN MCTypes |-> Words(<<MCColumns[i], MCTypes[i]>>)]) \o Words(<<")">>)
InsertG(id, f, v) ==
    Words(<<"INSERT", "INTO", "g", "VALUES", "(">>) \o Listed(MCRowOf(id, f, v)) \o Words(<<")">>)
CreateT == Words(<<"CREATE", "TABLE", "t", "(", "id", "int", "AUTO_INCREMENT", ",", "v", "varchar", ")">>)
InsertT == Words(<<"INSERT", "INTO", "t", "VALUES", "(">>) \o MCInt(2) \o Words(<<",">>)
           \o MCText(<<"b">>) \o Words(<<")">>)
MCSetup == <<CreateG, InsertG(1, 3, <<"a">>), InsertG(7, 1, <<"b">>), CreateT, InsertT>>

\* Texts that change the table with the counter and its indexes.
MCTexts ==
    {Words(<<"INSERT", "INTO", "t", "(", "v", ")", "VALUES", "(">>) \o MCText(<<"a">>) \o Words(<<")">>),
     Words(<<"INSERT", "INTO", "t", "VALUES", "(">>) \o MCInt(1) \o Words(<<",">>) \o MCText(<<"b">>)
        \o Words(<<")", ",", "(">>) \o MCInt(3) \o Words(<<",">>) \o MCText(<<"a">>) \o Words(<<")">>),
     Words(<<"DELETE", "FROM", "t", "WHERE", "id", "=">>) \o MCInt(1),
     Words(<<"CREATE", "INDEX", "id", "ON", "t", "(", "id", ")">>),
     Words(<<"CREATE", "INDEX", "i", "ON", "t", "(", "id", ")">>),
     Words(<<"DROP", "INDEX", "id", "ON", "t">>)}

-----------------------------------------------------------------------------
(* Texts that are sent alone.                                              *)

ColumnTexts == {Words(<<MCColumns[i]>>) : i \in DOMAIN MCColumns}
Literals == {MCInt(1), MCInt(7), MCFloat(3), MCText(<<"a">>), MCText(MCVec), MCText(MCPoint), MCText(MCTriangle),
             << <<"imag", 2>> >>, Words(<<"-">>) \o MCInt(2)}
Pool == ColumnTexts \cup Literals
Ops == Comparisons \cup Arithmetic

Unary == {CallText(fn, <<a>>) : fn \in Registry, a \in Pool}
Binary == {CallText(fn, <<a, b>>) :
                fn \in {"POW", "POINT", "DOT", "CROSS", "DISTANCE", "INTERSECTS"}, a \in Pool, b \in Pool}
PointText(a, b) == CallText("POINT", <<MCInt(a), MCInt(b)>>)
PolygonText(a, b, c) == CallText("POLYGON", <<PointText(0, 0), PointText(a, b), PointText(c, 2)>>)
Geometry == {CallText("INTERSECTS", <<PolygonText(a, b, c), g>>) :
                a \in {1, 2}, b \in {0, 1}, c \in {0, 3},
                g \in {Words(<<"p">>), Words(<<"y">>), PointText(1, 1), PolygonText(3, 1, 1)}}
            \cup {CallText("AREA", <<PolygonText(a, b, c)>>) : a \in {1, 2}, b \in {0, 1}, c \in {0, 3}}
Infix == {InfixText(a, op, b) : a \in Pool, op \in Ops, b \in Pool}
Chains == {InfixText(InfixText(InfixText(Words(<<"id">>), p, MCInt(2)), q, Words(<<"f">>)), r, MCFloat(3)) :
                p \in Ops, q \in Ops, r \in Ops}
Arrays == {ArrayText(<<>>), MCVector(1, 3), ArrayText(<<MCVector(1, 3), ArrayText(<<MCInt(1)>>)>>),
           ArrayText(<<MCVector(1, 3), MCVector(2, 0)>>), ArrayText(<<MCText(<<"a">>)>>),
           ArrayText(<<ArrayText(<<MCVector(1, 3)>>), ArrayText(<<MCVector(2, 0)>>)>>)}

SelectTexts ==
    {Words(<<"SELECT">>) \o e \o Words(<<"FROM", "g">>) :
        e \in Pool \cup Unary \cup Binary \cup Geometry \cup Infix \cup Chains \cup Arrays}
    \cup {Words(<<"SELECT", "*", "FROM", "g", "WHERE">>) \o e : e \in Infix \cup Geometry}
InsertTexts ==
    {Words(<<"INSERT", "INTO", "g", "(", MCColumns[i], ")", "VALUES", "(">>) \o e \o Words(<<")">>) :
        i \in DOMAIN MCColumns, e \in Literals \cup Arrays \cup {PointText(1, 2), PolygonText(1, 0, 2)}
                                      \cup {InfixText(MCInt(7), op, MCInt(2)) : op \in Arithmetic}}
UpdateTexts ==
    {Words(<<"UPDATE", "g", "SET", MCColumns[i], "=">>) \o e : i \in DOMAIN MCColumns, e \in Pool}
OtherTexts ==
    {CreateT, Words(<<"DROP", "TABLE", "g">>), Words(<<"SHOW", "TABLES">>), Words(<<"DELETE", "FROM", "g">>),
     Words(<<"SHOW", "INDEXES", "FROM", "t">>), Words(<<"CREATE", "INDEX", "f", "ON", "g", "(", "f", ")">>),
     Words(<<"DROP", "INDEX", "f", "ON", "g">>), Words(<<"SELECT", "*", ",", "id", "FROM", "t">>)}

\* Texts that have a reading.
RegularTexts == SelectTexts \cup InsertTexts \cup UpdateTexts \cup OtherTexts \cup MCTexts

\* SELECT with a clause, one token too few, and words that are out of place.
ClauseTexts ==
    {Words(<<"SELECT", "*", "FROM", "g">>) \o c :
        c \in {Words(<<"ORDER", "BY", "id">>), Words(<<"GROUP", "BY", "id">>),
               Words(<<"LIMIT">>) \o MCInt(1), Words(<<"OFFSET">>) \o MCInt(1),
               Words(<<"HAVING", "id">>), Words(<<"JOIN", "t", "ON", "id", "=", "id">>),
               Words(<<"LEFT", "JOIN", "t", "ON", "id", "=", "id">>)}}
Attributes == {"AUTO_INCREMENT", "PRIMARY", "KEY", "NOT", "NULL"}
AttributeTexts ==
    {Words(<<"CREATE", "TABLE", "u", "(", "id", "int">> \o as \o <<")">>) :
        as \in UNION {[1 .. n -> Attributes] : n \in 0 .. 3}}
Base == {Words(<<"CREATE", "TABLE", "u", "(", "id", "int", ",", "v", "text", ")", ";", "SHOW", "TABLES">>),
         Words(<<"INSERT", "INTO", "t", "(", "v", ",", "id", ")", "VALUES", "(">>) \o MCText(<<"b">>)
            \o Words(<<",">>) \o MCInt(2) \o Words(<<")", ";", "SELECT", "*", "FROM", "t", ";">>),
         Words(<<"DELETE", "FROM", "g", "WHERE", "id", "=">>) \o MCInt(1),
         Words(<<"UPDATE", "g", "SET", "id", "=", "id", "WHERE", "id", "=">>) \o MCInt(1),
         Words(<<"DROP", "INDEX", "IF", "EXISTS", "id", "ON", "t">>),
         Words(<<"DROP", "INDEX", "IF", "EXISTS", "u", "id", "ON", "t">>),
         Words(<<"CREATE", "INDEX", "UNIQUE", "id", "ON", "t", "(", "id", ")">>),
         Words(<<"SHOW", "INDEXES">>)}
Broken == UNION {{RemoveAt(t, i) : i \in DOMAIN t} \cup {SubSeq(t, 1, i) : i \in DOMAIN t} : t \in Base}

MCLoneTexts == RegularTexts \cup ClauseTexts \cup AttributeTexts \cup Broken

-----------------------------------------------------------------------------
(* Properties.                                                             *)

\* The precedence of operators, for reading: comparison for equality, order,
\* sums and products.
Level(e) ==
    IF e[1] # "infix" THEN 5
    ELSE CASE e[2] \in {"=", "==", "!="} -> 1 [] e[2] \in {"<", "<=", ">", ">="} -> 2
           [] e[2] \in {"+", "-"} -> 3 [] e[2] \in {"*", "/"} -> 4

\* A tree whose text, without parentheses, is read as that tree: stronger
\* operators below weaker ones, and equal ones from the left.
RECURSIVE Grouped(_)
Grouped(e) ==
    CASE e[1] = "infix"  -> /\ Grouped(e[3]) /\ Grouped(e[4])
                            /\ Level(e[3]) >= Level(e) /\ Level(e[4]) > Level(e)
      [] e[1] = "prefix" -> Grouped(e[3]) /\ Level(e[3]) = 5
      [] e[1] = "call"   -> \A i \in DOMAIN e[3] : Grouped(e[3][i])
      [] e[1] = "array"  -> \A i \in DOMAIN e[2] : Grouped(e[2][i])
      [] OTHER -> TRUE

LoneKey(ts) == \E i \in 1 .. Len(ts) : Is(ts, i, "KEY") /\ (i = 1 \/ ~Is(ts, i - 1, "PRIMARY"))

\* A text that has a reading is read so: it is not refused, the statement it
\* is parsed to has its tokens, all of them and in their order, and groups
\* operators by their precedence and from the left.  Whatever the text, only
\* a KEY without PRIMARY makes the parser go on for ever.
ReadsWhatIsWritten ==
    [][/\ Refuse => text \notin RegularTexts
       /\ Hang => LoneKey(text)
       /\ ParseEnds /\ text \in RegularTexts =>
            /\ Len(program) = 1 /\ Print_(program[1]) = text
            /\ program[1].kind = "select" =>
                    /\ program[1].where # NoNode => Grouped(program[1].where)
                    /\ \A i \in DOMAIN program[1].fields : Grouped(program[1].fields[i])]_vars

\* The type of a geometry that is made of a text is only guessed, unless the
\* text is a literal.
Guessed(e) == e[1] = "call" /\ e[2] = "ST_GEOMFROMTEXT" /\ e[3][1][1] # "varchar"

\* The static types are sound: each value of an answer has the type that
\* typeOfExpression gave its expression before there was a row, and each value
\* of a stored row the type of its column, whatever arithmetic, literals,
\* functions and defaults it comes from.
AnswersAreTyped ==
    [][ExecuteNext =>
        LET s == Head(program)  r == answers'[Len(answers')] IN
        /\ \A t \in DOMAIN world'.tables : LET rows == ReadRecords(world', t)  cols == Schema(world', t) IN
              \A i \in DOMAIN rows : \A c \in DOMAIN cols : rows[i][c][1] = cols[c].type
        /\ s.kind = "select" /\ s.fields # << <<"col", "*">> >> =>
              \A i \in DOMAIN r.rows : \A f \in DOMAIN s.fields :
                  \/ Guessed(s.fields[f])
                  \/ r.rows[i][f][1] = TypeOf(s.fields[f], Schema(world, s.table))]_vars

\* Queries that can use an index.
Probes ==
    {[kind |-> "select", fields |-> << <<"col", "*">> >>, table |-> "t", where |-> w, clauses |-> {}] :
        w \in {<<"infix", op, <<"col", "id">>, <<"int", n>> >> : op \in Comparisons, n \in {1, 2, 3}}
              \cup {<<"infix", op, <<"int", n>>, <<"col", "id">> >> : op \in Comparisons, n \in {1, 2, 3}}}

Occurrences(rows, row) == Cardinality({i \in DOMAIN rows : rows[i] = row})

\* An answer has no row that another one has not as often.
Within(r, full) ==
    /\ r.ok = full.ok
    /\ \A i \in DOMAIN r.rows : Occurrences(r.rows, r.rows[i]) <= Occurrences(full.rows, r.rows[i])

AnswerOf(plan) == Execute(world, plan, InTx, "")

\* An index never adds to an answer: what a query returns with it, a row as
\* often as it does, the query returns without it, although entries outlive
\* their rows, their transactions and the pages that a rollback takes back.
OptimizerAddsNothing ==
    status = "idle" =>
        \A s \in Probes :
            Within(AnswerOf(Optimize(Plan(s), world.tables)), AnswerOf(Plan(s)))

\* An index knows the key of every row, whatever was rolled back, deleted,
\* inserted twice or undone by a crash, unless an insertion passed it over
\* because the index map had it under a name that is no column.
IndexKnowsEveryKey ==
    status = "idle" =>
        \A t \in DOMAIN world.tables : \A n \in DOMAIN world.tables[t].idx :
            LET index == world.tables[t].idx[n]
                rows == ReadRecords(world, t)
                col == Column(Schema(world, t), index.col)
            IN index.root \notin unkept =>
                 \A i \in DOMAIN rows : KeyOf(rows[i][col], index.key) \in DOMAIN world.tree[index.root]

\* WHERE compares numbers as numbers, whatever their types are.
ComparisonsAreNumeric ==
    [][ExecuteNext =>
        LET s == Head(program)  r == answers'[Len(answers')] IN
        s.kind = "select" /\ s.where # NoNode /\ s.where[1] = "infix" /\ s.where[2] \in {"<", ">"} /\ r.ok =>
            \A row \in Range(ReadRecords(world, s.table)) :
                LET cols == Schema(world, s.table)
                    a == Eval(s.where[3], row, cols)  b == Eval(s.where[4], row, cols)
                IN {a[1], b[1]} \subseteq Numeric =>
                    (row \in Range(r.rows) <=> IF s.where[2] = "<" THEN AsFloat(a) < AsFloat(b)
                                                                  ELSE AsFloat(a) > AsFloat(b))]_vars
=============================================================================
