-------------------------------- MODULE Parser --------------------------------
(***************************************************************************)
(* The SQL parser: internal/parser/parser/parser.go over the tokens of     *)
(* internal/parser/lexer.  A text is a sequence of lexemes: <<"word", w>>, *)
(* with keywords in upper and names in lower case, <<"int", n>>,           *)
(* <<"float", x>>, <<"imag", x>>, <<"string", text>> and symbols, as       *)
(* <<"(">>.                                                                *)
(*                                                                         *)
(* Parsing functions take the text and the index of the current token, and *)
(* give what they parsed, the index of the token that is current           *)
(* afterwards, and a verdict: "ok", "refused" when an error was recorded,  *)
(* "hangs" when a loop never ends.  ProcessQuery drops a program with an   *)
(* error, so nothing is said of what the parser does after one.            *)
(***************************************************************************)
EXTENDS Integers, Sequences, FiniteSets
LOCAL INSTANCE SequencesExt

Keywords ==
    {"CREATE", "TABLE", "SELECT", "INSERT", "UPDATE", "DELETE", "WHERE", "VALUES", "FROM",
     "INTO", "SET", "DROP", "SHOW", "TABLES", "COUNT", "SUM", "AVG", "INNER", "LEFT", "JOIN",
     "DISTINCT", "GROUP", "BY", "ORDER", "HAVING", "LIMIT", "OFFSET", "IF", "EXISTS",
     "AUTO_INCREMENT", "PRIMARY", "KEY", "NOT", "NULL", "INDEX", "INDEXES", "ASC", "DESC", "ON"}

\* LookupIdent: "UNIQUE" is not among the keywords.
LookupIdent(w) == IF w \in Keywords THEN w ELSE "IDENT"

\* The kind of the token at an index; the text ends with "EOF".
Kind(ts, i) ==
    IF i > Len(ts) THEN "EOF"
    ELSE IF ts[i][1] = "word" THEN LookupIdent(ts[i][2]) ELSE ts[i][1]
Is(ts, i, kind) == Kind(ts, i) = kind

\* expectPeek, for one kind after the other.
Follows(ts, i, kinds) == \A k \in DOMAIN kinds : Is(ts, i + k, kinds[k])

NoNode == <<"none">>
Parsed(what, i) == [node |-> what, at |-> i, verdict |-> "ok"]
Refused(i)      == [node |-> NoNode, at |-> i, verdict |-> "refused"]
Hangs(i)        == [node |-> NoNode, at |-> i, verdict |-> "hangs"]
Bad(r)          == r.verdict # "ok"

\* What is parsed next takes the result before it, unless that is bad.
Then(r, Next(_)) == IF Bad(r) THEN r ELSE Next(r)

AfterSemicolon(ts, i) == IF Is(ts, i + 1, ";") THEN i + 1 ELSE i

-----------------------------------------------------------------------------
(* Expressions, with a precedence for each infix operator.                 *)

Lowest == 1
Precedence(kind) ==
    CASE kind \in {"==", "!=", "="}      -> 2
      [] kind \in {"<", ">", "<=", ">="} -> 3
      [] kind \in {"+", "-"}             -> 4
      [] kind \in {"*", "/"}             -> 5
      [] OTHER                           -> Lowest
PrefixPrecedence == 6

\* Mutant: an operator takes its right operand with one precedence less, and
\* so everything that has its own.
TighterLeft(kind) == Precedence(kind) - 1

\* The precedence with which the right operand is parsed.
RightOperand(kind) == Precedence(kind)

\* parsePrefixExpression folds the sign into a literal.
Signed(e) == IF e[1] \in {"int", "float", "imag"} THEN <<e[1], -e[2]>> ELSE <<"prefix", "-", e>>

RECURSIVE ParseExpression(_, _, _), Climb(_, _, _), ParseArguments(_, _, _), ParseElements(_, _, _)

\* The values of a call or of a row of INSERT, from the token after the "(";
\* what follows an expression is skipped, a comma or not.
ParseArguments(ts, i, sofar) ==
    IF Kind(ts, i) \in {")", "EOF"} THEN Parsed(sofar, i)
    ELSE Then(ParseExpression(ts, i, Lowest), LAMBDA e :
              ParseArguments(ts, IF Is(ts, e.at + 1, ",") THEN e.at + 2 ELSE e.at + 1,
                             Append(sofar, e.node)))

\* Expressions between commas, as in a list of fields or in an array.
ParseElements(ts, i, sofar) ==
    Then(ParseExpression(ts, i, Lowest), LAMBDA e :
         IF Is(ts, e.at + 1, ",") THEN ParseElements(ts, e.at + 2, Append(sofar, e.node))
         ELSE Parsed(Append(sofar, e.node), e.at))

ParseCall(ts, i) ==
    Then(ParseArguments(ts, i + 2, <<>>), LAMBDA args :
         IF Is(ts, args.at, ")") THEN Parsed(<<"call", ts[i][2], args.node>>, args.at)
         ELSE Refused(args.at))

ParseArray(ts, i) ==
    IF Is(ts, i + 1, "]") THEN Parsed(<<"array", <<>> >>, i + 1)
    ELSE Then(ParseElements(ts, i + 1, <<>>), LAMBDA es :
              IF Is(ts, es.at + 1, "]") THEN Parsed(<<"array", es.node>>, es.at + 1)
              ELSE Refused(es.at))

ParsePrefix(ts, i) ==
    CASE Is(ts, i, "IDENT") ->
            IF Is(ts, i + 1, "(") THEN ParseCall(ts, i) ELSE Parsed(<<"col", ts[i][2]>>, i)
      [] Kind(ts, i) \in {"int", "float", "imag"} -> Parsed(ts[i], i)
      [] Is(ts, i, "string") -> Parsed(<<"varchar", ts[i][2]>>, i)
      [] Is(ts, i, "*") -> Parsed(<<"col", "*">>, i)
      [] Is(ts, i, "[") -> ParseArray(ts, i)
      [] Is(ts, i, "-") ->
            Then(ParseExpression(ts, i + 1, PrefixPrecedence), LAMBDA e : Parsed(Signed(e.node), e.at))
      [] OTHER -> Refused(i)

\* parseExpression: a prefix, then every operator that binds more tightly
\* than the one to the left.
ParseExpression(ts, i, precedence) == Climb(ts, ParsePrefix(ts, i), precedence)

Climb(ts, left, precedence) ==
    LET op == Kind(ts, left.at + 1) IN
    IF Bad(left) \/ precedence >= Precedence(op) THEN left
    ELSE Then(ParseExpression(ts, left.at + 2, RightOperand(op)), LAMBDA right :
              Climb(ts, Parsed(<<"infix", op, left.node, right.node>>, right.at), precedence))

-----------------------------------------------------------------------------
(* Statements.                                                             *)

\* A clause of SELECT that begins with some words; its expressions are parsed
\* from the token that is skip tokens further on.
Clause(ts, r, name, words, skip) ==
    IF Bad(r) \/ ~Is(ts, r.at + 1, words[1]) THEN r
    ELSE IF ~Follows(ts, r.at, words) THEN Refused(r.at)
    ELSE Then(ParseElements(ts, r.at + skip, <<>>), LAMBDA es :
              Parsed([r.node EXCEPT !.clauses = @ \cup {name}], es.at))

\* WHERE moves past its keyword before it parses; LIMIT, OFFSET and HAVING
\* parse from their keyword, GROUP BY and ORDER BY from BY, JOIN from ON.
Where(ts, r) ==
    IF Bad(r) \/ ~Is(ts, r.at + 1, "WHERE") THEN r
    ELSE Then(ParseExpression(ts, r.at + 2, Lowest), LAMBDA e :
              Parsed([r.node EXCEPT !.where = e.node], e.at))

Limit(ts, r) == Clause(ts, r, "LIMIT", <<"LIMIT">>, 1)

RECURSIVE Joins(_, _)
Joins(ts, r) ==
    LET kind  == Kind(ts, r.at + 1)
        words == (IF kind = "JOIN" THEN <<>> ELSE <<kind>>) \o <<"JOIN", "IDENT", "ON">>
    IN IF Bad(r) \/ kind \notin {"JOIN", "INNER", "LEFT"} THEN r
       ELSE Joins(ts, Clause(ts, r, "JOIN", words, Len(words)))

GroupBy(ts, r) == Clause(ts, r, "GROUP BY", <<"GROUP", "BY">>, 2)
Having(ts, r)  == Clause(ts, r, "HAVING", <<"HAVING">>, 1)
OrderBy(ts, r) == Clause(ts, r, "ORDER BY", <<"ORDER", "BY">>, 2)
Offset(ts, r)  == Clause(ts, r, "OFFSET", <<"OFFSET">>, 1)

\* The end of a statement, and a semicolon when there is one.
Finished(ts, r) == Then(r, LAMBDA s : Parsed(s.node, AfterSemicolon(ts, s.at)))

ParseSelect(ts, i) ==
    LET distinct == IF Is(ts, i + 2, "DISTINCT") THEN {"DISTINCT"} ELSE {}
        Select(fields, table) == [kind |-> "select", fields |-> fields, where |-> NoNode,
                                  clauses |-> distinct, table |-> table]
        Clauses(r) == Offset(ts, Limit(ts, OrderBy(ts, Having(ts, GroupBy(ts, Where(ts, Joins(ts, r)))))))
    IN Then(ParseElements(ts, i + 1 + Cardinality(distinct), <<>>), LAMBDA fields :
            IF ~Follows(ts, fields.at, <<"FROM", "IDENT">>) THEN Refused(fields.at)
            ELSE Finished(ts, Clauses(Parsed(Select(fields.node, ts[fields.at + 2][2]), fields.at + 2))))

\* The names of INSERT's columns: other tokens between them are skipped.
RECURSIVE ParseNames(_, _, _)
ParseNames(ts, i, sofar) ==
    IF Kind(ts, i) \in {")", "EOF"} THEN Parsed(sofar, i)
    ELSE ParseNames(ts, IF Is(ts, i + 1, ",") THEN i + 2 ELSE i + 1,
                    IF Is(ts, i, "IDENT") THEN Append(sofar, ts[i][2]) ELSE sofar)

\* A statement that returns nil without an error; it stays in the program.
Nil == [kind |-> "nil"]

\* The rows of INSERT, from the token before their "(".
RECURSIVE ParseRows(_, _, _)
ParseRows(ts, i, sofar) ==
    IF ~Is(ts, i + 1, "(") THEN Refused(i)
    ELSE Then(ParseArguments(ts, i + 2, <<>>), LAMBDA row :
              IF ~Is(ts, row.at, ")") THEN Parsed(Nil, row.at)
              ELSE IF ~Is(ts, row.at + 1, ",")
              THEN Parsed([kind |-> "rows", rows |-> Append(sofar, row.node)], row.at)
              ELSE IF ~Is(ts, row.at + 2, "(") THEN Parsed(Nil, row.at + 1)
              ELSE ParseRows(ts, row.at + 1, Append(sofar, row.node)))

ParseInsert(ts, i) ==
    LET names == IF Is(ts, i + 3, "(") THEN ParseNames(ts, i + 4, <<>>) ELSE Parsed(<<>>, i + 2)
        Inserted(rows) == [kind |-> "insert", table |-> ts[i + 2][2], columns |-> names.node,
                           rows |-> rows]
    IN IF ~Follows(ts, i, <<"INTO", "IDENT">>) THEN Refused(i)
       ELSE IF Is(ts, i + 3, "(") /\ ~Is(ts, names.at, ")") THEN Parsed(Nil, names.at)
       ELSE IF ~Is(ts, names.at + 1, "VALUES") THEN Refused(names.at)
       ELSE Then(ParseRows(ts, names.at + 1, <<>>), LAMBDA r :
                 IF r.node.kind = "nil" THEN r
                 ELSE Finished(ts, Parsed(Inserted(r.node.rows), r.at)))

\* The assignments of UPDATE, a map: the last one to a column counts.
RECURSIVE ParseSet(_, _, _)
ParseSet(ts, i, sofar) ==
    LET Assigned(e) == {a \in sofar : a[1] # ts[i][2]} \cup {<<ts[i][2], e.node>>} IN
    IF ~Is(ts, i, "IDENT") THEN Parsed(sofar, i)
    ELSE IF ~Is(ts, i + 1, "=") THEN Refused(i)
    ELSE Then(ParseExpression(ts, i + 2, Lowest), LAMBDA e :
              IF Is(ts, e.at + 1, ",") THEN ParseSet(ts, e.at + 2, Assigned(e))
              ELSE Parsed(Assigned(e), e.at))

ParseUpdate(ts, i) ==
    LET Updated(set) == [kind |-> "update", table |-> ts[i + 1][2], set |-> set, where |-> NoNode] IN
    IF ~Follows(ts, i, <<"IDENT", "SET">>) THEN Refused(i)
    ELSE Then(ParseSet(ts, i + 3, {}), LAMBDA r :
              Finished(ts, Where(ts, Parsed(Updated(r.node), r.at))))

ParseDelete(ts, i) ==
    LET deleted == [kind |-> "delete", table |-> ts[i + 2][2], where |-> NoNode] IN
    IF ~Follows(ts, i, <<"FROM", "IDENT">>) THEN Refused(i)
    ELSE Finished(ts, Where(ts, Parsed(deleted, i + 2)))

\* The attributes of a column: whether AUTO_INCREMENT is one.  The loop goes
\* on at KEY and has no branch that moves past it.
RECURSIVE ParseAttributes(_, _, _)
ParseAttributes(ts, i, auto) ==
    LET Long(first, second) ==
            ParseAttributes(ts, IF Is(ts, i + 2, second) THEN i + 2 ELSE i + 1, auto)
    IN CASE Is(ts, i + 1, "AUTO_INCREMENT") -> ParseAttributes(ts, i + 1, TRUE)
         [] Is(ts, i + 1, "PRIMARY") -> Long("PRIMARY", "KEY")
         [] Is(ts, i + 1, "NOT") -> Long("NOT", "NULL")
         [] Is(ts, i + 1, "NULL") -> ParseAttributes(ts, i + 1, auto)
         [] Is(ts, i + 1, "KEY") -> Hangs(i)
         [] OTHER -> Parsed(auto, i)

\* The columns, from the token after the "("; the text may end before the ")".
RECURSIVE ParseColumns(_, _, _)
ParseColumns(ts, i, sofar) ==
    LET Col(auto) == [name |-> ts[i][2], type |-> ts[i + 1][2], auto |-> auto] IN
    IF Kind(ts, i) \in {")", "EOF"} THEN Parsed([kind |-> "columns", columns |-> sofar], i)
    ELSE IF ~Is(ts, i, "IDENT") THEN Parsed(Nil, i)
    ELSE IF ~Is(ts, i + 1, "IDENT") THEN Refused(i)
    ELSE Then(ParseAttributes(ts, i + 1, FALSE), LAMBDA r :
              ParseColumns(ts, IF Is(ts, r.at + 1, ",") THEN r.at + 2 ELSE r.at + 1,
                           Append(sofar, Col(r.node))))

ParseCreateTable(ts, i) ==
    LET Created(columns) == [kind |-> "create table", table |-> ts[i + 2][2], columns |-> columns] IN
    IF ~Follows(ts, i, <<"TABLE", "IDENT", "(">>) THEN Refused(i)
    ELSE Then(ParseColumns(ts, i + 4, <<>>), LAMBDA r :
              IF r.node.kind = "nil" THEN r
              ELSE Finished(ts, Parsed(Created(r.node.columns), r.at)))

ParseDropTable(ts, i) ==
    IF ~Follows(ts, i, <<"TABLE", "IDENT">>) THEN Refused(i)
    ELSE Parsed([kind |-> "drop table", table |-> ts[i + 2][2]], AfterSemicolon(ts, i + 2))

\* The lexer has no keyword UNIQUE, so that branch is never taken.
ParseCreateIndex(ts, i) ==
    LET at == IF Is(ts, i + 2, "UNIQUE") THEN i + 2 ELSE i + 1 IN
    IF ~Follows(ts, at, <<"IDENT", "ON", "IDENT", "(", "IDENT", ")">>) THEN Refused(at)
    ELSE Parsed([kind |-> "create index", index |-> ts[at + 1][2], table |-> ts[at + 3][2],
                 column |-> ts[at + 5][2]], AfterSemicolon(ts, at + 6))

\* After IF EXISTS the parser moves one token too far: it skips the name that
\* is written there.
ParseDropIndex(ts, i) ==
    LET guarded == Is(ts, i + 2, "IF")
        at == IF guarded THEN i + 4 ELSE i + 1
    IN IF \/ guarded /\ ~Is(ts, i + 3, "EXISTS")
          \/ ~Follows(ts, at, <<"IDENT", "ON", "IDENT">>)
       THEN Refused(at)
       ELSE Parsed([kind |-> "drop index", index |-> ts[at + 1][2], table |-> ts[at + 3][2],
                    ifExists |-> guarded], AfterSemicolon(ts, at + 3))

ParseShow(ts, i) ==
    CASE Is(ts, i + 1, "TABLES") -> Parsed([kind |-> "show tables"], AfterSemicolon(ts, i + 1))
      [] Is(ts, i + 1, "INDEXES") ->
            IF ~Is(ts, i + 2, "FROM")
            THEN Parsed([kind |-> "show indexes", table |-> ""], AfterSemicolon(ts, i + 1))
            ELSE IF ~Is(ts, i + 3, "IDENT") THEN Refused(i + 2)
            ELSE Parsed([kind |-> "show indexes", table |-> ts[i + 3][2]], AfterSemicolon(ts, i + 3))
      [] OTHER -> Refused(i)

\* A token that begins no statement is skipped without an error.
Nothing == [kind |-> "nothing"]

ParseStatement(ts, i) ==
    LET index == Is(ts, i + 1, "INDEX") IN
    CASE Is(ts, i, "SELECT") -> ParseSelect(ts, i)
      [] Is(ts, i, "INSERT") -> ParseInsert(ts, i)
      [] Is(ts, i, "UPDATE") -> ParseUpdate(ts, i)
      [] Is(ts, i, "DELETE") -> ParseDelete(ts, i)
      [] Is(ts, i, "CREATE") -> IF index THEN ParseCreateIndex(ts, i) ELSE ParseCreateTable(ts, i)
      [] Is(ts, i, "DROP")   -> IF index THEN ParseDropIndex(ts, i) ELSE ParseDropTable(ts, i)
      [] Is(ts, i, "SHOW")   -> ParseShow(ts, i)
      [] OTHER -> Parsed(Nothing, i)
=============================================================================
