------------------------------- MODULE Planner -------------------------------
(***************************************************************************)
(* From a parsed statement to the plan that is executed:                   *)
(* internal/planner/planner.go and internal/optimizer/optimizer.go.        *)
(*                                                                         *)
(* The parser accepts no statement with a join, an aggregate, DISTINCT,    *)
(* ORDER BY, LIMIT or OFFSET, so the plans here are those that statements  *)
(* can have: scans, filters and projections, and the statements that       *)
(* change something.                                                       *)
(***************************************************************************)
EXTENDS Expressions, Parser
LOCAL INSTANCE SequencesExt

NoPlan == [node |-> "error"]

TypeNames ==
    [int |-> {"int", "integer"}, float |-> {"float", "double", "real"},
     varchar |-> {"varchar", "string", "text"}, complex |-> {"complex"}, vector |-> {"vector"},
     matrix |-> {"matrix"}, tensor |-> {"tensor"}, point |-> {"point"}, polygon |-> {"polygon"}]

\* MapStringToTypeID and ToSchema: a schema, or NoSchema when a type is unknown.
KnownType(name) == \E t \in Types : name \in TypeNames[t]
TypeNamed(name) == CHOOSE t \in Types : name \in TypeNames[t]
ToSchema(columns) ==
    IF \E i \in DOMAIN columns : ~KnownType(columns[i].type) THEN NoSchema
    ELSE [i \in DOMAIN columns |-> [name |-> columns[i].name, auto |-> columns[i].auto,
                                    type |-> TypeNamed(columns[i].type)]]

\* The rows that WHERE leaves of a table.
Source(table, where) ==
    LET scan == [node |-> "scan", table |-> table] IN
    IF where = NoNode THEN scan ELSE [node |-> "filter", child |-> scan, cond |-> where]

PlanSelect(s) == [node |-> "project", child |-> Source(s.table, s.where), fields |-> s.fields]

\* One node for each row; each is put before those it was chained to, so the
\* last row is inserted first.
PlanInsert(s) ==
    IF s.rows = <<>> THEN NoPlan
    ELSE [node |-> "insert", table |-> s.table, columns |-> s.columns, rows |-> Reverse(s.rows)]

PlanUpdate(s) ==
    IF s.set = {} THEN NoPlan
    ELSE [node |-> "update", table |-> s.table, set |-> s.set, child |-> Source(s.table, s.where)]

PlanDelete(s) == [node |-> "delete", table |-> s.table, child |-> Source(s.table, s.where)]

PlanCreateTable(s) ==
    IF s.columns = <<>> THEN NoPlan
    ELSE [node |-> "create table", table |-> s.table, columns |-> s.columns]

PlanDropTable(s)   == [node |-> "drop table", table |-> s.table]
PlanCreateIndex(s) == [node |-> "create index", index |-> s.index, table |-> s.table, column |-> s.column]
PlanDropIndex(s)   == [node |-> "drop index", index |-> s.index, table |-> s.table, ifExists |-> s.ifExists]
PlanShowIndexes(s) == [node |-> "show indexes", table |-> s.table]

Plan(s) ==
    CASE s.kind = "select" -> PlanSelect(s)
      [] s.kind = "insert" -> PlanInsert(s)
      [] s.kind = "update" -> PlanUpdate(s)
      [] s.kind = "delete" -> PlanDelete(s)
      [] s.kind = "create table" -> PlanCreateTable(s)
      [] s.kind = "drop table"   -> PlanDropTable(s)
      [] s.kind = "create index" -> PlanCreateIndex(s)
      [] s.kind = "drop index"   -> PlanDropIndex(s)
      [] s.kind = "show tables"  -> [node |-> "show tables"]
      [] s.kind = "show indexes" -> PlanShowIndexes(s)

-----------------------------------------------------------------------------
(* The optimizer.  tables is the catalog: it gives each table its columns  *)
(* and a map of indexes.                                                   *)

\* Only literals are compared with an index, with any number of signs (of which
\* the parser accepts "-" only).
RECURSIVE IsLiteral(_)
IsLiteral(e) ==
    \/ e[1] \in {"int", "float", "varchar"}
    \/ e[1] = "prefix" /\ e[2] = "-" /\ IsLiteral(e[3])

\* evaluateLiteral: without a row; a text has no negative.
EvaluateLiteral(e) == Eval(e, <<>>, NoSchema)

CastValue(v, type) ==
    IF v[1] = type THEN v
    ELSE IF v[1] = "int" /\ type = "float" THEN Float(v[2] * Unit) ELSE Error

\* matchIndexedCondition: the index, found by the key of the index map, and
\* whether the column is to the left of the operator.
Matches(cond, idx, left) ==
    LET col == cond[IF left THEN 3 ELSE 4]  val == cond[IF left THEN 4 ELSE 3] IN
    /\ cond[1] = "infix" /\ cond[2] \in Comparisons \ {"!="}
    /\ col[1] = "col" /\ col[2] \in DOMAIN idx /\ IsLiteral(val)

\* Whether the literal is an upper bound of the column.
IsUpper(op, colIsLeft) == op \in (IF colIsLeft THEN {"<", "<="} ELSE {">", ">="})

\* A bound is a sequence: empty for nil.
Bounds(op, colIsLeft, v) ==
    CASE op \in {"=", "=="} -> [low |-> <<v>>, high |-> <<v>>]
      [] op \notin {"=", "=="} /\ IsUpper(op, colIsLeft) -> [low |-> <<>>, high |-> <<v>>]
      [] OTHER -> [low |-> <<v>>, high |-> <<>>]

IndexScan(table, index, bound, bounds) ==
    IF IsError(bound) THEN NoPlan
    ELSE [node |-> "index scan", table |-> table, root |-> index.root, key |-> index.key,
          low |-> bounds.low, high |-> bounds.high]

\* tryIndexScan: the scan or the index scan that takes its place.
TryIndexScan(table, cond, tables) ==
    LET meta    == tables[table]
        left    == Matches(cond, meta.idx, TRUE)
        name    == cond[IF left THEN 3 ELSE 4][2]
        literal == cond[IF left THEN 4 ELSE 3]
        type    == IF HasColumn(meta.cols, name) THEN meta.cols[Column(meta.cols, name)].type ELSE "int"
        Scan(v) == IndexScan(table, meta.idx[name], v, Bounds(cond[2], left, v))
    IN IF table \in DOMAIN tables /\ (left \/ Matches(cond, meta.idx, FALSE))
       THEN Scan(CastValue(EvaluateLiteral(literal), type))
       ELSE [node |-> "scan", table |-> table]

\* A plan around another child, unless that failed.
WithChild(n, child) == IF child = NoPlan THEN NoPlan ELSE [n EXCEPT !.child = child]

\* applyRules: a filter of a scan may become one of an index scan, and a
\* projection of everything is dropped.
ApplyRules(n, tables) ==
    CASE n.node = "filter" -> WithChild(n, TryIndexScan(n.child.table, n.cond, tables))
      [] n.node = "project" /\ n.fields = << <<"col", "*">> >> -> n.child
      [] OTHER -> n

RECURSIVE Optimize(_, _)
Optimize(n, tables) ==
    IF n.node \notin {"project", "filter", "update", "delete"} THEN n
    ELSE ApplyRules(WithChild(n, Optimize(n.child, tables)), tables)
=============================================================================
