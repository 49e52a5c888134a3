------------------------------- MODULE Executor -------------------------------
(***************************************************************************)
(* The execution of plans: internal/executor/executor.go, and of           *)
(* internal/storage/catalog/table_manager.go what it calls, for one        *)
(* session.  A statement takes a world and gives the next one.             *)
(*                                                                         *)
(*   tables  the catalog's map, in memory: the first page, columns,        *)
(*           indexes and AUTO_INCREMENT counters of each table             *)
(*   page0   the catalog as page 0 has it                                  *)
(*   logged  page 0 as the log has it last, committed; <<>> if it has not  *)
(*   wrote0  whether the transaction has logged page 0                     *)
(*   heap    by the first page, the pages of each table: their numbers     *)
(*           and their slots                                               *)
(*   tree    by the root page, each B+tree: the page of each key           *)
(*   next    the next page number to allocate                              *)
(*                                                                         *)
(* tables, page0, wrote0 and heap are those that the transaction sees;     *)
(* index pages and page numbers are not transactional.                     *)
(***************************************************************************)
EXTENDS Planner, TLC
LOCAL INSTANCE SequencesExt

CONSTANTS
    RowsPerPage,    \* how many rows fit on a heap page
    TextOrder       \* the texts of the model in the order of their bytes

Put(f, k, v)  == (k :> v) @@ f
Without(f, k) == [x \in DOMAIN f \ {k} |-> f[x]]

Done(w, rows)  == [ok |-> TRUE, world |-> w, rows |-> rows]
Failed(w)      == [ok |-> FALSE, world |-> w, rows |-> <<>>]

\* What comes after a result, unless that is an error.
IfOk(r, Next(_)) == IF r.ok THEN Next(r) ELSE r

EmptyWorld == [tables |-> <<>>, page0 |-> <<>>, logged |-> <<>>, wrote0 |-> FALSE,
               heap |-> <<>>, tree |-> <<>>, next |-> 1]

-----------------------------------------------------------------------------
(* The catalog's page.                                                     *)

\* serialize writes the column of an index and not its name, deserialize
\* takes the column for the name.  Of two indexes of one column it keeps the
\* one that was written later: last, if that is one of them.
StoredIndexes(idx, last) ==
    LET Of(c) == {n \in DOMAIN idx : idx[n].col = c} IN
    [c \in {idx[n].col : n \in DOMAIN idx} |->
        idx[IF last \in Of(c) THEN last ELSE CHOOSE n \in Of(c) : TRUE]]

Stored(tables, last) ==
    [t \in DOMAIN tables |-> [tables[t] EXCEPT !.idx = StoredIndexes(@, last)]]

Persist(w, inTx, last) ==
    [w EXCEPT !.page0 = Stored(w.tables, last), !.wrote0 = w.wrote0 \/ inTx]

Committed(w) ==
    [w EXCEPT !.wrote0 = FALSE, !.logged = IF w.wrote0 THEN w.page0 ELSE w.logged]

\* Rollback and Reload: the pages of before and what page 0 says.
RolledBack(before, w) ==
    [w EXCEPT !.heap = before.heap, !.page0 = before.page0, !.tables = before.page0,
              !.wrote0 = FALSE]

\* What the operations of the table manager do around their body when they
\* are called without a transaction.
AutoCommit(inTx, w, r) ==
    IF inTx THEN r
    ELSE IF r.ok THEN [r EXCEPT !.world = Committed(@)]
    ELSE [r EXCEPT !.world = RolledBack(w, @)]

-----------------------------------------------------------------------------
(* Tables.                                                                 *)

Exists(w, t)  == t \in DOMAIN w.tables
Schema(w, t)  == w.tables[t].cols
Pages(w, t)   == w.heap[w.tables[t].first]

LiveRows(page) ==
    LET live == SelectSeq(page.slots, LAMBDA s : ~s.deleted) IN [i \in DOMAIN live |-> live[i].row]
ReadPages(pages) == FlattenSeq([i \in DOMAIN pages |-> LiveRows(pages[i])])
ReadRecords(w, t) == ReadPages(Pages(w, t))

CreateTable(w, n, inTx, last) ==
    LET cols == ToSchema(n.columns)
        paged == [w EXCEPT !.next = @ + 1, !.heap = Put(@, w.next, << [id |-> w.next, slots |-> <<>>] >>)]
        meta == [first |-> w.next, cols |-> cols, idx |-> <<>>, seq |-> <<>>]
    IN IF cols = NoSchema THEN Failed(w)
       ELSE AutoCommit(inTx, w,
                IF Exists(w, n.table) THEN Failed(paged)
                ELSE Done(Persist([paged EXCEPT !.tables = Put(@, n.table, meta)], TRUE, last), <<>>))

DropTable(w, n, inTx, last) ==
    AutoCommit(inTx, w,
        IF ~Exists(w, n.table) THEN Failed(w)
        ELSE Done(Persist([w EXCEPT !.tables = Without(@, n.table)], TRUE, last), <<>>))

-----------------------------------------------------------------------------
(* Indexes.                                                                *)

\* The key of a value: the field that the type of the index names.
KeyOf(v, type) == Field(v, type)

\* A key has one page: Insert returns ErrDuplicateKey for the next one, and
\* its callers go on.
AddKey(tree, root, k, page) ==
    IF k \in DOMAIN tree[root] THEN tree ELSE [tree EXCEPT ![root] = Put(@, k, page)]

\* Mutant: only the first page of the chain is scanned.
KeysOfFirst(pages, col, type) ==
    [i \in DOMAIN pages[1].slots |->
        [key |-> KeyOf(pages[1].slots[i].row[col], type), page |-> pages[1].id]]

\* The keys of the rows of some pages, deleted or not.
KeysOf(pages, col, type) ==
    FlattenSeq([p \in DOMAIN pages |->
        [i \in DOMAIN pages[p].slots |->
            [key |-> KeyOf(pages[p].slots[i].row[col], type), page |-> pages[p].id]]])

CreateIndex(w, n, inTx, last) ==
    LET meta == w.tables[n.table]
        col  == Column(meta.cols, n.column)
        type == meta.cols[col].type
        keys == KeysOf(Pages(w, n.table), col, type)
        tree == FoldLeft(LAMBDA t, k : AddKey(t, w.next, k.key, k.page), Put(w.tree, w.next, <<>>), keys)
        index == [col |-> n.column, root |-> w.next, key |-> type]
    IN AutoCommit(inTx, w,
        IF \/ ~Exists(w, n.table)
           \/ ~HasColumn(meta.cols, n.column)
           \/ type \notin {"int", "float", "varchar"}
           \/ n.index \in DOMAIN meta.idx
        THEN Failed(w)
        ELSE Done(Persist([w EXCEPT !.tree = tree, !.next = @ + 1,
                                    !.tables[n.table].idx = Put(@, n.index, index)], TRUE, last), <<>>))

DropIndex(w, n, inTx, last) ==
    LET found == Exists(w, n.table) /\ n.index \in DOMAIN w.tables[n.table].idx IN
    AutoCommit(inTx, w,
        IF ~found THEN IF n.ifExists THEN Done(w, <<>>) ELSE Failed(w)
        ELSE Done(Persist([w EXCEPT !.tables[n.table].idx = Without(@, n.index)], TRUE, last), <<>>))

\* InsertRecord maintains an index when the key of the index map, not the
\* column of the index, names a column.
Maintained(w, t, row, page) ==
    LET meta == w.tables[t]
        names == SetToSeq({n \in DOMAIN meta.idx : HasColumn(meta.cols, n)})
        Add(tree, n) == AddKey(tree, meta.idx[n].root,
                               KeyOf(row[Column(meta.cols, n)], meta.idx[n].key), page)
    IN FoldLeft(Add, w.tree, names)

Rank(k) == CHOOSE i \in DOMAIN TextOrder : TextOrder[i] = k
NotAbove(a, b, type) == IF type = "varchar" THEN Rank(a) <= Rank(b) ELSE a <= b

\* Mutant: a page is read for each of its keys.
EveryTime(ids) == ids

\* The pages of a range scan, each once and in the order of their first keys.
EachOnce(ids) ==
    LET first == SelectSeq([i \in DOMAIN ids |-> i], LAMBDA i : \A j \in 1 .. i - 1 : ids[j] # ids[i])
    IN [k \in DOMAIN first |-> ids[first[k]]]

\* ReadRecordsIndexed: every row of the pages that a range scan gives.
ReadRecordsIndexed(w, n) ==
    LET type == n.key
        tree == w.tree[n.root]
        In(k) == /\ n.low = <<>> \/ NotAbove(KeyOf(n.low[1], type), k, type)
                 /\ n.high = <<>> \/ NotAbove(k, KeyOf(n.high[1], type), type)
        keys == SetToSortSeq({k \in DOMAIN tree : In(k)},
                             LAMBDA a, b : a # b /\ NotAbove(a, b, type))
        ids == EachOnce([i \in DOMAIN keys |-> tree[keys[i]]])
        PageAt(i) == SelectSeq(Pages(w, n.table), LAMBDA p : p.id = ids[i])
    IN ReadPages(FlattenSeq([i \in DOMAIN ids |-> PageAt(i)]))

-----------------------------------------------------------------------------
(* Queries.                                                                *)

\* executeFilter, executeProject, executeUpdate and executeDelete execute their
\* child first.
RECURSIVE Execute(_, _, _, _)

TableOf(n) == IF n.node = "filter" THEN n.child.table ELSE n.table

Scan(w, n) ==
    IF ~Exists(w, n.table) THEN Failed(w)
    ELSE Done(w, IF n.node = "scan" THEN ReadRecords(w, n.table) ELSE ReadRecordsIndexed(w, n))

\* executeFilter: the condition has to have a type, also when there is no row.
Filter(w, n, inTx, last) ==
    LET cols == Schema(w, n.child.table)
        Holds(row) == Condition(n.cond, row, cols)
    IN IfOk(Execute(w, n.child, inTx, last), LAMBDA source :
            IF \/ TypeOf(n.cond, cols) = "error"
               \/ \E i \in DOMAIN source.rows : Holds(source.rows[i]) = "error"
            THEN Failed(w)
            ELSE Done(w, SelectSeq(source.rows, LAMBDA row : Holds(row) = "yes")))

\* An answer, unless a value of it is an error.
Answer(w, rows) ==
    IF \E i \in DOMAIN rows : \E f \in DOMAIN rows[i] : IsError(rows[i][f]) THEN Failed(w) ELSE Done(w, rows)

\* executeProject.
Project(w, n, inTx, last) ==
    LET cols == Schema(w, TableOf(n.child))
        Image(row) == [f \in DOMAIN n.fields |-> Eval(n.fields[f], row, cols)]
    IN IfOk(Execute(w, n.child, inTx, last), LAMBDA source :
            IF n.fields = << <<"col", "*">> >> THEN source
            ELSE IF \E f \in DOMAIN n.fields : TypeOf(n.fields[f], cols) = "error" THEN Failed(w)
            ELSE Answer(w, [i \in DOMAIN source.rows |-> Image(source.rows[i])]))

ShowTables(w) ==
    Done(w, [i \in 1 .. Cardinality(DOMAIN w.tables) |-> << <<"varchar", SetToSeq(DOMAIN w.tables)[i]>> >>])

ShowIndexes(w, n) ==
    IF n.table = "" \/ ~Exists(w, n.table) THEN Failed(w)
    ELSE LET idx == w.tables[n.table].idx  names == SetToSeq(DOMAIN idx) IN
         Done(w, [i \in DOMAIN names |->
                    << <<"varchar", names[i]>>, <<"varchar", n.table>>,
                       <<"varchar", idx[names[i]].col>>, Integer(0)>>])

-----------------------------------------------------------------------------
(* Changes.                                                                *)

\* The values of a row of INSERT, in the order of the schema; Error where an
\* expression has none.
RowOf(cols, names, exprs) ==
    LET Given(i) == IF names = <<>> THEN {i} ELSE {k \in DOMAIN names : names[k] = cols[i].name}
        Latest(i) == CHOOSE k \in Given(i) : \A j \in Given(i) : j <= k
    IN [i \in DOMAIN cols |->
            IF Given(i) = {} THEN ZeroOf(cols[i].type) ELSE EvalAs(exprs[Latest(i)], cols[i].type)]

\* NextSequenceValue: without a transaction, page 0 is written past the log.
Draw(w, t, column, inTx, last) ==
    LET seq == w.tables[t].seq
        n == Wrap((IF column \in DOMAIN seq THEN seq[column] ELSE 0) + 1)
    IN Persist([w EXCEPT !.tables[t].seq = Put(@, column, n)], inTx, last)

\* fillAutoIncrement: a counter replaces the value 0.
Fill(w, t, row, inTx, last) ==
    LET cols == Schema(w, t)
        Next(acc, i) ==
            IF ~cols[i].auto \/ cols[i].type # "int" \/ acc.row[i][2] # 0 THEN acc
            ELSE LET drawn == Draw(acc.world, t, cols[i].name, inTx, last) IN
                 [world |-> drawn,
                  row |-> [acc.row EXCEPT ![i] = Integer(drawn.tables[t].seq[cols[i].name])]]
    IN FoldLeft(Next, [world |-> w, row |-> row], [i \in DOMAIN cols |-> i])

\* Whether a live row has the id of a new one.  valuesEqual compares INT,
\* FLOAT and VARCHAR only.
Duplicate(w, t, row) ==
    LET cols == Schema(w, t)  id == Column(cols, "id")  rows == ReadRecords(w, t) IN
    /\ HasColumn(cols, "id")
    /\ row[id][1] \in {"int", "float", "varchar"}
    /\ \E i \in DOMAIN rows : rows[i][id] = row[id]

\* table.InsertRecord: the last page of the chain, or a new one.
Placed(w, t, row) ==
    LET pages == Pages(w, t)
        slot  == [row |-> row, deleted |-> FALSE]
        full  == Len(pages[Len(pages)].slots) >= RowsPerPage
    IN [pages |-> IF full THEN Append(pages, [id |-> w.next, slots |-> <<slot>>])
                  ELSE [pages EXCEPT ![Len(pages)].slots = Append(@, slot)],
        page |-> IF full THEN w.next ELSE pages[Len(pages)].id,
        next |-> IF full THEN w.next + 1 ELSE w.next]

InsertRecord(w, t, row, inTx) ==
    LET put == Placed(w, t, row) IN
    AutoCommit(inTx, w,
        IF Duplicate(w, t, row) THEN Failed(w)
        ELSE Done([w EXCEPT !.heap[w.tables[t].first] = put.pages, !.next = put.next,
                            !.tree = Maintained(w, t, row, put.page)], <<>>))

\* executeInsertOne: the values are counted and evaluated before a counter is
\* drawn from.
InsertValues(w, t, row, inTx, last) ==
    LET Inserted(full) == InsertRecord(full.world, t, full.row, inTx) IN
    IF \E i \in DOMAIN row : IsError(row[i]) THEN Failed(w)
    ELSE Inserted(Fill(w, t, row, inTx, last))

InsertOne(w, n, exprs, inTx, last) ==
    LET cols  == Schema(w, n.table)
        width == IF n.columns = <<>> THEN Len(cols) ELSE Len(n.columns)
    IN IF \/ ~Exists(w, n.table)
          \/ Len(exprs) # width
          \/ \E k \in DOMAIN n.columns : ~HasColumn(cols, n.columns[k])
       THEN Failed(w) ELSE InsertValues(w, n.table, RowOf(cols, n.columns, exprs), inTx, last)

\* executeInsert stops at the first row that fails; the rows before it stay.
Insert(w, n, inTx, last) ==
    FoldLeft(LAMBDA r, exprs : IfOk(r, LAMBDA q : InsertOne(q.world, n, exprs, inTx, last)),
             Done(w, <<>>), n.rows)

\* TombstoneRecord: the first live slot with the row's bytes.
Tombstoned(pages, row) ==
    LET at == {<<p, i>> \in (DOMAIN pages) \X (1 .. RowsPerPage) :
                  /\ i \in DOMAIN pages[p].slots
                  /\ pages[p].slots[i] = [row |-> row, deleted |-> FALSE]}
        first == CHOOSE s \in at : \A u \in at : s[1] < u[1] \/ (s[1] = u[1] /\ s[2] <= u[2])
    IN IF at = {} THEN <<>> ELSE [pages EXCEPT ![first[1]].slots[first[2]].deleted = TRUE]

DeleteRecord(w, t, row, inTx) ==
    LET pages == Tombstoned(Pages(w, t), row) IN
    AutoCommit(inTx, w,
        IF pages = <<>> THEN Failed(w)
        ELSE Done([w EXCEPT !.heap[w.tables[t].first] = pages], <<>>))

\* executeDelete: each row for itself.
Delete(w, n, inTx, last) ==
    IfOk(Execute(w, n.child, inTx, last), LAMBDA source :
         FoldLeft(LAMBDA r, row : IfOk(r, LAMBDA q : DeleteRecord(q.world, n.table, row, inTx)),
                  Done(w, <<>>), source.rows))

\* executeUpdate checks and computes the new rows, and writes none of them.
Update(w, n, inTx, last) ==
    LET cols == Schema(w, n.table)
        Assignable(v, type) == v[1] = type \/ (v[1] = "int" /\ type = "float")
        Fits(row, a) == /\ HasColumn(cols, a[1])
                        /\ Assignable(Eval(a[2], row, cols), cols[Column(cols, a[1])].type)
    IN IfOk(Execute(w, n.child, inTx, last), LAMBDA source :
            IF \/ \E a \in n.set : TypeOf(a[2], cols) = "error"
               \/ \E i \in DOMAIN source.rows : \E a \in n.set : ~Fits(source.rows[i], a)
            THEN Failed(w) ELSE Done(w, <<>>))

-----------------------------------------------------------------------------
Execute(w, n, inTx, last) ==
    CASE n.node = "create table" -> CreateTable(w, n, inTx, last)
      [] n.node = "drop table"   -> DropTable(w, n, inTx, last)
      [] n.node = "create index" -> CreateIndex(w, n, inTx, last)
      [] n.node = "drop index"   -> DropIndex(w, n, inTx, last)
      [] n.node = "insert"       -> Insert(w, n, inTx, last)
      [] n.node = "update"       -> Update(w, n, inTx, last)
      [] n.node = "delete"       -> Delete(w, n, inTx, last)
      [] n.node = "project"      -> Project(w, n, inTx, last)
      [] n.node = "filter"       -> Filter(w, n, inTx, last)
      [] n.node \in {"scan", "index scan"} -> Scan(w, n)
      [] n.node = "show tables"  -> ShowTables(w)
      [] n.node = "show indexes" -> ShowIndexes(w, n)
      [] n.node = "error"        -> Failed(w)
=============================================================================
