------------------------------ MODULE HeapTable ------------------------------
(***************************************************************************)
(* One heap table, internal/storage/table/table.go, as TableManager uses   *)
(* it: a linked list of pages of record slots, changed by one transaction  *)
(* at a time in its private workspace, copied into the shared pages one by *)
(* one when it commits, and read meanwhile by a query that has no          *)
(* transaction (tx == nil).  What TransactionManager guarantees is taken   *)
(* from CommittedStore, except that the log may refuse a record: the page  *)
(* is then in the workspace and not in the log, and a restart, which       *)
(* redoes the log, does not find it.                                       *)
(*                                                                         *)
(*   pages     what the pager shows of each page                           *)
(*   nextPage  the next page number to allocate                            *)
(*   status    of the transaction that holds the lock                      *)
(*   work      its dirty pages; NoImage where it has none                  *)
(*   todo      the dirty pages that Commit has still to copy               *)
(*   mylog     the last image of each page that the log has of it          *)
(*   logged    the same of the transactions committed since the last start *)
(*   gaps      where the effect of a refused record is: the transaction    *)
(*             under way, the log of a committed one, or, once a restart   *)
(*             has redone such a log, the pages                            *)
(*   reader    the query: what it is doing, the page it looks at, and the  *)
(*             rows, by their slots, that the table had when it began and  *)
(*             that it has not returned yet                                *)
(***************************************************************************)
EXTENDS Naturals, Sequences, FiniteSets

CONSTANTS
    Records,    \* the serialised records that clients insert
    Size,       \* the length of each record in bytes
    IdOf,       \* the value of each record's "id" column
    HasId,      \* whether the schema has such a column
    PageSize,   \* the bytes of a page
    MaxPages,   \* bound on the pages of the database file
    NoPage,     \* the link of the last page of a table
    NoImage,    \* "the transaction has not written this page"
    AppendFails \* whether the log may refuse a record

PageHeaderSize == 16
FrameSize == 5      \* the deleted flag and the record size

PageId  == 0 .. MaxPages - 1
Catalog == 0        \* the catalog's page, of no table
First   == 1        \* the first page of this table
Slot    == [rec : Records, deleted : BOOLEAN]
Image   == [next : PageId \cup {NoPage}, free : 0 .. PageSize, live : Nat, slots : Seq(Slot)]

ASSUME HeapAssumption ==
    /\ Size \in [Records -> Nat]
    /\ IdOf \in [Records -> Nat]
    /\ HasId \in BOOLEAN /\ AppendFails \in BOOLEAN
    /\ PageSize \in Nat /\ PageSize >= PageHeaderSize
    /\ MaxPages \in Nat /\ MaxPages > First
    /\ NoPage \notin Nat
    /\ NoImage \notin Image

VARIABLES pages, nextPage, status, work, todo, mylog, logged, gaps, reader

txVars == <<status, work, todo>>
logVars == <<mylog, logged, gaps>>
vars == <<pages, nextPage, txVars, logVars, reader>>

TypeOK ==
    /\ pages \in [PageId -> Image]
    /\ nextPage \in First + 1 .. MaxPages
    /\ status \in {"none", "active", "committing"}
    /\ work \in [PageId -> Image \cup {NoImage}]
    /\ todo \in SUBSET PageId
    /\ mylog \in [PageId -> Image \cup {NoImage}]
    /\ logged \in [PageId -> Image \cup {NoImage}]
    /\ gaps \in SUBSET {"open", "log", "pages"}
    /\ reader \in [pc : {"idle", "open", "scan", "done", "astray"},
                   at : PageId, owed : SUBSET (PageId \X Nat)]

-----------------------------------------------------------------------------
(* Pages.  Every operator takes a view: the shared pages or those that the *)
(* transaction sees.                                                       *)

\* A page as AllocatePage makes it, and as initPageHeader leaves it.
Zero  == [next |-> Catalog, free |-> 0, live |-> 0, slots |-> <<>>]
Fresh == [next |-> NoPage, free |-> PageHeaderSize, live |-> 0, slots |-> <<>>]

NoWork == [p \in PageId |-> NoImage]
Merged == [p \in PageId |-> IF work[p] = NoImage THEN pages[p] ELSE work[p]]

TotalSize(r) == Size[r] + FrameSize
TooLarge(r)  == TotalSize(r) > PageSize - PageHeaderSize

\* Mutant: the frame is forgotten.
FitsWithoutFrame(img, r) == img.free + Size[r] <= PageSize

Fits(img, r) == img.free + TotalSize(r) <= PageSize

Adding(img, r) ==
    [next |-> img.next, free |-> img.free + TotalSize(r), live |-> img.live + 1,
     slots |-> Append(img.slots, [rec |-> r, deleted |-> FALSE])]

\* Mutant: deletion takes the slot out of the page.
Removing(img, i) ==
    [next |-> img.next, free |-> img.free, live |-> img.live - 1,
     slots |-> SubSeq(img.slots, 1, i - 1) \o SubSeq(img.slots, i + 1, Len(img.slots))]

Deleting(img, i) ==
    [next |-> img.next, free |-> img.free,
     live |-> IF img.live > 0 THEN img.live - 1 ELSE 0,
     slots |-> [img.slots EXCEPT ![i].deleted = TRUE]]

LinkTo(img, p) == [next |-> p, free |-> img.free, live |-> img.live, slots |-> img.slots]

\* The pages that following the links from a page visits: the least set that
\* holds the page and, with each of its members, the next one.  The chain of
\* the table, and its last page, which New looks for.
Closed(view, S) == \A p \in S : view[p].next \in S \cup {NoPage}
ChainFrom(view, from) ==
    LET closed == {S \in SUBSET PageId : from \in S /\ Closed(view, S)}
    IN  {p \in PageId : \A S \in closed : p \in S}
Chain(view) == ChainFrom(view, First)
LastOf(view) == CHOOSE p \in Chain(view) : view[p].next = NoPage

\* The rows of the table, by their slots; those that hold record r; how many
\* there are of each record.
LiveIn(view, p) == {<<p, i>> : i \in {j \in DOMAIN view[p].slots : ~view[p].slots[j].deleted}}
Live(view) == UNION {LiveIn(view, p) : p \in Chain(view)}
LiveRows(view, r) == {s \in Live(view) : view[s[1]].slots[s[2]].rec = r}
BagOf(view) ==
    LET live == Live(view)
    IN  [r \in Records |-> Cardinality({s \in live : view[s[1]].slots[s[2]].rec = r})]

\* The first live slot that holds r, in the order of the scan.
IsFirst(view, s, r) ==
    /\ s \in LiveRows(view, r)
    /\ \A q \in LiveRows(view, r) :
           IF q[1] = s[1] THEN s[2] <= q[2] ELSE s[1] \notin ChainFrom(view, q[1])

-----------------------------------------------------------------------------
\* CreateTable has committed the empty first page; page 0 is the catalog's.
Init ==
    /\ pages = [p \in PageId |-> IF p = First THEN Fresh ELSE Zero]
    /\ nextPage = First + 1
    /\ status = "none" /\ work = NoWork /\ todo = {}
    /\ mylog = NoWork /\ logged = NoWork /\ gaps = {}
    /\ reader = [pc |-> "idle", at |-> First, owed |-> {}]

\* No restart has redone a log that lacks a record.  (A table of which one has
\* may lead to page 0, the catalog's bytes: no more is modelled of it.)
Intact == "pages" \notin gaps

Begin ==
    /\ status = "none" /\ Intact
    /\ status' = "active"
    /\ UNCHANGED <<pages, nextPage, work, todo, logVars, reader>>

\* Mutant: the check reads the table outside the transaction.
DuplicateOutside(r) ==
    /\ HasId
    /\ \E q \in Records : IdOf[q] = IdOf[r] /\ LiveRows(pages, q) # {}

\* TableManager.InsertRecord compares ids with all rows, in the transaction.
Duplicate(r) ==
    /\ HasId
    /\ \E q \in Records : IdOf[q] = IdOf[r] /\ LiveRows(Merged, q) # {}

\* Mutant: the new page is linked to the first page.
LinkedToFirst(r) ==
    [work EXCEPT ![First] = LinkTo(Merged[First], nextPage),
                 ![nextPage] = Adding(Fresh, r)]

\* The workspace after an insertion on a new page at the end of the chain.
Linked(r) ==
    LET last == LastOf(Merged)
    IN  [work EXCEPT ![last] = LinkTo(Merged[last], nextPage),
                     ![nextPage] = Adding(Fresh, r)]

\* What an insertion puts into the workspace: the record on the last page, or
\* on a new one.
PutRow(r) ==
    /\ status = "active" /\ ~Duplicate(r)
    /\ LET last == LastOf(Merged)
       IN  \/ /\ Fits(Merged[last], r)
              /\ work' = [work EXCEPT ![last] = Adding(Merged[last], r)]
              /\ UNCHANGED nextPage
           \/ /\ ~Fits(Merged[last], r) /\ ~TooLarge(r)
              /\ nextPage < MaxPages
              /\ work' = Linked(r)
              /\ nextPage' = nextPage + 1
    /\ UNCHANGED <<pages, status, todo, logged, reader>>

\* The log has the images of the pages that the step wrote.
Logging == [p \in PageId |-> IF work'[p] = work[p] THEN mylog[p] ELSE work'[p]]

\* Mutant: of a new page the log is given the image of its allocation only.
InsertLoggingAllocation(r) ==
    /\ PutRow(r)
    /\ mylog' = [p \in PageId |-> IF p = nextPage /\ nextPage' # nextPage THEN Zero ELSE Logging[p]]
    /\ UNCHANGED gaps

\* InsertRecord: each page that it wrote has been appended to the log.
Insert(r) ==
    /\ PutRow(r)
    /\ mylog' = Logging
    /\ UNCHANGED gaps

\* The log refuses the last append, that of the page with the record; of a new
\* page it has the zero image that AllocatePage appended.
InsertRefused(r) ==
    /\ AppendFails
    /\ PutRow(r)
    /\ mylog' = IF nextPage' = nextPage THEN mylog ELSE [Logging EXCEPT ![nextPage] = Zero]
    /\ gaps' = gaps \cup {"open"}

\* The log refuses the zero image of the new page, or the old page linked to
\* it.  (The new page is given its header in the workspace itself.)
InsertFails(r) ==
    /\ status = "active" /\ ~Duplicate(r) /\ AppendFails
    /\ LET last == LastOf(Merged)
       IN  /\ ~Fits(Merged[last], r) /\ ~TooLarge(r)
           /\ nextPage < MaxPages
           /\ \/ /\ work' = [work EXCEPT ![nextPage] = Zero]
                 /\ UNCHANGED <<mylog, gaps>>
              \/ /\ work' = [work EXCEPT ![last] = LinkTo(Merged[last], nextPage),
                                         ![nextPage] = Fresh]
                 /\ mylog' = [mylog EXCEPT ![nextPage] = Zero]
                 /\ gaps' = gaps \cup {"open"}
           /\ nextPage' = nextPage + 1
    /\ UNCHANGED <<pages, status, todo, logged, reader>>

\* TombstoneRecord, from DeleteRecord: the first live slot that holds r.
DropRow(r) ==
    /\ status = "active"
    /\ \E s \in LiveRows(Merged, r) :
           /\ IsFirst(Merged, s, r)
           /\ work' = [work EXCEPT ![s[1]] = Deleting(Merged[s[1]], s[2])]
    /\ UNCHANGED <<pages, nextPage, status, todo, logged, reader>>

Delete(r) ==
    /\ DropRow(r)
    /\ mylog' = Logging
    /\ UNCHANGED gaps

DeleteRefused(r) ==
    /\ AppendFails
    /\ DropRow(r)
    /\ mylog' = mylog
    /\ gaps' = gaps \cup {"open"}

\* Mutant: Rollback keeps the dirty pages.
RollbackKeepingPages ==
    /\ status = "active"
    /\ status' = "none"
    /\ mylog' = NoWork
    /\ gaps' = gaps \ {"open"}
    /\ UNCHANGED <<pages, nextPage, work, todo, logged, reader>>

\* Rollback: the workspace goes; allocated pages stay, zero and unlinked.
Rollback ==
    /\ status = "active"
    /\ status' = "none"
    /\ work' = NoWork
    /\ mylog' = NoWork
    /\ gaps' = gaps \ {"open"}
    /\ UNCHANGED <<pages, nextPage, todo, logged, reader>>

\* Commit, once its COMMIT record is durable ...
CommitLogged ==
    /\ status = "active"
    /\ status' = "committing"
    /\ todo' = {p \in PageId : work[p] # NoImage}
    /\ logged' = [p \in PageId |-> IF mylog[p] = NoImage THEN logged[p] ELSE mylog[p]]
    /\ mylog' = NoWork
    /\ gaps' = {IF g = "open" THEN "log" ELSE g : g \in gaps}
    /\ UNCHANGED <<pages, nextPage, work, reader>>

\* ... copies the dirty pages in the order of a Go map ...
CommitWrite(p) ==
    /\ status = "committing" /\ p \in todo
    /\ pages' = [pages EXCEPT ![p] = work[p]]
    /\ todo' = todo \ {p}
    /\ UNCHANGED <<nextPage, status, work, logVars, reader>>

\* ... and returns.
CommitEnds ==
    /\ status = "committing" /\ todo = {}
    /\ status' = "none"
    /\ work' = NoWork
    /\ UNCHANGED <<pages, nextPage, todo, logVars, reader>>

\* What Recover makes of the pages: those it redoes have the logged images.
Replayed == [p \in PageId |-> IF logged[p] = NoImage THEN pages[p] ELSE logged[p]]

\* The process stops, at any point, and starts again: the log is redone and
\* emptied, and what no COMMIT record covers is gone.  (A page write cut short
\* is repaired by the log, unless it lacks the page: a gap.)
Restart ==
    /\ Intact
    /\ pages' = Replayed
    /\ status' = "none" /\ work' = NoWork /\ todo' = {}
    /\ mylog' = NoWork /\ logged' = NoWork
    /\ gaps' = IF "log" \in gaps THEN {"pages"} ELSE {}
    /\ reader' = [pc |-> "idle", at |-> First, owed |-> {}]
    /\ UNCHANGED nextPage

-----------------------------------------------------------------------------
(* ReadRecords with tx == nil, page by page through the pager.             *)

ReadStart ==
    /\ reader.pc \in {"idle", "done"} /\ Intact
    /\ reader' = [pc |-> "open", at |-> First, owed |-> Live(pages)]
    /\ UNCHANGED <<pages, nextPage, txVars, logVars>>

\* New follows the links to the last page.
ReadOpen ==
    /\ reader.pc = "open"
    /\ LET next == pages[reader.at].next
       IN  reader' = IF next = NoPage THEN [reader EXCEPT !.pc = "scan", !.at = First]
                     ELSE IF next = Catalog THEN [reader EXCEPT !.pc = "astray"]
                     ELSE [reader EXCEPT !.at = next]
    /\ UNCHANGED <<pages, nextPage, txVars, logVars>>

\* ReadAll takes the live rows of a page and goes to the next one.
ReadScan ==
    /\ reader.pc = "scan"
    /\ LET next == pages[reader.at].next
           owed == reader.owed \ LiveIn(pages, reader.at)
       IN  reader' = IF next = NoPage THEN [reader EXCEPT !.pc = "done", !.owed = owed]
                     ELSE IF next = Catalog THEN [reader EXCEPT !.pc = "astray", !.owed = owed]
                     ELSE [reader EXCEPT !.at = next, !.owed = owed]
    /\ UNCHANGED <<pages, nextPage, txVars, logVars>>

TxNext ==
    \/ Begin \/ Rollback \/ CommitLogged \/ CommitEnds
    \/ \E r \in Records : Insert(r) \/ InsertRefused(r) \/ InsertFails(r)
    \/ \E r \in Records : Delete(r) \/ DeleteRefused(r)
    \/ \E p \in PageId : CommitWrite(p)
Next == TxNext \/ Restart \/ ReadStart \/ ReadOpen \/ ReadScan

Spec == Init /\ [][Next]_vars

-----------------------------------------------------------------------------
(* Properties.                                                             *)

\* A page with a header, of this table or of none yet.
HasHeader(img) == img.free >= PageHeaderSize

\* Each link leads to a later page, which has a header, and no page has two
\* predecessors: the chain ends, and nothing falls out of it.
LinksAreSound(view) ==
    /\ HasHeader(view[First])
    /\ \A p \in PageId : HasHeader(view[p]) /\ view[p].next # NoPage =>
           /\ p < view[p].next /\ view[p].next < nextPage
           /\ HasHeader(view[view[p].next])
    /\ \A p, q \in PageId :
           /\ HasHeader(view[p]) /\ HasHeader(view[q])
           /\ view[p].next = view[q].next
           => p = q

\* It is so in the shared pages between commits, and in a transaction's view
\* at all times, whatever records the log refused and wherever the process was
\* stopped; except after a restart once a record has been refused to a
\* transaction that then committed, when a link may lead to a page of zeros.
ChainIsSound ==
    Intact =>
        /\ status # "committing" => LinksAreSound(pages)
        /\ LinksAreSound(Merged)

\* "Ensure that no more than 1 record with the same ID can exist in the table."
IdsAreUnique ==
    HasId /\ Intact => \A s, u \in Live(Merged) :
        IdOf[Merged[s[1]].slots[s[2]].rec] = IdOf[Merged[u[1]].slots[u[2]].rec] => s = u

\* A row stays in its slot for good, even when it is deleted and over restarts
\* of a log without gaps: index entries name the page of a row.
RowsStay ==
    [][Intact' => \A p \in PageId : \A i \in DOMAIN pages[p].slots :
           /\ i \in DOMAIN pages'[p].slots
           /\ pages'[p].slots[i].rec = pages[p].slots[i].rec
           /\ pages[p].slots[i].deleted => pages'[p].slots[i].deleted]_vars

\* A query without a transaction, which may see half of a commit, misses no
\* row that was there when it began and still is when it ends.
ReaderMissesNothing ==
    reader.pc = "done" => \A s \in reader.owed : pages[s[1]].slots[s[2]].deleted

-----------------------------------------------------------------------------
\* The refinement mapping to RowStore: the rows are those of the shared pages,
\* from the moment of the COMMIT record with those of the transaction.
Rows == INSTANCE RowStore WITH
    rows <- BagOf(IF status = "committing" THEN Merged ELSE pages),
    mine <- BagOf(Merged),
    open <- status = "active"

\* To transactions, the table is a bag of rows that each of them changes as a
\* whole, and that a restart keeps, until one redoes a log with a gap.  (A
\* statement the log refuses may still have inserted or deleted its row.)
\* (Rows are read off the pages and the workspace only.)
ImplementsRows ==
    Rows!Init /\ [][Intact' => UNCHANGED <<pages, txVars>> \/ Rows!Next]_(Rows!rowVars)
=============================================================================
