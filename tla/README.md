# FlamingoDB in TLA+

A verification project for FlamingoDB, the embedded and networked SQL database in `src/`: TLA+ modules that
model its storage engine, its server and the way of a statement from text to rows, TLC configurations that check
them on small instances, and proofs that TLAPS checks for instances of every size. `PROJECT.json` says which lines of the source each definition stands for.

## 1. The system

### Layers

    cmd/flamingo, cmd/flamingodbd, engine.go                 wiring: open and close the layers in order
    internal/network  server.go, users.go, ai.go, mcp*.go    TCP and HTTP sessions, users, policies, MCP bridge
    internal/parser, planner, optimizer, executor            SQL text -> AST -> plan -> rows
    internal/storage/catalog  catalog.go, table_manager.go   tables, sequences, index metadata on page 0
    internal/storage/table    table.go                       heap tables: a linked list of pages of records
    internal/index/btree      btree.go                       secondary indexes
    internal/transaction      manager.go, transaction.go     transactions, commit, rollback, recovery
    internal/storage/pager, disk, page; internal/wal         page cache, database file, write-ahead log

A statement travels down: `Server.ProcessQuery` parses, plans and hands a plan to the executor, which calls the
table manager; the table manager opens a heap table or a B+tree on the pages the catalog names and, for a write
outside an explicit transaction, wraps the call in `Begin` ... `Commit`. All page accesses end in
`TransactionManager.FetchPage/WritePage/AllocatePage` (with a transaction, or with `tx == nil`, which goes
straight to the pager), and those in the pager, the file and the log.

### Components: state, operations, what makes them correct

| Component | State | Operations that change it | What must hold |
|---|---|---|---|
| Disk manager, page | the file, an array of 4 KiB images, and its size | `ReadPage`, `WritePage` (WriteAt + fsync) | a write is whole, absent or torn; size only grows |
| Pager | `pages` (cache), `nextPageID`, one mutex | `New`, `FetchPage`, `WritePage`, `AllocatePage`, `FlushAll`, `Evict` | cache agrees with the file; no page number is handed out twice |
| Write-ahead log | the file, its fsynced prefix | `Append`, `Sync`, `Truncate`, `ReadAllRecords` | a reader gets a prefix of what was appended; synced records survive |
| Transaction manager | `globalLock`, `nextTxID`, each transaction's state and dirty pages | `Begin`, `Commit`, `Rollback`, `FetchPage`, `WritePage`, `AllocatePage`, `Recover` | serial transactions, atomic and durable commit, NO-STEAL, write-ahead, idempotent recovery |
| Heap table | per page: next link, record count, free offset, slots | `New`, `InsertRecord`, `ReadAll`, `ReadAllLive`, `TombstoneRecord` | a table is the bag of its inserted and not deleted records; the chain is finite |
| B+tree | nodes on pages, a root, leaf links | `Insert`, splits, `Search`, `RangeScan` | an ordered map of what was inserted; search finds every key |
| Catalog | table map in memory, its image on page 0 | `CreateTable`, `DropTable`, `Reload`, `persist` | memory and page 0 agree when no transaction is open |
| Table manager | session bindings, sequences in the catalog | `CreateTable`, `InsertRecord`, `DeleteRecord`, `CreateIndex`, `NextSequenceValue`, ... | auto-commit statements are atomic; sequence values are never drawn twice; indexes agree with tables |
| Network server | connections, connection semaphore, HTTP transaction map | accept loop, handlers, `TxBegin/Commit/Rollback`, expiry loop, `Close` | the lock always comes back; shutdown ends; a transaction is finished once |
| User, policy and model stores | a map in memory and a JSON file each | create, delete, update, save, load | an administrator remains; a restart gives back what was saved |
| MCP client, AI models | pending requests, two pipes, a child process | `CallModel`, `sendRequest`, `readLoop`, `RunMCPServer` | every answer reaches its request; a chat ends |
| Parser | the position in a text | `ParseProgram`, one function per statement | a text is read as it is written, or refused |
| Planner, optimizer | none | `Plan`, `Optimize` | an index adds no row to an answer |
| Executor, data types, functions | none between calls | `ExecuteWithTx`, one function per plan node | values have the types that were promised for them |

### What is hard here

* **Crashes.** A page write, an append, a commit's series of page writes, `FlushAll` and recovery itself can stop
  anywhere. Unsynced log records may or may not survive; `Truncate` does not fsync, so an old log may come back
  and be replayed over pages that have moved on; transaction numbers restart at 1 in every process.
* **Failing I/O.** Every `Append`, `Sync` and page write can return an error between two state changes of `Begin`,
  `Commit`, `WritePage` and `AllocatePage`.
* **A lock across calls.** `globalLock` is taken in `Begin` and released in a later `Commit` or `Rollback`, often on
  another goroutine (HTTP requests, the expiry loop, `Close`).
* **State outside the transaction.** Page allocation, all B+tree pages, sequences and the in-memory catalog change
  at once, whatever becomes of the transaction they belong to.
* **Several pages for one change.** A new heap page and its link, a B+tree split and its parent, a catalog entry and
  the page it names: a reader, a failure or a crash can come between them.
* **Two opinions.** The type of an expression is decided before there is a row and again when it has a value; an index
  is known by its name until page 0 is read again and by its column from then on; a table map and page 0 are written
  one after the other.
* **Somebody else's process.** A chat waits for answers of a child process, which may break, or never answer.

The full list, line by line, is `hazards` in `PROJECT.json`.

## 2. The modules

| Module | Models | State and actions |
|---|---|---|
| `Storage` | `page.go`, identifiers | constants and value sets only |
| `Pager` | `pager.go`, `disk_manager.go` | `disk`, `size`, `cache`, `nextPageID`; one operator per method and one per failing method |
| `WAL` | `wal.go` | `wal`, `synced`, `stale`; `Append`, `Sync`, `Truncate`, what a crash leaves (`Survivors`), what a reader returns (`Readable`) |
| `TransactionManager` | `manager.go`, `transaction.go`, recovery at start-up | composes `Pager` and `WAL`; one action per method, `Commit` and `Recover` one action per I/O step |
| `CommittedStore` | the abstract specification | a map of committed pages, one workspace; `Commit` is a single step |
| `MCTransactionManager` | TLC instances of the above | |
| `HeapTable` | `table.go`, and how `TableManager` inserts, deletes and reads rows | the shared `pages`, `nextPage`, the transaction (`status`, `work`, `todo`), the log (`mylog`, `logged`, `gaps`), the `reader`; one action per operation, `Commit` and the reader one per page |
| `RowStore` | the abstract specification | a bag of rows, and the bag that the open transaction sees |
| `MCHeapTable` | TLC instances of the above | |
| `BTree` | `btree.go`, and the roots that `CreateIndex` and `InsertRecord` give it | `pages`, `nextPage`, `rootID`, `catRoot`, the writes an insertion has still to make (`queue`, `climb`); one action per page write and per level |
| `MCBTree` | TLC instances of the above | |
| `Server` | `server.go`: TCP handlers, HTTP transactions, expiry loop, `Close` | `lock`, `conn`, `acceptor`, `permits`, `tcpWg`, `tcpConns`, `request`, `httpTxMap`, `stale`, `loop`, `closing`; one action per step between two waits |
| `Expressions` | the expressions of `executor.go`, `functions.go`, `geospatial.go` | operators: static types, values, functions |
| `Parser` | `parser.go` over lexemes | operators: one per parsing function, with the position they leave and a verdict |
| `Planner` | `planner.go`, `optimizer.go` | operators: statement to plan, plan to index scan |
| `Executor` | `executor.go`, and what it calls of `table_manager.go`, for one session | operators from a world (tables, page 0, heap, trees) to the next one |
| `Query` | `ProcessQuery` and a TCP session around it | `world`, `before`, `status`, `text`, `program`, `answers`; one action per statement parsed and per statement executed |
| `MCQuery` | TLC instances of the above: the texts | |
| `Catalog` | `catalog.go`, sequences and DDL of `table_manager.go`, between sessions | `memory`, `page0`, `private`, `appended`, `logged`, `owner`, `rows`; one action per step between two locks |
| `MCCatalog` | TLC instances of the above: what is interchangeable | |
| `Accounts` | `users.go`, the stores of `ai.go`, and the handlers that change them | `users`, `policies`, `models`, `file`, `pc`; a handler asks, resolves a policy and applies |
| `Chat` | `CallModel`, `mcp_client.go`, `RunMCPServer` | `step`, `pending`, `answer`, `stdin`, `stdout`, `reader`, `child`; handler, reader and process take turns |
| `TransactionManagerProofs`, `DurabilityProofs` | theorems and lemmas about `TransactionManager`, the second module on top of the first | |
| `HeapProofs` | the same, for `HeapTable` | |
| `BTreeProofs`, `ServerProofs`, `CatalogProofs`, `AccountsProofs`, `ChatProofs` | the same, for `BTree`, `Server`, `Catalog`, `Accounts` and `Chat` | |

### How the model corresponds to the code

`TransactionManager`, `Pager` and `WAL`:

* A page image is a model value: these layers never look into one. `Zero` is the image of a fresh page, `Torn` the
  mix of two images that an interrupted 4 KiB write leaves.
* Every pager call holds `Pager.mu` throughout (`FetchPage` re-checks the map after it has the lock), so it is one
  step. `Commit` releases and retakes that mutex between its page writes, so it is a sequence of steps, in which
  readers and index code may come in between; `TransactionManager.mu`, which `Begin`, `Commit` and `Rollback` hold,
  keeps those three apart, and `Transaction.mu` keeps a transaction's own page operations out of its `Commit`.
* `Begin` waits for `globalLock`: the action is enabled only when it is free.
* A BEGIN or ABORT record and the fsync after it are one step: recovery ignores those records.
* `Commit` writes the dirty pages in the order of a Go map, that is, in any order (`\E p \in todo`).
* A crash keeps the synced prefix of the log, any part of the unsynced tail, and perhaps a cut-short record; or,
  after an unsynced `Truncate`, the log as it was before. The page write under way is done, not done or torn.
* A regular `Close` writes nothing that the model's `Crash` with the whole log surviving does not, so it is not an
  action of its own.
* `Recover` returns its first I/O error to `main`, which exits: that is a `Crash`.
* Transactions write heap and catalog pages, index code writes the pages it allocated, with `tx == nil`; here a page
  belongs to one or the other (`indexPages`). The callers keep to this but for page 0, which `persist(nil)` writes past the
  log: `CrashSafe`, `NoSteal`, `RepeatableReads` and `ImplementsStore` say nothing of page 0 under that bypass, which is
  modelled in `Catalog` and `Executor`.
* A start whose log `ReadAllRecords` refuses ends with its error (`OpenFails`). The log stays as it is, so each
  further start is refused in the same way, and the model has no way out of that mode.

`HeapTable`:

* `HeapTable` stands on what `CommittedStore` promises: one transaction at a time with a workspace that appears as a
  whole. A page is a record of its header fields and the sequence of its slots; what the bytes matter for, the sizes
  of records, frames and pages, stays a number.
* The log is kept as the last image that it has of each page: `mylog` for the transaction under way, `logged` for those
  committed since the last start. Where it refuses a record (`InsertRefused`, `InsertFails`, `DeleteRefused`) the page is in
  the workspace only, which `gaps` remembers: in the transaction under way, and once that commits, in the log. `Restart` may
  come at any time, redoes `logged` and empties it. If the log has a gap then, a link may have come to the file while the
  page that it leads to becomes the zero image of its allocation again, and its next link leads to page 0. The table ends
  there for the model (`Intact`), and for its properties. A gap counts as one even when a later record covers its page.
* `AllocatePage` returns the very page that it put into the workspace, so `initPageHeader` reaches the workspace before
  anything is logged; `WritePage` copies the page before it appends to the log. Both decide what is left of an
  insertion that the log refuses; the transaction may go on after it, as explicit transactions do.
* A query without a transaction (`tx == nil`) reads page after page through the pager, first in `New`, which follows the
  links to the last page, then in `ReadAll`; between any two pages a transaction may write, commit or copy a page.

`BTree`:

* One insertion at a time, by the holder of `globalLock`. Each `writeNode` is a step, because index pages are outside the
  transaction and other goroutines search while it goes on. The nodes are computed when their step begins, as the code
  does on nodes it has in memory; `queue` holds them in the order in which the code writes them.
* Keys are numbers (their comparison is), values are heap pages, and a node is what `deserialiseNode` returns. A page
  that was allocated and not written reads as an internal node without keys whose only child is page 0. Sizes stay
  numbers, since `order` computes the capacity of a node from them.
* `RootInUse` is the root that a query starts from: that of the tree in `CreateIndex` until it stores it in the catalog
  (`Register`), then what the catalog says, whatever root a later insertion has made.

`Server`:

* A step runs from one wait to the next: the network, the lock, the semaphore, the wait group or the clock. A transaction
  is its owner: a connection, a statement of a request, or the id of an HTTP transaction.
* What a transaction does is left to `TransactionManager`; here a call to `Commit` or `Rollback` gives the lock back or
  fails. A TCP handler keeps a transaction whose `Commit` failed; all others forget it (`lost`).
* A statement that takes no lock is no step. The two seconds of `Shutdown` and the 15 seconds of the expiry loop may pass
  at any time.

`Expressions`, `Parser`, `Planner`, `Executor` and `Query`:

* The first four have no state of their own, as the code has none between calls: their operators are composed by `Query` in
  the order in which `ProcessQuery` calls the functions. An error while parsing drops the whole text; an error while
  executing is the answer of its statement, and the next one is executed.
* A text is a sequence of lexemes. The parsing functions keep the code's convention that the current token is the last
  one they have used, so that what follows a statement is skipped or refused as in the code. A text that makes a
  loop go on for ever has the verdict "hangs".
* A value has its type and the field for it; `Field` gives 0 for another field, as Go does. Integers wrap around at `IntBits`,
  floats are multiples of 1/`Unit`, and `math.Sin` and the like are a parameter, `Real`.
* A world has the catalog in memory and on page 0 apart, since `serialize` does not write the names of indexes and
  `persist(nil)` goes past the log; `Restart` and `RolledBack` read page 0 again. Index entries are written outside
  transactions and remain. A heap page holds `RowsPerPage` rows, and a tree is a map from keys to pages: their
  insides are those of `HeapTable` and `BTree`.
* Go maps are iterated in any order: which of two indexes on one column page 0 keeps is a choice (`last`).

`Catalog`:

* Several sessions, each between two of its steps. The catalog's lock is held only within a step, so others come in
  between the change of the map, the image that `persist` makes of it, the write of page 0 and the row. `NextSequenceValue`
  has no lock at all: reading the counter and writing it are two steps.
* A pointer to a table's metadata that `Reload` or `DropTable` has replaced is still written through (`Orphans`).
* A transaction is what `CommittedStore` promises; only page 0 and the ids of rows are kept of its pages.
* `serialize` writes into a buffer of 8192 bytes and panics beyond, and `CopyData` puts into page 0 what it can hold: what
  is beyond is cut off without an error (`Bytes`). A page that was cut (`Cut`) is one that `deserializeCatalog` refuses: `Reload` then
  returns its error and keeps the map as it is (`ReloadFails`), and a restart refuses to start (`Down`). The size of a
  catalog is the number of its tables and of the counters drawn from, `PageRoom` and `BufferRoom` are in the same measure.
* `persist` may fail before or after page 0 is in the workspace (`Refused`, `DrawFails`). In a transaction of its own the
  statement is rolled back; an explicit one goes on, and may commit what it has.
* An `INSERT` that names an id keeps it, and the counter stays as it is (`StartGiven`). The next one that draws may then draw an
  id that is there, and is refused, in one session and without a restart: a counter keeps up only with the ids that it gave.
  The check for duplicates is made for a column named `id`; an AUTO_INCREMENT column of another name has none, and
  `IdsAreUnique` says nothing of it.

`Accounts`: a handler checks its caller's right, copies a named policy and takes the store's lock in three steps; a save
truncates the file and then writes it, so that one that fails leaves it old or torn, and the map is not changed back.

`Chat`: the handler, `readLoop` and the process are three parties with two pipes. `sendRequest` registers a request before
it writes it; nothing but an answer of that id ends the wait.

### Simplifications

A page write that a crash cuts short is repaired by the log, or its page is missing there, which is a gap of `HeapTable`. The
page 0 that `persist(nil)` writes past the log is written as a whole or not at all in `Catalog`, although nothing could
repair it. The sessions of `Catalog` are TCP sessions, in which a panic ends the process (`net/http` would catch it).

An insertion into a `BTree` that fails is not continued: what later insertions make of a tree that is half changed is left
open. `serialiseNode` changes the cached page in place, so that a reader could even see half a node; a node write is
one step here. When a node has no room in its page the code panics; the model stops there.

In `Server`, a connection without a permit, a failing `Begin` and requests that are still in a connection's buffer when it
is closed are left out: they end where they began. A second statement of one request waits for the lock like the first.

An fsync that fails and later succeeds is taken to have made everything durable. A torn write of an index page,
which has no log record, is left out (nothing in the code could repair it). The bypass by which the table manager
writes page 0 without a transaction is in `Catalog` and `Executor` and not here. A committed `Transaction` is garbage
for its owner, so its dirty pages are emptied in the step that commits it.

In `Query` names have one case (the code compares some of them without regard to it), and the texts compare an INT index with
INT literals: with a FLOAT one `castValue` fails, and with it the statement. `CROSS` takes and gives a text, as in the code, where
the README (206) of the repository says vectors. There is one session; `Catalog` has several but no columns and no indexes. Start-up saves what the stores of
`Accounts` add to a file, which the next start would add again, so `file` does not show it. The provider of a model is one
step with any outcome, since its calls have a timeout. A chat's process opens the same database files as the server: what
the two do to each other's pages is not modelled.

## 3. What TLC checks

| Run | Instance | Properties |
|---|---|---|
| `tx_crash` | 2 pages, 2 images, 2 transactions per process, logs of 7 records, 2 crashes, 1 index page, no failing call | `TypeOK`, `WriteAhead`, `CrashSafe`, `RedoStaysInBounds`, `NoSteal`, `RepeatableReads`, `ImplementsStore` |
| `tx_faults` | 2 pages, 1 image, 2 transactions, logs of 5 records, 1 crash, every call may fail | `LockDiscipline`, `RedoStaysInBounds`, `CommitEnds`, `RecoveryEnds` |
| `tx_rollback` | as above, `Sync` may fail | finds `RollbackDiscards` violated |
| `heap` | 4 pages of 64 bytes, three records of two ids that fill a page alone or by two to the last byte, or fit but for their frame; every append may fail; a restart at any point; a reader | `TypeOK`, `ChainIsSound`, `IdsAreUnique`, `ReaderMissesNothing`, `RowsStay`, `ImplementsRows` |
| `btree` | 8 keys in every order, 2 keys per node, 15 pages of 36 bytes or of 32, at most 3 splits per insertion | `TypeOK`, `IndexIsMap`, `ScansAreComplete`, `TreeIsSound`, `SearchNeverLies`, `EitherEnds` |
| `btree_root` | 4 keys | finds `ScansFindAll` violated |
| `server` | 3 clients, 2 permits, 1 HTTP request at a time, 2 HTTP transactions, every call may fail | `TypeOK`, `CountsAgree`, `MapHoldsTheLock`, `LockIsReachable`, `AbandonedTxEnds`, `CloseEndsOrHangs` |
| `query` | a table of every type and one with a counter; one text of all that `MCQuery` lists, or three that change a table or its indexes; 4-bit integers, halves, 2 rows per page | `OptimizerAddsNothing`, `IndexKnowsEveryKey`, `ReadsWhatIsWritten`, `AnswersAreTyped` |
| `comparisons` | the same | finds `ComparisonsAreNumeric` violated |
| `catalog` | 2 sessions, 3 names, 4 statements, 1 crash, room for 2 on page 0 and for 3 in the buffer, 1 id that is named, every call of `persist` and `Reload` may fail | `CatalogIsTransactional`, `CountersRunAhead`, `IdsAreUnique` |
| `accounts` | 2 handlers, 2 accounts, 2 policies, 1 model, 4 requests, 1 failing save, any number of restarts | `LastAdminStays`, `RestartKeepsWhatWasSaved` |
| `chat` | 5 tools, a process that may break | `AnswersMatch`, `ChatEnds` |

* `LockDiscipline`: one active transaction, the lock held exactly while there is one, on every error path.
* `WriteAhead`: once `Commit` may write pages, the durable log holds the COMMIT record and the image of each of them.
* `CrashSafe`: between calls, whatever log a crash would leave, replaying it over the file gives the pages that readers
  see now. Its hard cases are an old log that returns after an unsynced `Truncate` and a half-written `Commit`.
* `RedoStaysInBounds`: recovery never writes a page beyond the file or one that index code owns, although page numbers
  are recomputed from the file size and pages are allocated outside transactions.
* `NoSteal`: an existing page changes in the file only to what the durable log commits.
* `RepeatableReads`: nothing a transaction can read changes under it.
* `ImplementsStore`: the whole implements `CommittedStore` under the mapping *store = the file with the durable log
  replayed*: a commit takes effect at the fsync of its COMMIT record, all pages at once.
* `CommitEnds`, `RecoveryEnds`: liveness, below.
* `ChainIsSound`: links lead to later pages with headers, and no page has two predecessors: scans end and no page falls
  out of the chain. It is so in the running process whatever records the log has refused, after a rollback of what it has
  refused, and after restarts. The exception, here and in the other properties of a table, is a restart once a transaction has
  committed although the log had refused it a record (`Intact`): the code then has links to pages of zeros.
* `RowsStay`: rows keep their slots, deleted or not, also over a restart; index entries name the page of a row.
* `ReaderMissesNothing`: a query without a transaction, to which half of a commit is visible, still returns every row
  that was there when it began and is there when it ends (if it is not led astray, see the findings).
* `IdsAreUnique`: no two rows have one id, although check and insertion are two scans.
* `ImplementsRows`: to transactions a table implements `RowStore`.
* `IndexIsMap`, `ScansAreComplete`: between insertions, while the catalog knows the root, a search finds what was last
  inserted for a key, and a range scan all of the range in order.
* `TreeIsSound`: separators, parents and leaf links agree, also below a root that the catalog does not know. The parent
  links are what a later split goes by.
* `SearchNeverLies`: in the middle of a split, after a failed write or from a root that is none any more, a search finds
  the right value or none.
* `EitherEnds`: an insertion ends; its splits climb to the root and no further. The instance has pages with and without the
  four bytes that `order` does not count for an inner node (`Tight`). Where they lack, as on those of 4096 and of 8192 bytes with
  INT keys, and on those of 4096 with FLOAT keys, an insertion that fills an inner node panics instead (`Panics`). The
  property excepts that: this is a bug of the code, which it does not catch but confines to such pages.
* `CountsAgree`: semaphore and wait group count the handlers through all interleavings of accepting, leaving and closing,
  and until `Close` forgets the connections it can find each of them.
* `MapHoldsTheLock`: an HTTP transaction in the map has the lock, so that client, expiry loop and `Close` end it once.
* `LockIsReachable`: the lock is free or in the hands of somebody who will give it back or can be asked to.
* `AbandonedTxEnds`: an HTTP client that goes away does not keep the lock, nor does one that waits for its own lock in a
  statement outside its transaction: every HTTP transaction ends unless it is used again and again, the server
  closes, or a call fails.
* `CloseEndsOrHangs`: `Close` ends, unless a handler waits for the lock of an HTTP transaction (`Blocked`) or for a client
  that was accepted after `Close` had looked for connections (`Overlooked`). Both do happen.

* `ReadsWhatIsWritten`: a statement is parsed to the tokens it is written with, and groups operators by precedence and from
  the left; only a `KEY` without `PRIMARY` keeps the parser for ever.
* `AnswersAreTyped`: each value of an answer or of a stored row has the type that was promised before there was a row.
* `OptimizerAddsNothing`: a query that uses an index returns no row more often than one that scans the table, although
  entries outlive their rows and the pages that a rollback takes back.
* `IndexKnowsEveryKey`: every row's key is in every index that insertions have not passed over, whatever was rolled back,
  deleted or undone by a crash. Those that were passed over are the known case of the index map (below).
* `CatalogIsTransactional`: as long as two sessions do not work on the catalog at once, table map and page 0 change by whole
  transactions, also through rollback, reload, restart, and a `persist` that fails in a transaction that is then rolled back.
  Three things end it (`marred`), and all three are what the code does: page 0 is written with a catalog that does not fit, a
  `Reload` fails, or a transaction commits although `persist` failed for one of its statements. The bounds let each happen.
* `CountersRunAhead`: a counter is not behind the ids that were drawn from it, unless sessions drew at once or a restart
  replayed an older page 0. Both happen; then the next `INSERT` is refused, which is why `IdsAreUnique` of `Catalog` still
  holds: of two sessions that draw the same value one is refused. So it is with an id that an earlier `INSERT` had named:
  of those the counter, and so the property, knows nothing (`given`).
* `LastAdminStays`: the last administrator goes only by an `UpdatePolicy`, which has no check, or by a restart after a failed
  save; requests that delete two administrators at once leave one.
* `RestartKeepsWhatWasSaved`: a restart gives back every account, policy and model unless the last save of its store failed.
* `AnswersMatch`: a request is answered by its own answer, although the process also answers the notification.
* `ChatEnds`: a chat ends, and its process and `readLoop` after it, unless the process or `readLoop` broke while it waited:
  `sendRequest` has no timeout, and `readLoop` ends without a word to those who wait.

**Bounds.** `MaxPages`, `MaxTx`, `MaxLog`, `MaxCrashes` and `IndexPageLimit` bound the counters in the guards of the
actions. Two pages are enough for a commit that is half written and for a page that is allocated and then rolled
back; two transactions per process for a number that is reused after a restart; seven records for a
transaction with two updates after one with an update, or for a log that grows behind a replayed one; two crashes for a
crash in the middle of recovery. Three pages of a table are enough for a chain with a first, a middle and a last page, a
page that is allocated and not linked, and a reader between them. `MaxKey`, `MaxPages` and `MaxSplits` bound a tree: with
two keys per node, eight keys split an internal node that is not the root, and 15 pages hold every tree of them. Once the
catalog has lost the root, no key is inserted twice: what the code then does depends on which of two leaves it finds. Three
clients for two permits let one take the permit of another; a second request at a time would only wait for the lock like
the first, and the ids of ended HTTP transactions are used again. `MaxTexts` bounds the texts that follow one another in
`query`: an index, a row and a deletion or a second index, with `BEGIN`, `COMMIT`, `ROLLBACK` and restarts between them; two
rows fill a page, so the third goes to a new one. The texts that are sent alone put every operator and every function on
every type of column and on literals, chains of three operators, every kind of array, every clause, and texts with a
token missing. `IntBits` 4 lets sums and products overflow. `MaxStatements` 4 lets two sessions draw twice each, or a table
be dropped and made anew between two draws; three names, or two of which one was drawn from, are one too many for page 0, and
three of which one was drawn from for the buffer of `serialize`, as some hundred tables are for 8192 bytes; names and sessions
are interchangeable; `MaxRequests` 4 lets two accounts be made administrators and delete one
another; `MaxLoops` is that of the code. Images are interchangeable, hence the symmetry of `tx_crash` (no liveness is checked
there). The runs disable the deadlock check: a behaviour legitimately stops when all bounds are used up,
and a server when it is closed and its clients are gone, a chat when it is over or waits for a broken process. Those of `query`
and `accounts` check it: a process can always be restarted.

**Fairness.** `FairSpec` assumes weak fairness of the steps that `Commit` and `Recover` take by themselves: a
goroutine that has started one of them runs on until it returns, as the Go scheduler guarantees (the mutexes it needs
are released by calls that do not block). The same holds for the writes of an insertion into a `BTree`. In `Chat` the handler and
`readLoop` go on when they can, and so does a process that has a request to answer; it need not break. In `Server`
goroutines run on, time passes, and the expiry loop ticks; who waits for the lock gets it if it is free again and again (strong fairness), as `sync.Mutex` is handed over in turn to those who have
waited for a millisecond. No client is assumed ever to send a request, to call `Commit` or `Rollback`, and no crash to
happen. `RecoveryEnds` holds because crashes are finitely many: every start ends with an open database, or is refused for good because
the log cannot be read (`OpenFails`), which is possible only when it holds a record cut short (`ReadMayFail`).

### Findings

* `tx_rollback`: `Commit` appends the COMMIT record, then `Sync` fails and the error is returned with the transaction
  still active. A `Rollback` then succeeds, but recovery looks for COMMIT records only and redoes the transaction.
* `btree_root`: an insertion of a row loads a tree from the root in the catalog and drops it afterwards, and with it the new
  root that a split of the root made. The catalog keeps the old root, which is now the left half: later insertions put
  great keys there, where a scan takes the first of them for the end of its range, and misses rows.
* `comparisons`: `compareValues` reads the field of the left value's type from both values. `typeOfExpression` lets a FLOAT be
  compared with an INT, whose float field is 0: `f < 3` is answered as `f < 0`.

### Other behaviours that the models show

These need no run: a property excepts them by name, or they are plain in the definition.

* `WritePage` stores the page in the workspace before it appends the UPDATE record. When the append fails the page stays, and
  a later `Commit` writes it without a log record: `WriteAhead` is checked where no call fails, and proved where no
  append does.
* `Commit` copies dirty pages in the order of a Go map. A query without a transaction may follow the link of the old last
  page to a new one that is still zero, whose link reads 0, and so get to page 0, the catalog. `ReaderMissesNothing` and its
  proof except a reader that was led astray.
* `order` uses the formula for leaves for internal nodes, which have one pointer more: with 4096-byte pages an internal node
  of 510 INT or 340 FLOAT keys is four bytes too large, and `serialiseNode` panics; with 8192-byte pages one of 1022 INT keys is,
  while 681 FLOAT keys fit to the last byte. `BTree` stops there (`Panics`), with pages of 32 bytes in half of the run's
  behaviours, and `EitherEnds` excepts it. `NodesHaveRoom` says for which sizes it does not happen.
* A record that the log has refused to a transaction that then commits is lost to a restart, but not the pages
  around it: a link may lead to a page of zeros and from there to page 0 (`Intact` in `HeapTable`).
* A catalog larger than page 0 is cut without an error, and is lost at the next `Reload` or restart; a transaction that
  commits after a refused change leaves the change in the map and not on page 0 (`marred` in `Catalog`). An `INSERT` that names
  an id leaves its counter behind, so that a later one that draws may be refused (`given`).
* A handler that is caught in the parser's loop keeps `Close` waiting as well; the statements of `Server` end.
* `Close` waits for TCP handlers before it rolls HTTP transactions back; one that waits in `Begin` for the lock of such a
  transaction keeps it waiting (`Blocked` in `CloseEndsOrHangs`), and so does one that was accepted late (`Overlooked`).
* An index that was created under a name that is no column is not maintained until page 0 is read again (`PassedOver`); an
  index scan then misses rows. So it does after the root of a tree was split. Of two indexes on one column page 0
  keeps one. A key has one page, so an index scan finds rows with equal keys on other pages only by chance.
* `UPDATE` computes the new rows and writes none; a comment in the code says so.
* The parser reads the expression of `GROUP BY`, `HAVING`, `ORDER BY`, `LIMIT`, `OFFSET` and `ON` from the keyword on, which is
  no expression: every `SELECT` with one of them is refused, and with `DISTINCT` too. `DROP INDEX IF EXISTS` passes over a
  name, and `KEY` without `PRIMARY` hangs. An `INSERT` that ends within its values, or with a comma after them, is a typed
  nil in the program and no error, and a panic in the planner.
* The rows of an `INSERT` are inserted from the last to the first, each in a transaction of its own if there is no other: when
  one fails those before it stay. CSV import sends its rows in this way, after a `CREATE TABLE`.

## 4. What is proved

All proofs hold for every value of the constants that the assumptions of the module allow. For the transaction manager,
`StorageAssumption`, `WALAssumption` and `TMAssumption`:

* `TypeCorrect`: `Spec => []TypeOK`.
* `LockIsDisciplined`: `Spec => []LockDiscipline`, whatever calls fail. The inductive invariant `LockInv` is
  `TypeOK`, `LockDiscipline` and `TodoIsDirty`: the pages `Commit` has still to write are dirty pages of its
  transaction, so that what it writes is an image and not `NoData`.
* `RedoIsInBounds`: `Spec => []RedoStaysInBounds`, whatever calls fail. `RedoStaysInBounds` bounds
  the pages of the logs by the size of the file, which is not inductive: the next page number comes from a counter, not
  from the file, and the log that `Truncate` removed can come back. `BoundsInv` says that every page in the log, in the
  removed log and in the records of recovery, and every index page, is below the next number that `AllocatePage` hands
  out (`Taken`; while the database is down, the size of the file), that `nextPageID <= size`, and that no log mentions
  an index page. It uses `LockInv` for the types.

The theorems of `DurabilityProofs` say which I/O calls may return an error (crashes may come at any point in all of them). Each
assumes as little as it can: with one more kind of call in `Faults`, TLC finds a counterexample with two pages and two transactions.

| theorem | property | may fail | what goes wrong otherwise |
|---|---|---|---|
| `CommitIsWrittenAhead` | `WriteAhead` | fsync, page write | a page stays in the workspace though its UPDATE was refused |
| `ReadsAreRepeatable` | `RepeatableReads` | append, fsync | a failed page write changes the file under a page that is not cached |
| `RollbackIsFinal` | `RollbackDiscards` | append | the COMMIT record of a failed `Commit` is in the log (`tx_rollback`) |
| `NothingIsStolen` | `NoSteal` | fsync | a page without a log record, or a torn one, reaches the file |
| `CrashIsSafe` | `CrashSafe` | none | recovery redoes a `Commit` that failed, stops at a cut-short record, or lacks a refused one |
| `StoreIsImplemented` | `ImplementsStore` | none | the same |

* `CommitIsWrittenAhead` and `CrashIsSafe` are not about inductive formulas: what
  a crash restores depends on the order of the records in the log, on what each transaction has logged, and on how far
  `Commit` or `Recover` has come. `DurInv` says it for runs in which no call fails: the cache agrees with the file (`Coherent`); a
  torn record is the last one, and a removed log that may come back belongs to an idle manager with an empty log (`LogShape`);
  transactions follow one another in the log, each with its updates before a COMMIT that is durable unless its `Commit` waits for
  `Sync` (`Serial`); the workspace of the active transaction is what it has logged (`WorkspaceLogged`); all pages but
  those `Commit` has still to write are what the log would make them (`FileAgrees`); and recovery has brought the
  pages up to the records before its cursor (`RedoProgress`). A `Commit` that failed may be tried again, after further
  writes, so that updates follow a COMMIT of their transaction and `Serial` is lost; `AheadInv` is what remains: the
  order of transactions in the log (`Ordered`), and `WorkspaceLogged`.
* `ReadsAreRepeatable` needs `Coherent` and that a database in recovery has no transaction (`ReadsInv`); `RollbackIsFinal`, that of
  the transactions with a COMMIT record only the one in `Commit` is active and none is aborted (`RollbackInv`).
* `NothingIsStolen`, from `AheadInv` and `FileInv` (together `StealInv`): the next page number is the size of the file, and the file
  is zero beyond it. Only a page write of `Commit`, a redo and a crash change an existing page (`FileChanges`), each
  to what the durable log holds.
* `StoreIsImplemented`: `Spec => ImplementsStore`. One lemma per action shows which step of `CommittedStore` it
  is. The abstract store is the file with the durable log replayed, so the proof turns on when two logs restore the
  same pages (`AgreeingLogs`): if they agree up to a position by which every transaction they commit has its
  COMMIT. The append of COMMIT is `RequestCommit`, its fsync is `Commit`, page writes and recovery do not show, and a crash
  during the fsync either commits the whole transaction or loses it (`CommittingSurvivor`).

For a heap table, from `HeapAssumption` (records have lengths and ids, the page number 1 exists, a page has room for a
header), for every set of records and page size and whether or not the log may refuse records:

* `HeapTypeCorrect` (`TypeOK`), `ChainStaysSound` (`ChainIsSound`) and `RowsKeepTheirSlots` (`RowsStay`), in `HeapProofs`, with any
  number of restarts and refused records, up to a restart that redoes a log with a gap.
  The inductive invariant `HeapInv` adds to the first two that pages beyond the file and the catalog's are zero and not in
  the workspace, that a commit has copied what it does not owe (`WorkIsPrivate`), and that each page of the workspace
  has the slots of the shared page, and its link unless that page ended the table (`WorkExtends`). `TableInv` keeps it up to a
  restart with a gap, for which it needs to know what a log without one brings back: the shared pages, with those of a transaction
  whose COMMIT record is in the log (`LogTells`).
* `ReaderMissesNoRow` (`ReaderMissesNothing`): the rows that the query still owes lie on its way
  (`ReaderInv`). The chain from a page is the least set closed under links; a link set at the end of the table, or on a
  zero page, takes nothing off it but the catalog's page (`LinkingKeepsTheWay`).
* `IdsStayUnique` (`IdsAreUnique`) and `RowStoreIsImplemented` (`ImplementsRows`): every step adds a row to what the
  transaction sees, takes one out, or keeps them all (`StepsOnRows`).

For an index, from `BTreeAssumption` (a page has room for its header, a key has a size), for any number of keys and pages, any
page and key size and so any order of the nodes, and whichever page write fails, in `BTreeProofs`:

* `IndexTypes` (`TypeOK`) and `SearchStaysHonest` (`SearchNeverLies`), from `NodesInv`: a leaf, in a page or still to be
  written, has ascending keys, and says of each what was last inserted. A search may miss a key, but ends in a leaf or nowhere.
* `TreeStaysSound` (`TreeIsSound`) and `IndexStaysMap` (`IndexIsMap`), while no write has failed. In the middle of an insertion
  the pages are no tree, so the invariant `IInv` is about the tree that they become once the queue is written
  (`Becomes`), with or without a link that the climb has still to set. `Shape` gives each node a level: children are one level
  below their parent, name it, and have no other one; the right half of a node just split is the one node
  without a parent that is not the root. `Routes` gives each node the set of keys that belong below it: a child has the part
  of its parent's set between the separators beside it, nodes of one level share no key, and a key that was inserted is in the leaf
  that has it in its set. Levels rise from the leaves, so `findLeaf` ends in that leaf (`MaxPages` steps are enough). Once the
  catalog has lost the root `Routes` is not claimed, `Shape` is: this is what is left of the tree in the finding at
  `btree_root`. Each action has a lemma about what it makes of the tree: a leaf with one key more or two halves (`Insert`),
  a key and a child more in the parent, the same with a split, or a new root (`ClimbUp`), and one write fewer (`WriteNode`).
* `ScansStayComplete` (`ScansAreComplete`), while no write has failed. Nothing about the tree says that the list of the leaves goes
  along with it, so `Routes` has a part for the list (`NextRoutes`): all keys that belong in the next leaf are greater than those
  that belong in a leaf, and a key between the two belongs in one of them. So a scan meets each leaf once (a list of more than
  `MaxPages` leaves would meet one twice), and what it has taken at each leaf is what belongs to the range so far (`Stage`).
* `NodesHaveRoom`, from `RoomForTwo` (a page has room for two entries): `serialiseNode` never gets a leaf larger than its page,
  and, if `order` leaves four bytes of the page (`RoomForPointer`), no internal node either. 4096-byte pages leave them for
  VARCHAR keys (order 15) and not for INT or FLOAT ones. By `TypeOK` no node written has more keys than
  order allows (`Typed`), so the rest is arithmetic on the formula of `order` (`EntriesFit`).

For the server, from `ServerAssumption` (finitely many clients, other than requests and ids), for any number of clients,
requests, HTTP transactions and permits, and whatever calls fail, in `ServerProofs`:

* `ServerTypeCorrect` (`TypeOK`) and `CountsStayRight` (`CountsAgree`). The two need each other: that the semaphore is given
  back only after it was taken, and that the wait group does not fall below zero, is what the counts say. `CountInv` adds
  that a connection that is being registered has no handler.
* `MapKeepsTheLock` (`MapHoldsTheLock`) and `LockStaysReachable` (`LockIsReachable`), for runs in which no call has failed so
  far. `HolderInv` says that a transaction has one holder: its connection, its statement, its request or the map, in
  which nothing is that a request is ending.

For the catalog, from `CatalogAssumption` (`None` is no session and no name, named ids are other than 0), for any number of
sessions, names, named ids, statements and crashes, any room on page 0 and in the buffer, and whichever calls fail, in `CatalogProofs`:

* `IdsStayUnique` (`IdsAreUnique`) needs no invariant of its own beyond the types and `RowsInv`: rows are a set, because
  `InsertRecord` looks for the id in the transaction in which it adds the row, wherever the id comes from.
* `CatalogStaysTransactional` (`CatalogIsTransactional`) and `CountersStayAhead` (`CountersRunAhead`), for runs in which no two
  sessions were between two steps on the catalog at once, and for the second no restart took page 0 back; up to the three events
  of `marred` for the first, and for the ids that were drawn for the second. `OwnerInv` says who has the lock and what only its owner
  can have; `AloneInv`, that no two sessions are at work and that what a session has drawn is still in the map at its next
  step (`Drawing`); `TablesInv`, which of the copies of the catalog agree; `AheadInv`, that each copy that can
  become the map in memory has counters that are not behind the ids drawn for the rows it will meet (`Drawn`). `SoundInv`, without which a counter
  of one table could be compared with the rows of another one, gives every table of a copy a first page of its own.

For the accounts, from `AccountAssumption` (the configured administrator is one of the people), in `AccountsProofs`:

* `LastAdminRemains` (`LastAdminStays`) and `RestartGivesBack` (`RestartKeepsWhatWasSaved`). `AccountsInv` is the types of maps,
  files and requests under way, and `SavedInv`: a store whose last save succeeded is what its file says, but for what
  starting adds. That a deletion leaves somebody is counting: more than one administrator, one less.

For a chat, from `ChatAssumption`, in `ChatProofs`:

* `AnswersAreTheirOwn` (`AnswersMatch`). A handler that gave up on a request leaves its id pending, so that ids alone do not
  say whose an answer is. `ChatInv` says that a line in either pipe whose id is still pending belongs to the request that waits:
  the others were never written.

Not proved, only model-checked: the liveness properties, which are out of the prover's reach, and the properties of `Query`.
Expressions and statements nest, so `Expressions`, `Parser`, `Planner`, `Executor` and `Query` have
recursive operators, about which the prover cannot reason.

## 5. What is not modelled, and what could follow

* Not modelled because nothing reaches it: the executor's, planner's and optimizer's joins, aggregates, sorting, `DISTINCT` and
  limits, which the parser refuses; the methods of `Complex`, `Vector`, `Matrix` and `Tensor` other than `Equals`, which
  `compareValues` calls and `Compare` models; nothing calls the others.
* Not modelled because no property tells its outcomes apart: the lexer's way from characters to lexemes, the record encoding,
  password hashes, JSON and CSV conversions, the read-only endpoints and the web page, prompts, logging, configuration and
  the programs' flags.
* Not modelled because it is outside: the providers of AI models.
* Two processes on the same files, which a chat brings about, are not modelled: nothing in the code coordinates them.

Next: what a database promises after a `Commit` that failed, which no document says: `CrashSafe` and `ImplementsStore` would need a
state in which the outcome of a transaction is open until it is tried again or the next restart.
