------------------------- MODULE TransactionManager --------------------------
(***************************************************************************)
(* internal/transaction/manager.go over the pager and the write-ahead log: *)
(* transactions that buffer their page writes privately (NO-STEAL), log    *)
(* them, and at commit force the log and then the pages (FORCE); a lock    *)
(* that serialises them; recovery that redoes committed updates.           *)
(*                                                                         *)
(*   mode        what the code that holds TransactionManager.mu is doing   *)
(*   committing  the transaction in Commit, 0 outside it                   *)
(*   todo        the dirty pages Commit has still to write                 *)
(*   cursor      the record Recover looks at next                          *)
(*   records     what ReadAllRecords returned to Recover                   *)
(*   txState     Transaction.state                                         *)
(*   dirty       Transaction.dirtyPages                                    *)
(*   globalLock  whether TransactionManager.globalLock is held             *)
(*   nextTxID    TransactionManager.nextTxID                               *)
(*   indexPages  the pages B+tree code allocated: written through the      *)
(*               pager, outside any transaction                            *)
(*   crashes     how often the process died, for the bound MaxCrashes      *)
(***************************************************************************)
EXTENDS Pager, WAL, FiniteSets

CONSTANTS
    MaxCrashes,     \* bound on the crashes of one behaviour
    IndexPageLimit  \* bound on the pages allocated by B+tree code

ASSUME TMAssumption == MaxCrashes \in Nat /\ IndexPageLimit \in Nat

VARIABLES mode, committing, todo, cursor, records, txState, dirty,
          globalLock, nextTxID, indexPages, crashes

commitVars == <<mode, committing, todo>>
recoverVars == <<cursor, records>>
txVars == <<txState, dirty, globalLock, nextTxID>>
vars == <<pagerVars, walVars, commitVars, recoverVars, txVars, indexPages, crashes>>

Modes == {"down", "failed", "redo", "truncate",              \* no service
          "idle", "commitSync", "commitWrite", "commitFlush"} \* service
Up == mode \in {"idle", "commitSync", "commitWrite", "commitFlush"}

\* FlushAll keeps Pager.mu while it rewrites the cache; nothing else can use
\* the pager meanwhile.
PagerFree == Up /\ mode # "commitFlush"

TypeOK ==
    /\ PagerTypeOK
    /\ WALTypeOK
    /\ mode \in Modes
    /\ committing \in TxId \cup {0}
    /\ todo \in SUBSET PageId
    /\ cursor \in Nat \ {0}
    /\ records \in Seq(LogRecord)
    /\ txState \in [TxId -> {"none", "active", "committed", "aborted"}]
    /\ dirty \in [TxId -> [PageId -> Image]]
    /\ globalLock \in BOOLEAN
    /\ nextTxID \in 1 .. MaxTx + 1
    /\ indexPages \in SUBSET PageId
    /\ crashes \in Nat

Active == {t \in TxId : txState[t] = "active"}
DirtyPages(t) == {p \in PageId : dirty[t][p] # NoData}
NoDirtyPages == [p \in PageId |-> NoData]

\* A database that has just been created: catalog.New has allocated page 0
\* and written the empty catalog, outside any transaction.
Init ==
    /\ WALInit
    /\ disk = [p \in PageId |-> Zero]
    /\ size = 1
    /\ cache = [p \in PageId |-> IF p = 0 THEN Zero ELSE NoData]
    /\ nextPageID = 1
    /\ mode = "idle" /\ committing = 0 /\ todo = {}
    /\ cursor = 1 /\ records = <<>>
    /\ txState = [t \in TxId |-> "none"]
    /\ dirty = [t \in TxId |-> NoDirtyPages]
    /\ globalLock = FALSE
    /\ nextTxID = 1
    /\ indexPages = {}
    /\ crashes = 0

-----------------------------------------------------------------------------
(* Begin, Commit and Rollback.  Each holds TransactionManager.mu           *)
(* throughout, so none of them starts while a Commit is under way.         *)

\* Mutant: Begin does not wait for the lock.
BeginWithoutWaiting ==
    /\ mode = "idle" /\ nextTxID <= MaxTx
    /\ WalForce(Record("begin", nextTxID))
    /\ globalLock' = TRUE
    /\ txState' = [txState EXCEPT ![nextTxID] = "active"]
    /\ nextTxID' = nextTxID + 1
    /\ UNCHANGED <<dirty, pagerVars, commitVars, recoverVars, indexPages, crashes>>

\* Begin waits for globalLock, takes a number, and forces a BEGIN record.
Begin ==
    /\ mode = "idle" /\ ~globalLock /\ nextTxID <= MaxTx
    /\ WalForce(Record("begin", nextTxID))
    /\ globalLock' = TRUE
    /\ txState' = [txState EXCEPT ![nextTxID] = "active"]
    /\ nextTxID' = nextTxID + 1
    /\ UNCHANGED <<dirty, pagerVars, commitVars, recoverVars, indexPages, crashes>>

\* The BEGIN record cannot be forced: the lock is given back, the number is not.
BeginFails ==
    /\ mode = "idle" /\ ~globalLock /\ nextTxID <= MaxTx
    /\ WalForceFails(Record("begin", nextTxID))
    /\ nextTxID' = nextTxID + 1
    /\ UNCHANGED <<txState, dirty, globalLock, pagerVars, commitVars, recoverVars,
                   indexPages, crashes>>

\* Commit, step 1: the COMMIT record reaches the log file.
CommitLog(t) ==
    /\ mode = "idle" /\ txState[t] = "active"
    /\ WalAppend(Record("commit", t))
    /\ mode' = "commitSync"
    /\ committing' = t
    /\ UNCHANGED <<todo, pagerVars, recoverVars, txVars, indexPages, crashes>>

\* The append fails: Commit returns, the transaction stays active.
CommitLogFails(t) ==
    /\ mode = "idle" /\ txState[t] = "active"
    /\ WalAppendFails
    /\ UNCHANGED <<pagerVars, commitVars, recoverVars, txVars, indexPages, crashes>>

\* Mutant: Commit writes no page and leaves the work to recovery.
AfterWritingNothing(S) == "commitFlush"

\* Step 3 goes on while pages remain to be written, then step 4.
AfterWriting(S) == IF S = {} THEN "commitFlush" ELSE "commitWrite"

\* Mutant: the log is not forced.
CommitWithoutSync ==
    /\ mode = "commitSync"
    /\ todo' = DirtyPages(committing)
    /\ mode' = AfterWriting(todo')
    /\ UNCHANGED <<committing, walVars, pagerVars, recoverVars, txVars, indexPages, crashes>>

\* Commit, step 2: the log is forced before any page is written.
CommitSync ==
    /\ mode = "commitSync"
    /\ WalSync
    /\ todo' = DirtyPages(committing)
    /\ mode' = AfterWriting(todo')
    /\ UNCHANGED <<committing, pagerVars, recoverVars, txVars, indexPages, crashes>>

\* Mutant: a deferred unlock releases the lock although the transaction is open.
CommitReturnsErrorUnlocking ==
    /\ mode' = "idle"
    /\ committing' = 0
    /\ todo' = {}
    /\ globalLock' = FALSE
    /\ UNCHANGED <<recoverVars, txState, dirty, nextTxID, indexPages, crashes>>

\* Any error return of Commit: the transaction stays active, the lock held.
CommitReturnsError ==
    /\ mode' = "idle"
    /\ committing' = 0
    /\ todo' = {}
    /\ UNCHANGED <<recoverVars, txVars, indexPages, crashes>>

CommitSyncFails ==
    /\ mode = "commitSync"
    /\ WalSyncFails
    /\ CommitReturnsError
    /\ UNCHANGED pagerVars

\* Mutant: a written page is not taken off the list.
CommitWriteAgain(p) ==
    /\ mode = "commitWrite" /\ p \in todo
    /\ PagerWrite(p, dirty[committing][p])
    /\ mode' = AfterWriting(todo)
    /\ UNCHANGED <<committing, todo, walVars, recoverVars, txVars, indexPages, crashes>>

\* Commit, step 3: the dirty pages, one at a time, in the order of a Go map.
CommitWrite(p) ==
    /\ mode = "commitWrite" /\ p \in todo
    /\ PagerWrite(p, dirty[committing][p])
    /\ todo' = todo \ {p}
    /\ mode' = AfterWriting(todo')
    /\ UNCHANGED <<committing, walVars, recoverVars, txVars, indexPages, crashes>>

CommitWriteFails(p) ==
    /\ mode = "commitWrite" /\ p \in todo
    /\ PagerWriteFails(p, dirty[committing][p])
    /\ CommitReturnsError
    /\ UNCHANGED walVars

\* Commit, step 4: FlushAll; then the state changes and the lock is released.
\* The committed Transaction is dropped by its owner, its dirty pages with it.
CommitFlush ==
    /\ mode = "commitFlush"
    /\ PagerFlush
    /\ mode' = "idle"
    /\ committing' = 0
    /\ txState' = [txState EXCEPT ![committing] = "committed"]
    /\ dirty' = [dirty EXCEPT ![committing] = NoDirtyPages]
    /\ globalLock' = FALSE
    /\ UNCHANGED <<nextTxID, todo, walVars, recoverVars, indexPages, crashes>>

CommitFlushFails ==
    /\ mode = "commitFlush"
    /\ PagerFlushFails
    /\ CommitReturnsError
    /\ UNCHANGED walVars

\* Rollback forces an ABORT record, then discards the dirty pages.
Rollback(t) ==
    /\ mode = "idle" /\ txState[t] = "active"
    /\ WalForce(Record("abort", t))
    /\ txState' = [txState EXCEPT ![t] = "aborted"]
    /\ dirty' = [dirty EXCEPT ![t] = NoDirtyPages]
    /\ globalLock' = FALSE
    /\ UNCHANGED <<nextTxID, pagerVars, commitVars, recoverVars, indexPages, crashes>>

\* An error: the transaction stays active, the lock held.
RollbackFails(t) ==
    /\ mode = "idle" /\ txState[t] = "active"
    /\ WalForceFails(Record("abort", t))
    /\ UNCHANGED <<pagerVars, commitVars, recoverVars, txVars, indexPages, crashes>>

-----------------------------------------------------------------------------
(* Page operations of a transaction (under Transaction.mu, which its       *)
(* Commit holds too) and of code that has none (tx == nil).                *)

\* The handle is usable: the transaction is active and not inside Commit.
Usable(t) == Up /\ txState[t] = "active" /\ committing # t

\* Mutant: only the first write of a page is logged.
WritePageLoggedOnce(t, p, v) ==
    /\ Usable(t)
    /\ p < nextPageID /\ p \notin indexPages
    /\ dirty' = [dirty EXCEPT ![t][p] = v]
    /\ IF dirty[t][p] = NoData THEN WalAppend(UpdateRecord(t, p, v)) ELSE UNCHANGED walVars
    /\ UNCHANGED <<txState, globalLock, nextTxID, pagerVars, commitVars,
                   recoverVars, indexPages, crashes>>

\* WritePage: the private copy first, then the UPDATE record, unsynced.
WritePage(t, p, v) ==
    /\ Usable(t)
    /\ p < nextPageID /\ p \notin indexPages
    /\ dirty' = [dirty EXCEPT ![t][p] = v]
    /\ WalAppend(UpdateRecord(t, p, v))
    /\ UNCHANGED <<txState, globalLock, nextTxID, pagerVars, commitVars,
                   recoverVars, indexPages, crashes>>

\* The append fails: WritePage returns an error, the private copy remains.
WritePageFails(t, p, v) ==
    /\ Usable(t)
    /\ p < nextPageID /\ p \notin indexPages
    /\ dirty' = [dirty EXCEPT ![t][p] = v]
    /\ WalAppendFails
    /\ UNCHANGED <<txState, globalLock, nextTxID, pagerVars, commitVars,
                   recoverVars, indexPages, crashes>>

\* AllocatePage: the page is in the file at once, whatever becomes of the
\* transaction; its zero image is then treated as a write of the transaction.
AllocatePage(t) ==
    /\ Usable(t) /\ PagerFree
    /\ PagerAllocate
    /\ dirty' = [dirty EXCEPT ![t][nextPageID] = Zero]
    /\ WalAppend(UpdateRecord(t, nextPageID, Zero))
    /\ UNCHANGED <<txState, globalLock, nextTxID, commitVars, recoverVars,
                   indexPages, crashes>>

AllocatePageFails(t) ==
    /\ Usable(t) /\ PagerFree
    /\ \/ PagerAllocateFails /\ UNCHANGED <<dirty, walVars>>
       \/ /\ PagerAllocate
          /\ dirty' = [dirty EXCEPT ![t][nextPageID] = Zero]
          /\ WalAppendFails
    /\ UNCHANGED <<txState, globalLock, nextTxID, commitVars, recoverVars,
                   indexPages, crashes>>

\* FetchPage, with a transaction or without one: a cache miss reads the file.
FetchPage(p) ==
    /\ PagerFree
    /\ cache[p] = NoData
    /\ PagerFetch(p)
    /\ UNCHANGED <<walVars, commitVars, recoverVars, txVars, indexPages, crashes>>

\* Catalog.Reload, which follows every Rollback made by the table manager.
ReloadCatalogPage ==
    /\ PagerFree
    /\ PagerReload(0)
    /\ UNCHANGED <<walVars, commitVars, recoverVars, txVars, indexPages, crashes>>

\* AllocatePage and WritePage with tx == nil, as B+tree code calls the pager.
AllocateIndexPage ==
    /\ PagerFree
    /\ Cardinality(indexPages) < IndexPageLimit
    /\ PagerAllocate
    /\ indexPages' = indexPages \cup {nextPageID}
    /\ UNCHANGED <<walVars, commitVars, recoverVars, txVars, crashes>>

WriteIndexPage(p, v) ==
    /\ PagerFree
    /\ p \in indexPages
    /\ PagerWrite(p, v)
    /\ UNCHANGED <<walVars, commitVars, recoverVars, txVars, indexPages, crashes>>

-----------------------------------------------------------------------------
(* Crash and recovery.                                                     *)

\* The pages that the write under way is about to replace, with their images.
InFlight ==
    {<<p, dirty[committing][p]>> : p \in {q \in todo : mode = "commitWrite"}}
    \cup {<<records[i].page, records[i].data>> :
              i \in {j \in DOMAIN records : mode = "redo" /\ j = cursor /\ Redoable(records, j)}}

\* FlushAll is cut short when some of the cached pages have been rewritten.
HalfFlushed ==
    IF mode = "commitFlush" \/ (mode = "redo" /\ cursor > Len(records))
    THEN {Flushed(S) : S \in SUBSET Cached}
    ELSE {disk}

\* The file after a crash: as it was, or with the write under way torn.
DiskAfterCrash ==
    HalfFlushed
    \cup {[disk EXCEPT ![w[1]] = IF @ = w[2] THEN @ ELSE Torn] : w \in InFlight}

\* The process or the machine stops: memory is lost, the log keeps its
\* durable part and some of the rest.
Crash ==
    /\ mode \notin {"down", "failed"}
    /\ crashes < MaxCrashes
    /\ crashes' = crashes + 1
    /\ disk' \in DiskAfterCrash
    /\ wal' \in Survivors
    /\ synced' = Len(wal')
    /\ stale' = <<>>
    /\ mode' = "down" /\ committing' = 0 /\ todo' = {}
    /\ cursor' = 1 /\ records' = <<>>
    /\ cache' = EmptyCache /\ nextPageID' = 0
    /\ txState' = [t \in TxId |-> "none"]
    /\ dirty' = [t \in TxId |-> NoDirtyPages]
    /\ globalLock' = FALSE /\ nextTxID' = 1
    /\ UNCHANGED <<size, indexPages>>

\* pager.New and ReadAllRecords, at the start of NewTableManager.
Open ==
    /\ mode = "down"
    /\ PagerOpen
    /\ mode' = "redo"
    /\ records' = Readable(wal)
    /\ UNCHANGED <<committing, todo, cursor, walVars, txVars, indexPages, crashes>>

\* ReadAllRecords returns an error, and with it every function up to main.
\* What it makes of a log depends on the log's bytes alone and nothing changes
\* them: every later start fails like this one, so "failed" is never left.
OpenFails ==
    /\ mode = "down"
    /\ ReadMayFail(wal)
    /\ mode' = "failed"
    /\ UNCHANGED <<committing, todo, pagerVars, walVars, recoverVars, txVars,
                   indexPages, crashes>>

\* Mutant: Recover redoes every update, committed or not.
RedoEverything ==
    /\ mode = "redo" /\ cursor <= Len(records)
    /\ IF records[cursor].type = "update"
       THEN PagerWrite(records[cursor].page, records[cursor].data)
       ELSE UNCHANGED pagerVars
    /\ cursor' = cursor + 1
    /\ UNCHANGED <<records, walVars, commitVars, txVars, indexPages, crashes>>

\* Mutant: Recover never gets past a record.
RedoWithoutAdvancing ==
    /\ mode = "redo" /\ cursor <= Len(records)
    /\ IF Redoable(records, cursor)
       THEN PagerWrite(records[cursor].page, records[cursor].data)
       ELSE UNCHANGED pagerVars
    /\ cursor' = cursor
    /\ UNCHANGED <<records, walVars, commitVars, txVars, indexPages, crashes>>

\* Phase 2 of Recover, one record.  (An error here ends the process: a Crash.)
Redo ==
    /\ mode = "redo" /\ cursor <= Len(records)
    /\ IF Redoable(records, cursor)
       THEN PagerWrite(records[cursor].page, records[cursor].data)
       ELSE UNCHANGED pagerVars
    /\ cursor' = cursor + 1
    /\ UNCHANGED <<records, walVars, commitVars, txVars, indexPages, crashes>>

\* The end of Recover: FlushAll ...
RecoverFlush ==
    /\ mode = "redo" /\ cursor > Len(records)
    /\ PagerFlush
    /\ mode' = "truncate"
    /\ UNCHANGED <<committing, todo, walVars, recoverVars, txVars, indexPages, crashes>>

\* ... then the log is emptied, and catalog.New reads page 0.
RecoverTruncate ==
    /\ mode = "truncate"
    /\ WalTruncate
    /\ PagerFetch(0)
    /\ mode' = "idle"
    /\ cursor' = 1 /\ records' = <<>>
    /\ UNCHANGED <<committing, todo, txVars, indexPages, crashes>>

-----------------------------------------------------------------------------
CommitStep == CommitSync \/ CommitFlush \/ \E p \in PageId : CommitWrite(p)
RecoverStep == Open \/ Redo \/ RecoverFlush \/ RecoverTruncate

Next ==
    \/ Begin \/ BeginFails
    \/ \E t \in TxId : CommitLog(t) \/ CommitLogFails(t) \/ Rollback(t) \/ RollbackFails(t)
    \/ CommitSync \/ CommitSyncFails \/ CommitFlush \/ CommitFlushFails
    \/ \E p \in PageId : CommitWrite(p) \/ CommitWriteFails(p)
    \/ \E t \in TxId, p \in PageId, v \in Values : WritePage(t, p, v) \/ WritePageFails(t, p, v)
    \/ \E t \in TxId : AllocatePage(t) \/ AllocatePageFails(t)
    \/ \E p \in PageId : FetchPage(p)
    \/ ReloadCatalogPage
    \/ AllocateIndexPage
    \/ \E p \in PageId, v \in Values : WriteIndexPage(p, v)
    \/ Crash \/ Open \/ OpenFails \/ Redo \/ RecoverFlush \/ RecoverTruncate

Spec == Init /\ [][Next]_vars
FairSpec == Spec /\ WF_vars(CommitStep) /\ WF_vars(RecoverStep)

-----------------------------------------------------------------------------
(* Properties.                                                             *)

\* The image of page p that Recover would leave, given the file and a log: that
\* of the last update of p by a committed transaction, or the file's own.
Replayed(log, p) == IF Redos(log, p) = {} THEN disk[p] ELSE log[LastRedo(log, p)].data

\* At most one transaction is active, globalLock is held exactly while one
\* is, and Commit only ever runs for the active one: whatever I/O calls fail,
\* no error path gives the lock away or releases it twice.
LockDiscipline ==
    /\ \A t, u \in Active : t = u
    /\ globalLock <=> Active # {}
    /\ mode \in {"commitSync", "commitWrite", "commitFlush"} <=> committing # 0
    /\ committing # 0 => committing \in Active

\* "Write-Ahead guarantee": once Commit may write pages, the durable log holds
\* the COMMIT record and, as the last image to redo, each page it will write.
WriteAhead ==
    mode \in {"commitWrite", "commitFlush"} =>
        /\ committing \in CommittedIn(Durable)
        /\ \A p \in DirtyPages(committing) :
               /\ Redos(Durable, p) # {}
               /\ Durable[LastRedo(Durable, p)].data = dirty[committing][p]

\* Between calls, whatever part of the log a crash would leave, recovery
\* restores exactly the pages that a reader sees now: nothing committed is
\* lost and nothing else appears.
CrashSafe ==
    mode = "idle" =>
        \A log \in Survivors : \A p \in 0 .. size - 1 :
            Replayed(Readable(log), p) = Visible(p)

\* Recovery never writes a page that B+tree code allocated, nor one beyond
\* the end of the file: page numbers are not handed out twice over a restart.
RedoStaysInBounds ==
    \A log \in Survivors \cup {records} : \A i \in DOMAIN log :
        log[i].type = "update" =>
            /\ log[i].page < size
            /\ log[i].page \notin indexPages

\* NO-STEAL: an existing page changes in the file only to an image that the
\* durable log makes the committed one (or a torn write that it can repair).
NoSteal ==
    [][\A p \in (0 .. size - 1) \ indexPages :
          disk'[p] # disk[p] =>
              \E i \in Redos(Durable, p) : disk'[p] \in {Durable[i].data, Torn}]_vars

\* Serialisation: while a transaction is active and outside its own Commit,
\* no page it could read changes under it.
RepeatableReads ==
    [][\A t \in Active : txState'[t] = "active" /\ committing' # t /\ Up' =>
          \A p \in (0 .. nextPageID - 1) \ indexPages : Visible(p)' = Visible(p)]_vars

\* "Rollback rolls back the transaction, discarding modifications": no update
\* of a transaction whose Rollback succeeded is redone by a later recovery.
RollbackDiscards ==
    \A i \in DOMAIN wal : Redoable(wal, i) => txState[wal[i].tx] # "aborted"

\* Recovery ends, however often a crash interrupts it: the database serves
\* again, unless a short append with records after it has made the log one that
\* ReadAllRecords may refuse, on this start and on every other.
RecoveryEnds ==
    mode = "down" ~> (mode = "idle" \/ (mode = "failed" /\ ReadMayFail(wal)))

\* Commit returns, with success or with an error, and gives up the mutex.
CommitEnds == committing # 0 ~> committing = 0

-----------------------------------------------------------------------------
(* The refinement mapping to CommittedStore.                               *)

Status ==
    IF Active = {} THEN "none"
    ELSE IF mode = "commitSync" THEN "committing"
    ELSE IF mode \in {"commitWrite", "commitFlush"} THEN "committed"
    ELSE "active"

Workspace ==
    [p \in PageId |->
        IF Status \in {"active", "committing"}
        THEN dirty[CHOOSE t \in Active : TRUE][p]
        ELSE NoData]

Committed == [p \in PageId |-> Replayed(Durable, p)]

Store == INSTANCE CommittedStore WITH
    store <- Committed,
    status <- Status, work <- Workspace, direct <- indexPages

\* The manager, the log, the pager and recovery together behave as an atomic
\* store: a transaction's pages change all at once, when its COMMIT record is
\* durable, and a crash loses at most a transaction whose Commit is pending.
ImplementsStore == Store!Spec
=============================================================================
