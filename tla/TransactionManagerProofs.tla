----------------------- MODULE TransactionManagerProofs -----------------------
(***************************************************************************)
(* Lemmas about logs, and theorems about TransactionManager, for every     *)
(* value of its constants.                                                 *)
(***************************************************************************)
EXTENDS TransactionManager, FiniteSetTheorems, SequenceTheorems, WellFoundedInduction, TLAPS

-----------------------------------------------------------------------------
(* Least and greatest elements.                                            *)

\* A nonempty set of naturals has a least element.
LEMMA SmallestOf ==
    ASSUME NEW T \in SUBSET Nat, T # {}
    PROVE  \E x \in T : \A y \in T : x <= y
<1>. DEFINE R == {p \in Nat \X Nat : p[1] < p[2]}
<1>1. IsWellFoundedOn(R, Nat)
    BY NatLessThanWellFounded DEF OpToRel
<1>2. PICK x \in T : \A y \in T : <<y, x>> \notin R
    BY <1>1, WFMin
<1>3. ASSUME NEW y \in T, y < x PROVE FALSE
    BY <1>2, <1>3
<1>. QED
    BY <1>3

\* A nonempty set of indices up to l has a greatest element.
LEMMA LargestOf ==
    ASSUME NEW l \in Nat, NEW I \in SUBSET (1 .. l), I # {}
    PROVE  \E x \in I : \A y \in I : y <= x
<1>. DEFINE J == {z \in Nat : l - z \in I}
<1>1. \A y \in I : l - y \in Nat /\ l - (l - y) = y
    OBVIOUS
<1>2. \A y \in I : l - y \in J
    BY <1>1
<1>3. J \in SUBSET Nat /\ J # {}
    BY <1>2
<1>4. PICK z \in J : \A w \in J : z <= w
    BY <1>3, SmallestOf
<1>5. ASSUME NEW y \in I PROVE y <= l - z
    <2>1. z <= l - y /\ y \in Nat /\ z \in Nat
        BY <1>2, <1>4
    <2>. QED
        BY <2>1
<1>. QED
    BY <1>4, <1>5

-----------------------------------------------------------------------------
(* Types.                                                                  *)

\* The special images are different from each other and from client images.
LEMMA ImageFacts ==
    /\ NoData \notin Data
    /\ Zero \in Data /\ Torn \in Data /\ Values \subseteq Data
    /\ 0 \in PageId /\ 1 \in TxId
    /\ 0 \notin TxId
    /\ MaxPages \in Nat /\ MaxTx \in Nat
BY StorageAssumption DEF Data, PageId, TxId

\* The records that the transaction manager writes are records.
LEMMA RecordFacts ==
    /\ TornRecord \in LogRecord
    /\ \A t \in TxId, p \in PageId, d \in Data : UpdateRecord(t, p, d) \in LogRecord
    /\ \A t \in TxId : /\ Record("begin", t) \in LogRecord
                       /\ Record("commit", t) \in LogRecord
                       /\ Record("abort", t) \in LogRecord
BY ImageFacts DEF TornRecord, UpdateRecord, Record, LogRecord, RecordType

\* The entries of a log are records, on pages of the file.
LEMMA RecordsOfLog ==
    ASSUME NEW log \in Seq(LogRecord), NEW i \in DOMAIN log
    PROVE  /\ log[i] \in LogRecord
           /\ log[i].page \in PageId /\ log[i].page \in Nat
           /\ log[i].tx \in TxId /\ log[i].data \in Data
<1>1. log[i] \in LogRecord
    BY LenProperties, ElementOfSeq
<1>2. \A r \in LogRecord : r.page \in PageId /\ r.tx \in TxId /\ r.data \in Data
    BY DEF LogRecord
<1>3. PageId \subseteq Nat
    BY ImageFacts DEF PageId
<1>. QED
    BY <1>1, <1>2, <1>3

\* A prefix of a log is a log.
LEMMA PrefixOfLog ==
    ASSUME NEW log \in Seq(LogRecord), NEW k \in 0 .. Len(log)
    PROVE  /\ SubSeq(log, 1, k) \in Seq(LogRecord)
           /\ Len(SubSeq(log, 1, k)) = k
           /\ DOMAIN SubSeq(log, 1, k) = 1 .. k
           /\ \A i \in 1 .. k : SubSeq(log, 1, k)[i] = log[i]
<1>1. \A i \in 1 .. k : log[i] \in LogRecord
    BY LenProperties, ElementOfSeq
<1>2. k \in Int /\ 1 \in Int /\ Len(log) \in Nat
    BY LenProperties
<1>. QED
    BY <1>1, <1>2, SubSeqProperties, LenProperties

\* Every log that a crash may leave is a log.
LEMMA SurvivorsAreLogs ==
    ASSUME WALTypeOK, NEW log \in Survivors
    PROVE  log \in Seq(LogRecord)
<1>1. wal \in Seq(LogRecord) /\ stale \in Seq(LogRecord) /\ synced \in 0 .. Len(wal) /\ Len(wal) \in Nat
    BY LenProperties DEF WALTypeOK
<1>2. CASE \E k \in synced .. Len(wal) : log = SubSeq(wal, 1, k)
    BY <1>1, <1>2, PrefixOfLog
<1>3. CASE \E k \in synced .. Len(wal) - 1 : log = Append(SubSeq(wal, 1, k), TornRecord)
    <2>1. PICK k \in synced .. Len(wal) - 1 : log = Append(SubSeq(wal, 1, k), TornRecord)
        BY <1>3
    <2>2. SubSeq(wal, 1, k) \in Seq(LogRecord)
        BY <1>1, PrefixOfLog
    <2>. QED
        BY <2>1, <2>2, RecordFacts
<1>4. CASE log = stale
    BY <1>1, <1>4
<1>. QED
    BY <1>2, <1>3, <1>4 DEF Survivors

\* What ReadAllRecords returns is a log.
LEMMA ReadableIsLog ==
    ASSUME NEW log \in Seq(LogRecord)
    PROVE  Readable(log) \in Seq(LogRecord)
<1>1. CASE TornAt(log) = {}
    BY <1>1 DEF Readable
<1>2. CASE TornAt(log) # {}
    <2>1. TornAt(log) \subseteq 1 .. Len(log) /\ Len(log) \in Nat
        BY LenProperties DEF TornAt
    <2>2. \E i \in TornAt(log) : \A j \in TornAt(log) : i <= j
        BY <1>2, <2>1, SmallestOf
    <2>3. FirstTorn(log) \in 1 .. Len(log)
        BY <2>1, <2>2 DEF FirstTorn
    <2>4. FirstTorn(log) - 1 \in 0 .. Len(log)
        BY <2>1, <2>3
    <2>. QED
        BY <1>2, <2>4, PrefixOfLog DEF Readable
<1>. QED
    BY <1>1, <1>2

-----------------------------------------------------------------------------
(* Type correctness and the lock, whatever I/O calls fail.                 *)

\* TypeOK and LockDiscipline are inductive together, once the pages that
\* Commit has still to write are known to be dirty pages of its transaction.
TodoIsDirty ==
    /\ committing # 0 => todo \subseteq DirtyPages(committing)
    /\ mode # "commitWrite" => todo = {}
LockInv == TypeOK /\ LockDiscipline /\ TodoIsDirty

\* What each call of the log leaves is well-typed.
LEMMA WALTypes ==
    ASSUME WALTypeOK
    PROVE  /\ \A r \in LogRecord : WalAppend(r) \/ WalForce(r) \/ WalForceFails(r) => WALTypeOK'
           /\ WalAppendFails \/ WalSync \/ WalSyncFails \/ WalTruncate => WALTypeOK'
           /\ UNCHANGED walVars => WALTypeOK'
<1>. USE DEF WALTypeOK
<1>1. Len(wal) \in Nat
    BY LenProperties
<1>2. ASSUME NEW r \in LogRecord, wal' = Append(wal, r)
      PROVE  wal' \in Seq(LogRecord) /\ Len(wal') = Len(wal) + 1
    BY <1>2
<1>3. TornRecord \in LogRecord
    BY RecordFacts
<1>4. ASSUME NEW r \in LogRecord, WalAppend(r) PROVE WALTypeOK'
    BY <1>1, <1>2, <1>4 DEF WalAppend
<1>5. ASSUME NEW r \in LogRecord, WalForce(r) PROVE WALTypeOK'
    <2>1. <<>> \in Seq(LogRecord)
        BY EmptySeq
    <2>. QED
        BY <1>1, <1>2, <1>5, <2>1 DEF WalForce
<1>6. ASSUME WalAppendFails PROVE WALTypeOK'
    BY <1>1, <1>2, <1>3, <1>6 DEF WalAppendFails
<1>7. ASSUME NEW r \in LogRecord, WalForceFails(r) PROVE WALTypeOK'
    BY <1>4, <1>6, <1>7 DEF WalForceFails
<1>8. <<>> \in Seq(LogRecord) /\ Len(<<>>) = 0
    BY EmptySeq
<1>9. ASSUME WalTruncate PROVE WALTypeOK'
    BY <1>8, <1>9 DEF WalTruncate
<1>10. ASSUME WalSync PROVE WALTypeOK'
    BY <1>1, <1>8, <1>10 DEF WalSync
<1>11. ASSUME UNCHANGED walVars PROVE WALTypeOK'
    BY <1>11 DEF walVars
<1>. QED
    BY <1>4, <1>5, <1>6, <1>7, <1>9, <1>10, <1>11 DEF WalSyncFails

\* The file that an interrupted or failed FlushAll leaves is well-typed.
LEMMA FlushTypes ==
    ASSUME PagerTypeOK, NEW S \in SUBSET Cached
    PROVE  Flushed(S) \in [PageId -> Data]
BY DEF PagerTypeOK, Cached, Flushed, Image

\* What each call of the pager leaves is well-typed.
LEMMA PagerTypes ==
    ASSUME PagerTypeOK
    PROVE  /\ \A p \in PageId, d \in Data : PagerWrite(p, d) \/ PagerWriteFails(p, d) => PagerTypeOK'
           /\ \A p \in PageId : PagerFetch(p) \/ PagerReload(p) => PagerTypeOK'
           /\ PagerAllocate \/ PagerAllocateFails => PagerTypeOK'
           /\ PagerFlush \/ PagerFlushFails \/ PagerOpen => PagerTypeOK'
           /\ UNCHANGED pagerVars => PagerTypeOK'
<1>. USE ImageFacts DEF PagerTypeOK, Image
<1>1. ASSUME NEW p \in PageId, NEW d \in Data, PagerWrite(p, d) \/ PagerWriteFails(p, d)
      PROVE  PagerTypeOK'
    <2>1. CASE PagerWrite(p, d)
        <3>1. Grown(p) \in 0 .. MaxPages
            BY DEF Grown, PageId
        <3>. QED
            BY <2>1, <3>1 DEF PagerWrite
    <2>2. CASE PagerWriteFails(p, d)
        BY <2>2 DEF PagerWriteFails
    <2>. QED
        BY <1>1, <2>1, <2>2
<1>2. ASSUME NEW p \in PageId, PagerFetch(p) \/ PagerReload(p) PROVE PagerTypeOK'
    BY <1>2 DEF PagerFetch, PagerReload, Visible
<1>3. ASSUME PagerAllocate \/ PagerAllocateFails PROVE PagerTypeOK'
    <2>1. nextPageID < MaxPages
        BY <1>3 DEF PagerAllocate, PagerAllocateFails
    <2>2. Grown(nextPageID) \in 0 .. MaxPages /\ nextPageID + 1 \in 0 .. MaxPages
        BY <2>1 DEF Grown
    <2>. QED
        BY <1>3, <2>2 DEF PagerAllocate, PagerAllocateFails
<1>4. ASSUME PagerFlush \/ PagerFlushFails PROVE PagerTypeOK'
    BY <1>4, FlushTypes DEF PagerFlush, PagerFlushFails
<1>5. ASSUME PagerOpen \/ UNCHANGED pagerVars PROVE PagerTypeOK'
    BY <1>5 DEF PagerOpen, EmptyCache, pagerVars
<1>. QED
    BY <1>1, <1>2, <1>3, <1>4, <1>5

\* So is the file that a crash leaves.
LEMMA CrashTypes ==
    ASSUME LockInv, NEW d \in DiskAfterCrash
    PROVE  d \in [PageId -> Data]
<1>. USE DEF LockInv, TypeOK
<1>1. CASE d \in HalfFlushed
    BY <1>1, FlushTypes DEF HalfFlushed, PagerTypeOK
<1>2. CASE \E w \in InFlight : d = [disk EXCEPT ![w[1]] = IF @ = w[2] THEN @ ELSE Torn]
    BY <1>2, ImageFacts DEF PagerTypeOK
<1>. QED
    BY <1>1, <1>2 DEF DiskAfterCrash

\* A step that leaves the manager's own variables alone keeps its part of the
\* invariant.
ManagerUnchanged == UNCHANGED <<commitVars, recoverVars, txVars, indexPages, crashes>>

\* A step of the pager or the log alone keeps the invariant, types apart.
LEMMA ManagerStutters ==
    ASSUME LockInv, ManagerUnchanged, PagerTypeOK', WALTypeOK'
    PROVE  LockInv'
BY DEF LockInv, ManagerUnchanged, TypeOK, LockDiscipline, TodoIsDirty, DirtyPages,
       Active, commitVars, recoverVars, txVars

\* A new database satisfies it.
LEMMA LockInvInit == Init => LockInv
<1>. SUFFICES ASSUME Init PROVE LockInv
    OBVIOUS
<1>1. WALTypeOK /\ records \in Seq(LogRecord)
    BY EmptySeq DEF Init, WALInit, WALTypeOK
<1>2. PagerTypeOK
    BY ImageFacts DEF Init, PagerTypeOK, Image
<1>3. TypeOK
    BY <1>1, <1>2, ImageFacts DEF Init, TypeOK, Modes, NoDirtyPages, Image
<1>. QED
    BY <1>3, ImageFacts DEF Init, LockInv, LockDiscipline, TodoIsDirty, Active

\* Begin activates a number above all active ones, and only when the lock is free.
LEMMA BeginKeepsLock == LockInv /\ (Begin \/ BeginFails) => LockInv'
<1>. SUFFICES ASSUME LockInv, Begin \/ BeginFails PROVE LockInv'
    OBVIOUS
<1>. USE DEF LockInv, TypeOK
<1>1. nextTxID \in TxId /\ nextTxID + 1 \in 1 .. MaxTx + 1
    BY ImageFacts DEF Begin, BeginFails, TxId
<1>2. WALTypeOK' /\ PagerTypeOK'
    BY <1>1, RecordFacts, WALTypes, PagerTypes DEF Begin, BeginFails
<1>3. TypeOK'
    BY <1>1, <1>2 DEF Begin, BeginFails, commitVars, recoverVars
<1>4. CASE Begin
    <2>1. Active = {} /\ committing = 0
        BY <1>4, ImageFacts DEF Begin, LockDiscipline
    <2>2. Active' = {nextTxID}
        BY <1>1, <1>4, <2>1 DEF Begin, Active
    <2>. QED
        BY <1>3, <1>4, <2>1, <2>2 DEF Begin, LockDiscipline, TodoIsDirty, commitVars
<1>5. CASE BeginFails
    BY <1>3, <1>5 DEF BeginFails, LockDiscipline, TodoIsDirty, DirtyPages, Active, commitVars
<1>. QED
    BY <1>4, <1>5

\* Every error return of Commit.
LEMMA CommitErrorKeepsLock ==
    ASSUME LockInv, CommitReturnsError, PagerTypeOK', WALTypeOK'
    PROVE  LockInv'
BY ImageFacts DEF LockInv, CommitReturnsError, TypeOK, Modes, LockDiscipline, TodoIsDirty,
       Active, recoverVars, txVars

\* Each step of Commit, and each of its error returns, keeps it.
LEMMA CommitKeepsLock ==
    ASSUME LockInv,
           \/ \E t \in TxId : CommitLog(t) \/ CommitLogFails(t)
           \/ CommitSync \/ CommitSyncFails \/ CommitFlush \/ CommitFlushFails
           \/ \E p \in PageId : CommitWrite(p) \/ CommitWriteFails(p)
    PROVE  LockInv'
<1>. USE DEF LockInv, TypeOK
<1>1. ASSUME NEW t \in TxId, CommitLog(t) PROVE LockInv'
    <2>1. WALTypeOK' /\ PagerTypeOK'
        BY <1>1, RecordFacts, WALTypes, PagerTypes DEF CommitLog
    <2>2. TypeOK'
        BY <1>1, <2>1 DEF CommitLog, Modes, recoverVars, txVars
    <2>3. t \in Active /\ committing = 0 /\ todo = {}
        BY <1>1, ImageFacts DEF CommitLog, Active, LockDiscipline, TodoIsDirty
    <2>. QED
        BY <1>1, <2>2, <2>3, ImageFacts
        DEF CommitLog, LockDiscipline, TodoIsDirty, Active, DirtyPages, txVars
<1>2. ASSUME NEW t \in TxId, CommitLogFails(t) PROVE LockInv'
    BY <1>2, WALTypes, PagerTypes, ManagerStutters DEF CommitLogFails, ManagerUnchanged
<1>3. ASSUME CommitSync PROVE LockInv'
    <2>1. WALTypeOK' /\ PagerTypeOK'
        BY <1>3, WALTypes, PagerTypes DEF CommitSync
    <2>2. TypeOK'
        BY <1>3, <2>1 DEF CommitSync, AfterWriting, Modes, DirtyPages, recoverVars, txVars
    <2>. QED
        BY <1>3, <2>2
        DEF CommitSync, AfterWriting, LockDiscipline, TodoIsDirty, Active, DirtyPages, txVars
<1>4. ASSUME CommitSyncFails PROVE LockInv'
    BY <1>4, WALTypes, PagerTypes, CommitErrorKeepsLock DEF CommitSyncFails
<1>5. ASSUME NEW p \in PageId, CommitWrite(p) \/ CommitWriteFails(p) PROVE LockInv'
    <2>1. committing \in TxId /\ p \in DirtyPages(committing)
        BY <1>5, ImageFacts DEF CommitWrite, CommitWriteFails, LockDiscipline, TodoIsDirty
    <2>2. dirty[committing][p] \in Data
        BY <2>1 DEF DirtyPages, Image
    <2>3. WALTypeOK' /\ PagerTypeOK'
        BY <1>5, <2>2, WALTypes, PagerTypes DEF CommitWrite, CommitWriteFails
    <2>4. CASE CommitWrite(p)
        BY <2>1, <2>3, <2>4, ImageFacts
        DEF CommitWrite, AfterWriting, Modes, LockDiscipline, TodoIsDirty, Active,
            DirtyPages, recoverVars, txVars
    <2>5. CASE CommitWriteFails(p)
        BY <2>3, <2>5, CommitErrorKeepsLock DEF CommitWriteFails
    <2>. QED
        BY <1>5, <2>4, <2>5
<1>6. ASSUME CommitFlush PROVE LockInv'
    <2>1. committing \in TxId /\ Active = {committing}
        BY <1>6 DEF CommitFlush, LockDiscipline, Active
    <2>2. WALTypeOK' /\ PagerTypeOK'
        BY <1>6, WALTypes, PagerTypes DEF CommitFlush
    <2>3. TypeOK'
        BY <1>6, <2>1, <2>2 DEF CommitFlush, Modes, NoDirtyPages, Image, recoverVars
    <2>4. Active' = {}
        BY <1>6, <2>1 DEF CommitFlush, Active
    <2>. QED
        BY <1>6, <2>3, <2>4 DEF CommitFlush, LockDiscipline, TodoIsDirty
<1>7. ASSUME CommitFlushFails PROVE LockInv'
    BY <1>7, WALTypes, PagerTypes, CommitErrorKeepsLock DEF CommitFlushFails
<1>. QED
    BY <1>1, <1>2, <1>3, <1>4, <1>5, <1>6, <1>7

\* Rollback, or its failure, keeps it.
LEMMA RollbackKeepsLock ==
    ASSUME LockInv, NEW t \in TxId, Rollback(t) \/ RollbackFails(t)
    PROVE  LockInv'
<1>. USE DEF LockInv, TypeOK
<1>1. CASE Rollback(t)
    <2>1. Active = {t} /\ committing = 0
        BY <1>1, ImageFacts DEF Rollback, Active, LockDiscipline
    <2>2. WALTypeOK' /\ PagerTypeOK'
        BY <1>1, RecordFacts, WALTypes, PagerTypes DEF Rollback
    <2>3. TypeOK'
        BY <1>1, <2>2 DEF Rollback, NoDirtyPages, Image, commitVars, recoverVars
    <2>4. Active' = {}
        BY <1>1, <2>1 DEF Rollback, Active
    <2>. QED
        BY <1>1, <2>1, <2>3, <2>4 DEF Rollback, LockDiscipline, TodoIsDirty, commitVars
<1>2. CASE RollbackFails(t)
    BY <1>2, RecordFacts, WALTypes, PagerTypes, ManagerStutters DEF RollbackFails, ManagerUnchanged
<1>. QED
    BY <1>1, <1>2

\* A page operation changes the dirty pages of a transaction outside Commit.
LEMMA DirtyingKeepsLock ==
    ASSUME LockInv, NEW t \in TxId, NEW p \in PageId, NEW d \in Data,
           dirty' = [dirty EXCEPT ![t][p] = d],
           committing # t,
           UNCHANGED <<txState, globalLock, nextTxID, commitVars, recoverVars, indexPages, crashes>>,
           PagerTypeOK', WALTypeOK'
    PROVE  LockInv'
<1>1. TypeOK'
    BY DEF LockInv, TypeOK, Image, commitVars, recoverVars
<1>. QED
    BY <1>1 DEF LockInv, TypeOK, LockDiscipline, TodoIsDirty, DirtyPages, Active, commitVars

\* No page operation touches the lock or a transaction's state.
LEMMA PageOperationsKeepLock ==
    ASSUME LockInv,
           \/ \E t \in TxId, p \in PageId, v \in Values : WritePage(t, p, v) \/ WritePageFails(t, p, v)
           \/ \E t \in TxId : AllocatePage(t) \/ AllocatePageFails(t)
           \/ \E p \in PageId : FetchPage(p)
           \/ ReloadCatalogPage \/ AllocateIndexPage
           \/ \E p \in PageId, v \in Values : WriteIndexPage(p, v)
    PROVE  LockInv'
<1>. USE DEF LockInv, TypeOK
<1>1. ASSUME NEW t \in TxId, NEW p \in PageId, NEW v \in Values,
             WritePage(t, p, v) \/ WritePageFails(t, p, v)
      PROVE  LockInv'
    <2>1. WALTypeOK' /\ PagerTypeOK' /\ v \in Data
        BY <1>1, ImageFacts, RecordFacts, WALTypes, PagerTypes DEF WritePage, WritePageFails
    <2>. QED
        BY <1>1, <2>1, DirtyingKeepsLock DEF WritePage, WritePageFails, Usable
<1>2. ASSUME NEW t \in TxId, AllocatePage(t) \/ AllocatePageFails(t) PROVE LockInv'
    <2>1. PagerTypeOK'
        BY <1>2, PagerTypes DEF AllocatePage, AllocatePageFails
    <2>2. CASE dirty' = dirty /\ walVars' = walVars
        <3>1. ManagerUnchanged
            BY <1>2, <2>2 DEF AllocatePage, AllocatePageFails, ManagerUnchanged, txVars
        <3>. QED
            BY <2>1, <2>2, <3>1, WALTypes, ManagerStutters
    <2>3. CASE /\ PagerAllocate
               /\ dirty' = [dirty EXCEPT ![t][nextPageID] = Zero]
               /\ WalAppend(UpdateRecord(t, nextPageID, Zero)) \/ WalAppendFails
        <3>1. nextPageID \in PageId
            BY <2>3, ImageFacts DEF PagerAllocate, PagerTypeOK, PageId
        <3>2. WALTypeOK'
            BY <2>3, <3>1, ImageFacts, RecordFacts, WALTypes
        <3>. QED
            BY <1>2, <2>1, <2>3, <3>1, <3>2, ImageFacts, DirtyingKeepsLock
            DEF AllocatePage, AllocatePageFails, Usable
    <2>. QED
        BY <1>2, <2>2, <2>3 DEF AllocatePage, AllocatePageFails, walVars
<1>3. ASSUME NEW p \in PageId, FetchPage(p) PROVE LockInv'
    BY <1>3, WALTypes, PagerTypes, ManagerStutters DEF FetchPage, ManagerUnchanged
<1>4. ASSUME ReloadCatalogPage PROVE LockInv'
    BY <1>4, ImageFacts, WALTypes, PagerTypes, ManagerStutters DEF ReloadCatalogPage, ManagerUnchanged
<1>5. ASSUME AllocateIndexPage PROVE LockInv'
    <2>1. WALTypeOK' /\ PagerTypeOK'
        BY <1>5, WALTypes, PagerTypes DEF AllocateIndexPage
    <2>2. nextPageID \in PageId
        BY <1>5, ImageFacts DEF AllocateIndexPage, PagerAllocate, PagerTypeOK, PageId
    <2>. QED
        BY <1>5, <2>1, <2>2
        DEF AllocateIndexPage, LockDiscipline, TodoIsDirty, DirtyPages, Active,
            commitVars, recoverVars, txVars
<1>6. ASSUME NEW p \in PageId, NEW v \in Values, WriteIndexPage(p, v) PROVE LockInv'
    BY <1>6, ImageFacts, WALTypes, PagerTypes, ManagerStutters DEF WriteIndexPage, ManagerUnchanged
<1>. QED
    BY <1>1, <1>2, <1>3, <1>4, <1>5, <1>6

\* A crash leaves no transaction and no lock.
LEMMA CrashKeepsLock == LockInv /\ Crash => LockInv'
<1>. SUFFICES ASSUME LockInv, Crash PROVE LockInv'
    OBVIOUS
<1>. USE DEF LockInv, TypeOK
<1>1. disk' \in [PageId -> Data]
    BY CrashTypes DEF Crash
<1>2. wal' \in Seq(LogRecord) /\ <<>> \in Seq(LogRecord)
    BY SurvivorsAreLogs, EmptySeq DEF Crash
<1>3. WALTypeOK'
    BY <1>2, LenProperties DEF Crash, WALTypeOK
<1>4. PagerTypeOK'
    BY <1>1, ImageFacts DEF Crash, PagerTypeOK, EmptyCache, Image
<1>5. TypeOK'
    <2>1. dirty' \in [TxId -> [PageId -> Image]]
        BY DEF Crash, NoDirtyPages, Image
    <2>2. nextTxID' \in 1 .. MaxTx + 1 /\ crashes' \in Nat /\ cursor' \in Nat \ {0}
        BY ImageFacts DEF Crash
    <2>. QED
        BY <1>2, <1>3, <1>4, <2>1, <2>2 DEF Crash, Modes
<1>. QED
    BY <1>5, ImageFacts DEF Crash, LockDiscipline, TodoIsDirty, Active

\* Recovery runs without transactions.
LEMMA RecoveryKeepsLock ==
    LockInv /\ (Open \/ OpenFails \/ Redo \/ RecoverFlush \/ RecoverTruncate) => LockInv'
<1>. SUFFICES ASSUME LockInv, Open \/ OpenFails \/ Redo \/ RecoverFlush \/ RecoverTruncate
              PROVE  LockInv'
    OBVIOUS
<1>. USE DEF LockInv, TypeOK
<1>1. WALTypeOK'
    BY WALTypes DEF Open, OpenFails, Redo, RecoverFlush, RecoverTruncate
<1>2. PagerTypeOK'
    <2>1. CASE Redo
        <3>1. cursor <= Len(records) => records[cursor] \in LogRecord
            BY LenProperties, ElementOfSeq
        <3>. QED
            BY <2>1, <3>1, PagerTypes DEF Redo, LogRecord
    <2>. QED
        BY <2>1, ImageFacts, PagerTypes DEF Open, OpenFails, RecoverFlush, RecoverTruncate
<1>3. records' \in Seq(LogRecord)
    BY ReadableIsLog, EmptySeq DEF Open, OpenFails, Redo, RecoverFlush, RecoverTruncate,
       recoverVars, WALTypeOK
<1>4. TypeOK'
    BY <1>1, <1>2, <1>3
    DEF Open, OpenFails, Redo, RecoverFlush, RecoverTruncate, Modes, commitVars, recoverVars, txVars
<1>. QED
    BY <1>4
    DEF Open, OpenFails, Redo, RecoverFlush, RecoverTruncate, LockDiscipline, TodoIsDirty,
        DirtyPages, Active, commitVars, txVars

\* Every step keeps the invariant.
LEMMA LockInvStep == LockInv /\ [Next]_vars => LockInv'
<1>. SUFFICES ASSUME LockInv, [Next]_vars PROVE LockInv'
    OBVIOUS
<1>1. CASE UNCHANGED vars
    BY <1>1, WALTypes, PagerTypes, ManagerStutters DEF vars, ManagerUnchanged, LockInv, TypeOK
<1>. QED
    BY <1>1, BeginKeepsLock, CommitKeepsLock, RollbackKeepsLock, PageOperationsKeepLock,
       CrashKeepsLock, RecoveryKeepsLock DEF Next

\* Every variable keeps its type, whatever I/O calls fail and whenever the
\* process crashes.
THEOREM TypeCorrect == Spec => []TypeOK
BY LockInvInit, LockInvStep, PTL DEF Spec, LockInv

\* No error path of Begin, Commit or Rollback leaves two transactions active,
\* releases globalLock while one is, or keeps it when none is.
THEOREM LockIsDisciplined == Spec => []LockDiscipline
BY LockInvInit, LockInvStep, PTL DEF Spec, LockInv

-----------------------------------------------------------------------------
(***************************************************************************)
(* RedoStaysInBounds holds for every value of the constants, whatever I/O  *)
(* calls fail.  The pages that a log mentions are all below the number     *)
(* that AllocatePage hands out next, and none was given to B+tree code; a  *)
(* restart computes that number from the file, which covers them all.      *)
(***************************************************************************)

\* The pages of the updates of a log.
LoggedPages(log) == {log[i].page : i \in {j \in DOMAIN log : log[j].type = "update"}}

\* The pages that recovery may write now or after the next crash.
Logged == LoggedPages(wal) \cup LoggedPages(stale) \cup LoggedPages(records)

\* Page numbers below this one are taken.
Taken == IF mode \in {"down", "failed"} THEN size ELSE nextPageID

\* The inductive invariant, beside LockInv.
BoundsInv ==
    /\ nextPageID <= size
    /\ \A p \in Logged : p < Taken /\ p \notin indexPages
    /\ \A p \in indexPages : p < Taken

-----------------------------------------------------------------------------
\* A log that has grown by one record mentions the page of that record at most.
LEMMA LoggedByAppend ==
    ASSUME NEW log \in Seq(LogRecord), NEW r \in LogRecord
    PROVE  \A p \in LoggedPages(Append(log, r)) :
               p \in LoggedPages(log) \/ (r.type = "update" /\ p = r.page)
<1>1. /\ Len(log) \in Nat /\ DOMAIN log = 1 .. Len(log)
      /\ DOMAIN Append(log, r) = 1 .. Len(log) + 1
      /\ Append(log, r)[Len(log) + 1] = r
      /\ \A i \in 1 .. Len(log) : Append(log, r)[i] = log[i]
    BY AppendProperties, LenProperties
<1>. QED
    BY <1>1 DEF LoggedPages

\* An empty log mentions no page.
LEMMA NothingLogged == LoggedPages(<<>>) = {}
BY EmptySeq DEF LoggedPages

\* A prefix of a log mentions no other page.
LEMMA LoggedByPrefix ==
    ASSUME NEW log \in Seq(LogRecord), NEW k \in 0 .. Len(log)
    PROVE  LoggedPages(SubSeq(log, 1, k)) \subseteq LoggedPages(log)
<1>1. DOMAIN log = 1 .. Len(log) /\ Len(log) \in Nat
    BY LenProperties
<1>. QED
    BY <1>1, PrefixOfLog DEF LoggedPages

\* A crash adds nothing to what the log mentions.
LEMMA LoggedBySurvivor ==
    ASSUME WALTypeOK, NEW log \in Survivors
    PROVE  LoggedPages(log) \subseteq LoggedPages(wal) \cup LoggedPages(stale)
<1>1. wal \in Seq(LogRecord) /\ synced \in 0 .. Len(wal) /\ Len(wal) \in Nat
    BY LenProperties DEF WALTypeOK
<1>2. CASE \E k \in synced .. Len(wal) : log = SubSeq(wal, 1, k)
    BY <1>1, <1>2, LoggedByPrefix
<1>3. CASE \E k \in synced .. Len(wal) - 1 : log = Append(SubSeq(wal, 1, k), TornRecord)
    <2>1. PICK k \in synced .. Len(wal) - 1 : log = Append(SubSeq(wal, 1, k), TornRecord)
        BY <1>3
    <2>2. k \in 0 .. Len(wal)
        BY <1>1
    <2>3. SubSeq(wal, 1, k) \in Seq(LogRecord)
        BY <1>1, <2>2, PrefixOfLog
    <2>4. TornRecord.type # "update"
        BY DEF TornRecord, Record
    <2>. QED
        BY <1>1, <2>1, <2>2, <2>3, <2>4, LoggedByAppend, LoggedByPrefix, RecordFacts
<1>4. CASE log = stale
    BY <1>4
<1>. QED
    BY <1>2, <1>3, <1>4 DEF Survivors

\* Nor does reading it.
LEMMA LoggedByReader ==
    ASSUME NEW log \in Seq(LogRecord)
    PROVE  LoggedPages(Readable(log)) \subseteq LoggedPages(log)
<1>1. CASE TornAt(log) = {}
    BY <1>1 DEF Readable
<1>2. CASE TornAt(log) # {}
    <2>1. TornAt(log) \subseteq 1 .. Len(log) /\ Len(log) \in Nat
        BY LenProperties DEF TornAt
    <2>2. FirstTorn(log) \in 1 .. Len(log)
        BY <1>2, <2>1, SmallestOf DEF FirstTorn
    <2>3. FirstTorn(log) - 1 \in 0 .. Len(log)
        BY <2>1, <2>2
    <2>. QED
        BY <1>2, <2>3, LoggedByPrefix DEF Readable
<1>. QED
    BY <1>1, <1>2

-----------------------------------------------------------------------------
\* The invariant gives the property.
LEMMA BoundsInvGives == LockInv /\ BoundsInv => RedoStaysInBounds
<1>. SUFFICES ASSUME LockInv, BoundsInv,
                     NEW log \in Survivors \cup {records},
                     NEW i \in DOMAIN log, log[i].type = "update"
              PROVE  log[i].page < size /\ log[i].page \notin indexPages
    BY DEF RedoStaysInBounds
<1>1. log[i].page \in LoggedPages(log)
    BY DEF LoggedPages
<1>2. LoggedPages(log) \subseteq Logged
    BY LoggedBySurvivor DEF Logged, LockInv, TypeOK
<1>3. log \in Seq(LogRecord)
    BY SurvivorsAreLogs DEF LockInv, TypeOK
<1>4. log[i].page \in PageId
    BY <1>3, RecordsOfLog
<1>5. Taken <= size /\ size \in Nat /\ nextPageID \in Nat
    BY ImageFacts DEF Taken, BoundsInv, LockInv, TypeOK, PagerTypeOK
<1>6. log[i].page < Taken /\ log[i].page \notin indexPages
    BY <1>1, <1>2 DEF BoundsInv
<1>7. Taken \in Nat /\ log[i].page \in Nat
    BY <1>4, <1>5, ImageFacts DEF PageId, Taken
<1>. QED
    BY <1>5, <1>6, <1>7

\* Page numbers are numbers.
LEMMA NumbersAreNat ==
    ASSUME LockInv
    PROVE  Logged \subseteq Nat /\ indexPages \subseteq Nat /\ Taken \in Nat
<1>1. ASSUME NEW log \in Seq(LogRecord) PROVE LoggedPages(log) \subseteq Nat
    BY RecordsOfLog DEF LoggedPages
<1>. QED
    BY <1>1, ImageFacts DEF Logged, Taken, LockInv, TypeOK, WALTypeOK, PagerTypeOK, PageId

\* Most steps mention no new page, and take page numbers only away.
LEMMA NothingNew ==
    ASSUME LockInv, LockInv', BoundsInv, Logged' \subseteq Logged, indexPages' = indexPages,
           nextPageID' <= size', Taken <= Taken'
    PROVE  BoundsInv'
<1>1. Taken \in Nat /\ Taken' \in Nat /\ Logged \subseteq Nat /\ indexPages \subseteq Nat
    BY NumbersAreNat, ImageFacts DEF Taken, LockInv, TypeOK, PagerTypeOK
<1>. QED
    BY <1>1 DEF BoundsInv

\* AllocatePage hands out the number Taken, which nothing mentions.
LEMMA NextNumberIsFree ==
    ASSUME LockInv, BoundsInv
    PROVE  /\ Taken \notin Logged /\ Taken \notin indexPages
           /\ \A p \in Logged \cup indexPages : p < Taken + 1
BY NumbersAreNat DEF BoundsInv

\* What the calls of the pager do to the file's size and the page numbers.
LEMMA PagerNumbers ==
    ASSUME PagerTypeOK, nextPageID <= size
    PROVE  /\ \A p \in PageId, d \in Data : PagerWrite(p, d) \/ PagerWriteFails(p, d) =>
                  nextPageID' = nextPageID /\ nextPageID' <= size' /\ size <= size'
           /\ PagerAllocate =>
                  /\ nextPageID' = nextPageID + 1 /\ nextPageID' <= size' /\ size <= size'
                  /\ nextPageID \in PageId
           /\ PagerAllocateFails =>
                  nextPageID' = nextPageID /\ nextPageID' <= size' /\ size <= size'
           /\ \/ \E p \in PageId : PagerFetch(p) \/ PagerReload(p)
              \/ PagerFlush \/ PagerFlushFails \/ UNCHANGED pagerVars
              => nextPageID' = nextPageID /\ size' = size
<1>. USE ImageFacts DEF PagerTypeOK, PageId
<1>1. ASSUME NEW p \in PageId, NEW d \in Data, PagerWrite(p, d) \/ PagerWriteFails(p, d)
      PROVE  nextPageID' = nextPageID /\ nextPageID' <= size' /\ size <= size'
    BY <1>1 DEF PagerWrite, PagerWriteFails, Grown
<1>2. ASSUME PagerAllocate \/ PagerAllocateFails
      PROVE  nextPageID \in PageId /\ size <= size' /\ nextPageID <= size'
    BY <1>2 DEF PagerAllocate, PagerAllocateFails, Grown
<1>3. ASSUME PagerAllocate PROVE nextPageID' = nextPageID + 1 /\ nextPageID' <= size'
    BY <1>3 DEF PagerAllocate, Grown
<1>. QED
    BY <1>1, <1>2, <1>3
    DEF PagerAllocateFails, PagerFetch, PagerReload, PagerFlush, PagerFlushFails, pagerVars

\* What the calls of the log do to the pages it mentions.
LEMMA WALLogged ==
    ASSUME WALTypeOK
    PROVE  /\ \A r \in LogRecord : WalAppend(r) \/ WalForce(r) \/ WalForceFails(r) =>
                  \A p \in LoggedPages(wal)' \cup LoggedPages(stale)' :
                      \/ p \in LoggedPages(wal) \cup LoggedPages(stale)
                      \/ r.type = "update" /\ p = r.page
           /\ WalAppendFails \/ WalSync \/ WalSyncFails \/ WalTruncate \/ UNCHANGED walVars =>
                  LoggedPages(wal)' \cup LoggedPages(stale)'
                      \subseteq LoggedPages(wal) \cup LoggedPages(stale)
<1>. USE NothingLogged DEF WALTypeOK
<1>1. ASSUME NEW r \in LogRecord, WalAppend(r) \/ WalForce(r),
             NEW p \in LoggedPages(wal)' \cup LoggedPages(stale)'
      PROVE  \/ p \in LoggedPages(wal) \cup LoggedPages(stale)
             \/ r.type = "update" /\ p = r.page
    BY <1>1, LoggedByAppend DEF WalAppend, WalForce
<1>2. ASSUME WalAppendFails
      PROVE  LoggedPages(wal)' \cup LoggedPages(stale)'
                 \subseteq LoggedPages(wal) \cup LoggedPages(stale)
    <2>1. TornRecord.type # "update"
        BY DEF TornRecord, Record
    <2>. QED
        BY <1>2, <2>1, LoggedByAppend, RecordFacts DEF WalAppendFails
<1>. QED
    BY <1>1, <1>2 DEF WalForceFails, WalSync, WalSyncFails, WalTruncate, walVars

-----------------------------------------------------------------------------
\* A new database has an empty log and no index.
LEMMA BoundsInvInit == Init => BoundsInv
BY NothingLogged, ImageFacts DEF Init, WALInit, BoundsInv, Logged

\* Steps of a transaction that log nothing but its own records.
LEMMA ManagerKeepsBounds ==
    ASSUME LockInv, LockInv', BoundsInv,
           \/ Begin \/ BeginFails
           \/ \E t \in TxId : CommitLog(t) \/ CommitLogFails(t) \/ Rollback(t) \/ RollbackFails(t)
           \/ CommitSync \/ CommitSyncFails \/ CommitFlush \/ CommitFlushFails
           \/ \E p \in PageId : CommitWrite(p) \/ CommitWriteFails(p)
    PROVE  BoundsInv'
<1>. USE DEF LockInv, TypeOK
<1>1. /\ UNCHANGED <<records, indexPages>>
      /\ mode \notin {"down", "failed"} /\ mode' \notin {"down", "failed"}
    BY DEF Begin, BeginFails, CommitLog, CommitLogFails, Rollback, RollbackFails, CommitSync,
           CommitSyncFails, CommitFlush, CommitFlushFails, CommitWrite, CommitWriteFails,
           CommitReturnsError, AfterWriting, commitVars, recoverVars
<1>2. Logged' \subseteq Logged
    <2>1. ASSUME NEW t \in TxId, NEW type \in {"begin", "commit", "abort"},
                 \/ WalAppend(Record(type, t)) \/ WalForce(Record(type, t))
                 \/ WalForceFails(Record(type, t))
          PROVE  Logged' \subseteq Logged
        <3>1. Record(type, t) \in LogRecord /\ Record(type, t).type # "update"
            BY <2>1, RecordFacts DEF Record
        <3>. QED
            BY <1>1, <2>1, <3>1, WALLogged DEF Logged
    <2>2. CASE Begin \/ BeginFails
        BY <2>1, <2>2, ImageFacts DEF Begin, BeginFails, TxId
    <2>3. CASE \E t \in TxId : CommitLog(t) \/ Rollback(t) \/ RollbackFails(t)
        BY <2>1, <2>3 DEF CommitLog, Rollback, RollbackFails
    <2>4. CASE WalAppendFails \/ WalSync \/ WalSyncFails \/ UNCHANGED walVars
        BY <1>1, <2>4, WALLogged DEF Logged
    <2>. QED
        BY <2>2, <2>3, <2>4
        DEF CommitLogFails, CommitSync, CommitSyncFails, CommitFlush, CommitFlushFails,
            CommitWrite, CommitWriteFails, walVars
<1>3. nextPageID' = nextPageID /\ nextPageID' <= size'
    <2>1. ASSUME NEW p \in PageId, CommitWrite(p) \/ CommitWriteFails(p)
          PROVE  dirty[committing][p] \in Data
        BY <2>1, ImageFacts
        DEF CommitWrite, CommitWriteFails, LockDiscipline, TodoIsDirty, DirtyPages, Image
    <2>. QED
        BY <2>1, PagerNumbers
        DEF Begin, BeginFails, CommitLog, CommitLogFails, Rollback, RollbackFails, CommitSync,
            CommitSyncFails, CommitFlush, CommitFlushFails, CommitWrite, CommitWriteFails, BoundsInv
<1>4. Taken = nextPageID /\ Taken' = nextPageID'
    BY <1>1 DEF Taken
<1>. QED
    BY <1>1, <1>2, <1>3, <1>4, NothingNew, ImageFacts DEF PagerTypeOK

\* A transaction logs pages that are taken and belong to no index; B+tree code
\* is given a page that no log mentions.
LEMMA PageOperationsKeepBounds ==
    ASSUME LockInv, LockInv', BoundsInv,
           \/ \E t \in TxId, p \in PageId, v \in Values : WritePage(t, p, v) \/ WritePageFails(t, p, v)
           \/ \E t \in TxId : AllocatePage(t) \/ AllocatePageFails(t)
           \/ \E p \in PageId : FetchPage(p)
           \/ ReloadCatalogPage \/ AllocateIndexPage
           \/ \E p \in PageId, v \in Values : WriteIndexPage(p, v)
    PROVE  BoundsInv'
<1>. USE DEF LockInv, TypeOK
<1>1. UNCHANGED <<mode, records>> /\ mode \notin {"down", "failed"}
    BY DEF WritePage, WritePageFails, AllocatePage, AllocatePageFails, FetchPage, Usable,
           ReloadCatalogPage, AllocateIndexPage, WriteIndexPage, PagerFree, Up, commitVars, recoverVars
<1>2. Taken = nextPageID /\ Taken' = nextPageID'
    BY <1>1 DEF Taken
<1>3. nextPageID \in Nat /\ size \in Nat /\ nextPageID' \in Nat
    BY ImageFacts DEF PagerTypeOK
<1>4. CASE \E t \in TxId, p \in PageId, v \in Values : WritePage(t, p, v)
    <2>1. PICK t \in TxId, p \in PageId, v \in Values : WritePage(t, p, v)
        BY <1>4
    <2>2. UpdateRecord(t, p, v) \in LogRecord /\ UpdateRecord(t, p, v).page = p
        BY RecordFacts, ImageFacts DEF UpdateRecord
    <2>3. \A q \in Logged' : q \in Logged \/ q = p
        BY <1>1, <2>1, <2>2, WALLogged DEF WritePage, Logged
    <2>4. nextPageID' = nextPageID /\ size' = size
        BY <2>1 DEF WritePage, pagerVars
    <2>. QED
        BY <1>2, <2>1, <2>3, <2>4 DEF WritePage, BoundsInv
<1>5. CASE \E t \in TxId, p \in PageId, v \in Values : WritePageFails(t, p, v)
    <2>1. Logged' \subseteq Logged /\ nextPageID' = nextPageID /\ size' = size /\ indexPages' = indexPages
        BY <1>1, <1>5, WALLogged DEF WritePageFails, Logged, pagerVars
    <2>. QED
        BY <1>2, <1>3, <2>1, NothingNew DEF BoundsInv
<1>6. CASE \E t \in TxId : AllocatePage(t)
    <2>1. PICK t \in TxId : AllocatePage(t)
        BY <1>6
    <2>2. nextPageID \in PageId /\ nextPageID' = nextPageID + 1 /\ nextPageID' <= size'
        BY <2>1, PagerNumbers DEF AllocatePage, BoundsInv
    <2>3. /\ UpdateRecord(t, nextPageID, Zero) \in LogRecord
          /\ UpdateRecord(t, nextPageID, Zero).page = nextPageID
        BY <2>2, RecordFacts, ImageFacts DEF UpdateRecord
    <2>4. \A q \in Logged' : q \in Logged \/ q = nextPageID
        BY <1>1, <2>1, <2>3, WALLogged DEF AllocatePage, Logged
    <2>. QED
        BY <1>2, <1>3, <2>1, <2>2, <2>4, NextNumberIsFree DEF AllocatePage, BoundsInv
<1>7. CASE \E t \in TxId : AllocatePageFails(t)
    <2>1. Logged' \subseteq Logged /\ indexPages' = indexPages
        BY <1>1, <1>7, WALLogged DEF AllocatePageFails, Logged
    <2>2. nextPageID <= nextPageID' /\ nextPageID' <= size'
        BY <1>3, <1>7, PagerNumbers DEF AllocatePageFails, BoundsInv
    <2>. QED
        BY <1>2, <2>1, <2>2, NothingNew
<1>8. CASE (\E p \in PageId : FetchPage(p)) \/ ReloadCatalogPage
    <2>1. Logged' = Logged /\ indexPages' = indexPages
        BY <1>1, <1>8 DEF FetchPage, ReloadCatalogPage, Logged, walVars
    <2>2. nextPageID' = nextPageID /\ size' = size
        BY <1>8, ImageFacts, PagerNumbers DEF FetchPage, ReloadCatalogPage, BoundsInv
    <2>. QED
        BY <1>2, <1>3, <2>1, <2>2, NothingNew DEF BoundsInv
<1>9. CASE AllocateIndexPage
    <2>1. Logged' = Logged /\ indexPages' = indexPages \cup {nextPageID}
        BY <1>1, <1>9 DEF AllocateIndexPage, Logged, walVars
    <2>2. nextPageID' = nextPageID + 1 /\ nextPageID' <= size'
        BY <1>9, PagerNumbers DEF AllocateIndexPage, BoundsInv
    <2>. QED
        BY <1>2, <1>3, <2>1, <2>2, NextNumberIsFree DEF BoundsInv
<1>10. CASE \E p \in PageId, v \in Values : WriteIndexPage(p, v)
    <2>1. Logged' = Logged /\ indexPages' = indexPages
        BY <1>1, <1>10 DEF WriteIndexPage, Logged, walVars
    <2>2. nextPageID' = nextPageID /\ nextPageID' <= size'
        BY <1>10, ImageFacts, PagerNumbers DEF WriteIndexPage, BoundsInv
    <2>. QED
        BY <1>2, <1>3, <2>1, <2>2, NothingNew
<1>. QED
    BY <1>4, <1>5, <1>6, <1>7, <1>8, <1>9, <1>10

\* After a crash page numbers are counted from the file, which has them all.
LEMMA CrashKeepsBounds ==
    ASSUME LockInv, LockInv', BoundsInv, Crash
    PROVE  BoundsInv'
<1>. USE DEF LockInv, TypeOK
<1>1. Logged' \subseteq Logged
    BY LoggedBySurvivor, NothingLogged DEF Crash, Logged
<1>2. Taken = nextPageID /\ Taken' = size /\ nextPageID' = 0 /\ size' = size
    BY DEF Crash, Taken
<1>. QED
    BY <1>1, <1>2, ImageFacts, NothingNew DEF Crash, BoundsInv, PagerTypeOK

\* Recovery takes the log as it is; Open takes nextPageID from the size of the file.
LEMMA RecoveryKeepsBounds ==
    ASSUME LockInv, LockInv', BoundsInv, Open \/ OpenFails \/ Redo \/ RecoverFlush \/ RecoverTruncate
    PROVE  BoundsInv'
<1>. USE DEF LockInv, TypeOK
<1>1. CASE Open
    <2>1. Logged' \subseteq Logged
        BY <1>1, LoggedByReader DEF Open, Logged, walVars, WALTypeOK
    <2>2. Taken = size /\ Taken' = size /\ nextPageID' = size /\ size' = size
        BY <1>1 DEF Open, PagerOpen, Taken
    <2>. QED
        BY <1>1, <2>1, <2>2, ImageFacts, NothingNew DEF Open, PagerTypeOK
<1>2. CASE OpenFails
    BY <1>2, NothingNew, ImageFacts
    DEF OpenFails, Logged, Taken, BoundsInv, pagerVars, walVars, recoverVars, PagerTypeOK
<1>3. CASE Redo \/ RecoverFlush \/ RecoverTruncate
    <2>1. Logged' \subseteq Logged
        BY <1>3, WALLogged, NothingLogged
        DEF Redo, RecoverFlush, RecoverTruncate, Logged, walVars, recoverVars
    <2>2. nextPageID' = nextPageID /\ nextPageID' <= size'
        <3>1. Redo /\ cursor <= Len(records) => records[cursor] \in LogRecord
            BY LenProperties, ElementOfSeq
        <3>. QED
            BY <1>3, <3>1, ImageFacts, PagerNumbers
            DEF Redo, RecoverFlush, RecoverTruncate, BoundsInv, LogRecord
    <2>3. Taken = nextPageID /\ Taken' = nextPageID'
        BY <1>3 DEF Redo, RecoverFlush, RecoverTruncate, Taken, commitVars
    <2>. QED
        BY <1>3, <2>1, <2>2, <2>3, ImageFacts, NothingNew
        DEF Redo, RecoverFlush, RecoverTruncate, PagerTypeOK
<1>. QED
    BY <1>1, <1>2, <1>3

\* Every step keeps the invariant.
LEMMA BoundsInvStep == LockInv /\ LockInv' /\ BoundsInv /\ [Next]_vars => BoundsInv'
<1>. SUFFICES ASSUME LockInv, LockInv', BoundsInv, [Next]_vars PROVE BoundsInv'
    OBVIOUS
<1>1. CASE UNCHANGED vars
    BY <1>1 DEF vars, BoundsInv, Logged, Taken, pagerVars, walVars, recoverVars, commitVars
<1>. QED
    BY <1>1, ManagerKeepsBounds, PageOperationsKeepBounds, CrashKeepsBounds, RecoveryKeepsBounds
    DEF Next

\* Whatever part of the log survives, redoing it writes only pages that the
\* file already has and that B+tree code was not given: AllocatePage never
\* hands a page number out twice, over crashes and failing I/O.
THEOREM RedoIsInBounds == Spec => []RedoStaysInBounds
<1>1. Spec => []LockInv
    BY LockInvInit, LockInvStep, PTL DEF Spec
<1>2. Spec => []BoundsInv
    BY <1>1, BoundsInvInit, BoundsInvStep, PTL DEF Spec
<1>. QED
    BY <1>1, <1>2, BoundsInvGives, PTL
=============================================================================
