--------------------------- MODULE DurabilityProofs ---------------------------
(***************************************************************************)
(* Theorems about WriteAhead, RepeatableReads, RollbackDiscards, NoSteal,  *)
(* CrashSafe and the refinement of CommittedStore, for every number of     *)
(* pages, transactions, log records and crashes, each under the weakest    *)
(* assumption on the I/O calls that may fail: a call of another kind       *)
(* refutes it.                                                             *)
(***************************************************************************)
EXTENDS TransactionManagerProofs

\* The updates of page p that transaction t has logged.
UpdatesOf(log, t, p) ==
    {i \in DOMAIN log : log[i].type = "update" /\ log[i].tx = t /\ log[i].page = p}

\* i is the last of the log positions S.
IsLast(i, S) == i \in S /\ \A j \in S : j <= i

\* The cache is write-through.
Coherent == \A p \in PageId : cache[p] \in {NoData, disk[p]}

\* A record is cut short only at the end of the log, and only by a crash; the
\* log that an unsynced Truncate removed is kept until the next Begin.
TailOnly(log) == \A i \in TornAt(log) : i = Len(log)
LogShape ==
    /\ TailOnly(wal) /\ TailOnly(stale)
    /\ Up => TornAt(wal) = {}
    /\ stale # <<>> => mode = "idle" /\ wal = <<>> /\ Active = {}
    /\ ~Up => Active = {}

\* Transactions follow one another in the log, each with its updates before
\* its COMMIT, which is durable unless its transaction still waits for Sync.
Serial ==
    /\ \A i, j \in DOMAIN wal : i < j => wal[i].tx <= wal[j].tx
    /\ \A i \in DOMAIN wal : wal[i].tx < nextTxID
    /\ \A t \in Active : nextTxID = t + 1
    /\ \A i, j \in DOMAIN wal :
           wal[i].type = "update" /\ wal[j].type = "commit" /\ wal[i].tx = wal[j].tx => i < j
    /\ \A j \in DOMAIN wal :
           wal[j].type = "commit" => j <= synced \/ (mode = "commitSync" /\ wal[j].tx = committing)
    /\ mode \in {"commitWrite", "commitFlush"} => synced = Len(wal)
    /\ \A t \in Active : t \in CommittedIn(wal) <=> t = committing

\* The workspace of the active transaction is what it has logged; the others
\* have none.
WorkspaceLogged ==
    /\ \A t \in TxId \ Active, p \in PageId : dirty[t][p] = NoData
    /\ \A t \in Active, p \in PageId :
           /\ dirty[t][p] = NoData <=> UpdatesOf(wal, t, p) = {}
           /\ \A i \in UpdatesOf(wal, t, p) :
                  IsLast(i, UpdatesOf(wal, t, p)) => wal[i].data = dirty[t][p]

\* The pages that Commit is about to bring up to the log.
Lagging == IF mode = "commitSync" THEN DirtyPages(committing) ELSE todo

\* Every other page of the file is what the log would make it.
FileAgrees ==
    /\ \A p \in PageId \ Lagging : Replayed(wal, p) = disk[p]
    /\ mode = "idle" => \A p \in PageId : Replayed(stale, p) = disk[p]

\* Recovery: the pages agree with the records that have been looked at.
RedoProgress ==
    /\ mode \in {"down", "failed"} =>
           cursor = 1
    /\ ~Up => \A t \in TxId, p \in PageId : dirty[t][p] = NoData
    /\ mode \in {"redo", "truncate"} => records = Readable(wal)
    /\ mode = "redo" =>
           \A p \in PageId : \A i \in Redos(records, p) :
               IsLast(i, {j \in Redos(records, p) : j < cursor}) => records[i].data = disk[p]
    /\ mode = "truncate" => \A p \in PageId : Replayed(wal, p) = disk[p]

\* The inductive invariant, beside LockInv and BoundsInv.
DurInv ==
    /\ Coherent
    /\ LogShape
    /\ Up => Serial /\ WorkspaceLogged /\ FileAgrees
    /\ RedoProgress

\* What fsyncs and page writes that fail leave of it: transactions follow one
\* another in the log, and once Commit writes pages the whole log is durable.
Ordered ==
    /\ \A i, j \in DOMAIN wal : i < j => wal[i].tx <= wal[j].tx
    /\ \A i \in DOMAIN wal : wal[i].tx < nextTxID
    /\ \A t \in Active : nextTxID = t + 1
    /\ mode \in {"commitWrite", "commitFlush"} => synced = Len(wal)
    /\ committing # 0 => committing \in CommittedIn(wal)

\* The inductive invariant while no append fails, beside LockInv.
AheadInv ==
    /\ ~Up => Active = {} /\ \A t \in TxId, p \in PageId : dirty[t][p] = NoData
    /\ Up => Ordered /\ WorkspaceLogged

-----------------------------------------------------------------------------
(* Logs.                                                                   *)

\* What Append does to a log, position by position.
LEMMA AppendFacts ==
    ASSUME NEW log \in Seq(LogRecord), NEW r \in LogRecord
    PROVE  /\ Append(log, r) \in Seq(LogRecord)
           /\ Len(log) \in Nat /\ DOMAIN log = 1 .. Len(log)
           /\ Len(Append(log, r)) = Len(log) + 1
           /\ DOMAIN Append(log, r) = 1 .. Len(log) + 1
           /\ Append(log, r)[Len(log) + 1] = r
           /\ \A i \in 1 .. Len(log) : Append(log, r)[i] = log[i]
BY AppendProperties, LenProperties

\* A record that is no COMMIT commits nothing; a COMMIT commits its transaction.
LEMMA CommittedByAppend ==
    ASSUME NEW log \in Seq(LogRecord), NEW r \in LogRecord
    PROVE  CommittedIn(Append(log, r)) =
               CommittedIn(log) \cup (IF r.type = "commit" THEN {r.tx} ELSE {})
<1>1. r.tx \in TxId
    BY DEF LogRecord
<1>2. ASSUME NEW t \in TxId
      PROVE  t \in CommittedIn(Append(log, r)) <=>
                 t \in CommittedIn(log) \/ (r.type = "commit" /\ t = r.tx)
    BY AppendFacts DEF CommittedIn
<1>. QED
    BY <1>1, <1>2 DEF CommittedIn

\* What UpdatesOf becomes when the log grows.
LEMMA UpdatesByAppend ==
    ASSUME NEW log \in Seq(LogRecord), NEW r \in LogRecord, NEW t, NEW p
    PROVE  UpdatesOf(Append(log, r), t, p) =
               UpdatesOf(log, t, p) \cup
               (IF r.type = "update" /\ r.tx = t /\ r.page = p THEN {Len(log) + 1} ELSE {})
BY AppendFacts DEF UpdatesOf

\* A record that commits nothing and belongs to no committed transaction
\* leaves what is to be redone as it was.
LEMMA RedosByAppend ==
    ASSUME NEW log \in Seq(LogRecord), NEW r \in LogRecord, NEW p,
           r.type # "commit",
           r.type = "update" => r.tx \notin CommittedIn(log)
    PROVE  /\ Redos(Append(log, r), p) = Redos(log, p)
           /\ \A i \in Redos(log, p) : Append(log, r)[i] = log[i]
<1>1. CommittedIn(Append(log, r)) = CommittedIn(log)
    BY CommittedByAppend
<1>. QED
    BY <1>1, AppendFacts DEF Redos, Redoable

\* A COMMIT adds the updates of its transaction to what is to be redone.
LEMMA RedosByCommit ==
    ASSUME NEW log \in Seq(LogRecord), NEW r \in LogRecord, NEW p, r.type = "commit"
    PROVE  /\ Redos(Append(log, r), p) = Redos(log, p) \cup UpdatesOf(log, r.tx, p)
           /\ \A i \in DOMAIN log : Append(log, r)[i] = log[i]
<1>1. CommittedIn(Append(log, r)) = CommittedIn(log) \cup {r.tx}
    BY CommittedByAppend
<1>. QED
    BY <1>1, AppendFacts DEF Redos, Redoable, UpdatesOf

\* LastRedo is the last of the updates to redo, the only one that is.
LEMMA LastRedoIsLast ==
    ASSUME NEW log \in Seq(LogRecord), NEW p
    PROVE  /\ Redos(log, p) \subseteq 1 .. Len(log)
           /\ Redos(log, p) # {} => IsLast(LastRedo(log, p), Redos(log, p))
           /\ \A i : IsLast(i, Redos(log, p)) => i = LastRedo(log, p)
<1>1. Redos(log, p) \subseteq 1 .. Len(log) /\ Len(log) \in Nat
    BY LenProperties DEF Redos
<1>2. ASSUME Redos(log, p) # {} PROVE IsLast(LastRedo(log, p), Redos(log, p))
    <2>1. \E i \in Redos(log, p) : \A j \in Redos(log, p) : j <= i
        BY <1>1, <1>2, LargestOf
    <2>. QED
        BY <2>1 DEF LastRedo, IsLast
<1>3. ASSUME NEW i, IsLast(i, Redos(log, p)) PROVE i = LastRedo(log, p)
    <2>1. IsLast(LastRedo(log, p), Redos(log, p))
        BY <1>2, <1>3 DEF IsLast
    <2>. QED
        BY <1>1, <1>3, <2>1 DEF IsLast
<1>. QED
    BY <1>1, <1>2, <1>3

\* Two logs with the same updates to redo restore the same image.
LEMMA SameRedos ==
    ASSUME NEW log \in Seq(LogRecord), NEW other \in Seq(LogRecord), NEW p,
           Redos(log, p) = Redos(other, p),
           \A i \in Redos(log, p) : log[i] = other[i]
    PROVE  Replayed(log, p) = Replayed(other, p)
<1>1. LastRedo(log, p) = LastRedo(other, p)
    BY DEF LastRedo
<1>2. Redos(log, p) # {} => LastRedo(log, p) \in Redos(log, p)
    BY LastRedoIsLast DEF IsLast
<1>. QED
    BY <1>1, <1>2 DEF Replayed

\* A reader that stops at the cut-short last record misses nothing.
LEMMA ReaderMissesNothing ==
    ASSUME NEW log \in Seq(LogRecord), TailOnly(log), NEW p
    PROVE  /\ Readable(log) \in Seq(LogRecord)
           /\ Redos(Readable(log), p) = Redos(log, p)
           /\ \A i \in Redos(log, p) : Readable(log)[i] = log[i]
<1>1. Readable(log) \in Seq(LogRecord)
    BY ReadableIsLog
<1>2. CASE TornAt(log) = {}
    BY <1>1, <1>2 DEF Readable
<1>3. CASE TornAt(log) # {}
    <2>. DEFINE k == Len(log) - 1
    <2>1. DOMAIN log = 1 .. Len(log) /\ Len(log) \in Nat
        BY LenProperties
    <2>2. TornAt(log) = {Len(log)} /\ log[Len(log)].type = "torn" /\ Len(log) \in 1 .. Len(log)
        BY <1>3, <2>1 DEF TornAt, TailOnly
    <2>3. FirstTorn(log) = Len(log)
        BY <2>2 DEF FirstTorn
    <2>4. Readable(log) = SubSeq(log, 1, k)
        BY <1>3, <2>3 DEF Readable
    <2>5. k \in 0 .. Len(log)
        BY <2>1, <2>2
    <2>6. /\ DOMAIN Readable(log) = 1 .. k
          /\ \A i \in 1 .. k : Readable(log)[i] = log[i]
        BY <2>4, <2>5, PrefixOfLog
    <2>7. \A i \in DOMAIN log : i \in 1 .. k \/ log[i].type = "torn"
        BY <2>1, <2>2
    <2>. HIDE DEF k
    <2>8. CommittedIn(Readable(log)) = CommittedIn(log)
        BY <2>1, <2>6, <2>7, <2>5 DEF CommittedIn
    <2>. QED
        BY <1>1, <2>1, <2>5, <2>6, <2>7, <2>8 DEF Redos, Redoable
<1>. QED
    BY <1>2, <1>3

\* A prefix of the log that has every COMMIT redoes what the whole log does.
LEMMA PrefixRedos ==
    ASSUME NEW log \in Seq(LogRecord), NEW k \in 0 .. Len(log), NEW p,
           \A j \in DOMAIN log : log[j].type = "commit" => j <= k,
           \A i, j \in DOMAIN log :
               log[i].type = "update" /\ log[j].type = "commit" /\ log[i].tx = log[j].tx => i < j
    PROVE  /\ Redos(SubSeq(log, 1, k), p) = Redos(log, p)
           /\ \A i \in Redos(log, p) : SubSeq(log, 1, k)[i] = log[i]
<1>. DEFINE part == SubSeq(log, 1, k)
<1>1. /\ DOMAIN log = 1 .. Len(log) /\ Len(log) \in Nat
      /\ DOMAIN part = 1 .. k /\ \A i \in 1 .. k : part[i] = log[i]
    BY PrefixOfLog, LenProperties
<1>. HIDE DEF part
<1>2. CommittedIn(part) = CommittedIn(log)
    BY <1>1 DEF CommittedIn
<1>3. \A i \in Redos(log, p) : i \in 1 .. k
    BY <1>1 DEF Redos, Redoable, CommittedIn
<1>4. Redos(part, p) = Redos(log, p)
    BY <1>1, <1>2, <1>3 DEF Redos, Redoable
<1>. QED
    BY <1>1, <1>3, <1>4 DEF part

-----------------------------------------------------------------------------
(* DurInv and the properties.                                              *)

\* Only the transaction in Commit is active while Commit runs.
LEMMA WhoIsActive ==
    ASSUME LockInv
    PROVE  /\ \A t \in TxId : Usable(t) => mode = "idle" /\ Active = {t} /\ committing = 0
           /\ mode \in {"commitSync", "commitWrite", "commitFlush"} =>
                  committing \in TxId /\ Active = {committing}
           /\ mode = "idle" => committing = 0
BY ImageFacts DEF LockInv, LockDiscipline, TypeOK, Modes, Usable, Up, Active

\* The one invariant says no more than the other.
LEMMA DurInvAhead == LockInv /\ DurInv => AheadInv
<1>. SUFFICES ASSUME LockInv, DurInv PROVE AheadInv
    OBVIOUS
<1>1. ASSUME Up PROVE Ordered
    <2>1. Serial
        BY <1>1 DEF DurInv
    <2>2. committing # 0 => committing \in Active /\ committing \in TxId
        BY DEF LockInv, LockDiscipline, Active
    <2>. QED
        BY <2>1, <2>2 DEF Serial, Ordered
<1>. QED
    BY <1>1 DEF DurInv, AheadInv, LogShape, RedoProgress

\* In Commit, the last image of a dirty page that the log redoes is the dirty one.
LEMMA CommittingRedos ==
    ASSUME LockInv, AheadInv, mode \in {"commitSync", "commitWrite", "commitFlush"},
           NEW p \in DirtyPages(committing)
    PROVE  Redos(wal, p) # {} /\ wal[LastRedo(wal, p)].data = dirty[committing][p]
<1>. DEFINE mine == UpdatesOf(wal, committing, p)
<1>1. committing \in Active /\ committing \in TxId /\ Up /\ p \in PageId
    BY WhoIsActive DEF Up, DirtyPages
<1>2. wal \in Seq(LogRecord) /\ DOMAIN wal = 1 .. Len(wal) /\ Len(wal) \in Nat
    BY LenProperties DEF LockInv, TypeOK, WALTypeOK
<1>3. Ordered /\ WorkspaceLogged /\ committing \in CommittedIn(wal)
    BY <1>1, ImageFacts DEF AheadInv, Ordered
<1>4. mine # {}
    BY <1>1, <1>3 DEF WorkspaceLogged, DirtyPages
<1>5. mine \subseteq Redos(wal, p)
    BY <1>1, <1>3 DEF Ordered, UpdatesOf, Redos, Redoable
<1>6. PICK i \in mine : \A j \in mine : j <= i
    <2>1. mine \subseteq 1 .. Len(wal)
        BY <1>2 DEF UpdatesOf
    <2>. QED
        BY <1>2, <1>4, <2>1, LargestOf
<1>7. ASSUME NEW j \in Redos(wal, p) PROVE j <= i
    <2>1. /\ j \in DOMAIN wal /\ wal[j].type = "update" /\ wal[j].page = p
          /\ i \in DOMAIN wal /\ wal[i].tx = committing
        BY <1>7 DEF Redos, Redoable, UpdatesOf
    <2>2. CASE wal[j].tx = committing
        BY <1>6, <2>1, <2>2 DEF UpdatesOf
    <2>3. CASE wal[j].tx # committing
        <3>1. wal[j].tx \in Nat /\ wal[i].tx \in Nat /\ wal[j].tx < wal[i].tx
            <4>1. wal[j].tx \in Nat /\ committing \in Nat
                BY <1>1, <1>2, <2>1, RecordsOfLog, ImageFacts DEF TxId
            <4>2. wal[j].tx < nextTxID /\ nextTxID = committing + 1
                BY <1>1, <1>3, <2>1 DEF Ordered
            <4>. QED
                BY <2>1, <2>3, <4>1, <4>2
        <3>. QED
            BY <1>2, <1>3, <2>1, <3>1 DEF Ordered
    <2>. QED
        BY <2>2, <2>3
<1>8. i = LastRedo(wal, p)
    BY <1>2, <1>5, <1>6, <1>7, LastRedoIsLast DEF IsLast
<1>9. wal[i].data = dirty[committing][p]
    BY <1>1, <1>3, <1>6 DEF WorkspaceLogged, IsLast
<1>. QED
    BY <1>4, <1>5, <1>8, <1>9

\* The invariant gives the write-ahead guarantee ...
LEMMA AheadInvWriteAhead == LockInv /\ AheadInv => WriteAhead
<1>. SUFFICES ASSUME LockInv, AheadInv, mode \in {"commitWrite", "commitFlush"}
              PROVE  /\ committing \in CommittedIn(Durable)
                     /\ \A p \in DirtyPages(committing) :
                            /\ Redos(Durable, p) # {}
                            /\ Durable[LastRedo(Durable, p)].data = dirty[committing][p]
    BY DEF WriteAhead
<1>1. wal \in Seq(LogRecord) /\ Len(wal) \in Nat
    BY LenProperties DEF LockInv, TypeOK, WALTypeOK
<1>2. Ordered /\ Up
    BY DEF AheadInv, Up
<1>3. Durable = wal
    BY <1>1, <1>2, SubSeqFull DEF Durable, Ordered
<1>4. committing \in CommittedIn(wal)
    BY <1>2, WhoIsActive, ImageFacts DEF Ordered
<1>. QED
    BY <1>3, <1>4, CommittingRedos

\* ... and the agreement of the file with every log that a crash may leave.
LEMMA DurInvCrashSafe == LockInv /\ DurInv => CrashSafe
<1>. SUFFICES ASSUME LockInv, DurInv, mode = "idle",
                     NEW log \in Survivors, NEW p \in 0 .. size - 1
              PROVE  Replayed(Readable(log), p) = Visible(p)
    BY DEF CrashSafe
<1>1. /\ wal \in Seq(LogRecord) /\ stale \in Seq(LogRecord) /\ synced \in 0 .. Len(wal)
      /\ Len(wal) \in Nat /\ size \in 0 .. MaxPages
    BY LenProperties DEF LockInv, TypeOK, WALTypeOK, PagerTypeOK
<1>2. p \in PageId
    BY <1>1, ImageFacts DEF PageId
<1>3. Up /\ Serial /\ FileAgrees /\ LogShape
    BY DEF DurInv, Up
<1>4. Visible(p) = disk[p]
    BY <1>2 DEF DurInv, Coherent, Visible
<1>5. Replayed(wal, p) = disk[p] /\ Replayed(stale, p) = disk[p]
    <2>1. Lagging = {}
        BY DEF Lagging, LockInv, TodoIsDirty
    <2>. QED
        BY <1>2, <1>3, <2>1 DEF FileAgrees
<1>6. ASSUME NEW k \in synced .. Len(wal)
      PROVE  /\ Redos(SubSeq(wal, 1, k), p) = Redos(wal, p)
             /\ \A i \in Redos(wal, p) : SubSeq(wal, 1, k)[i] = wal[i]
             /\ SubSeq(wal, 1, k) \in Seq(LogRecord)
             /\ TornAt(SubSeq(wal, 1, k)) = {}
    <2>1. k \in 0 .. Len(wal)
        BY <1>1
    <2>2. \A j \in DOMAIN wal : wal[j].type = "commit" => j <= k
        BY <1>1, <1>3, LenProperties DEF Serial
    <2>3. TornAt(SubSeq(wal, 1, k)) = {}
        BY <1>1, <1>3, <2>1, PrefixOfLog, LenProperties DEF LogShape, TornAt
    <2>. QED
        BY <1>1, <1>3, <2>1, <2>2, <2>3, PrefixOfLog, PrefixRedos DEF Serial
<1>7. /\ log \in Seq(LogRecord) /\ TailOnly(log)
      /\ Replayed(log, p) = disk[p]
    <2>1. CASE \E k \in synced .. Len(wal) : log = SubSeq(wal, 1, k)
        <3>1. /\ log \in Seq(LogRecord) /\ TornAt(log) = {}
              /\ Redos(log, p) = Redos(wal, p) /\ \A i \in Redos(wal, p) : log[i] = wal[i]
            <4>1. PICK k \in synced .. Len(wal) : log = SubSeq(wal, 1, k)
                BY <2>1
            <4>. QED
                BY <1>6, <4>1
        <3>2. Replayed(log, p) = Replayed(wal, p)
            BY <1>1, <3>1, SameRedos
        <3>. QED
            BY <1>5, <3>1, <3>2 DEF TailOnly
    <2>2. CASE \E k \in synced .. Len(wal) - 1 : log = Append(SubSeq(wal, 1, k), TornRecord)
        <3>1. PICK k \in synced .. Len(wal) - 1 : log = Append(SubSeq(wal, 1, k), TornRecord)
            BY <2>2
        <3>. DEFINE part == SubSeq(wal, 1, k)
        <3>2. /\ part \in Seq(LogRecord) /\ TornAt(part) = {} /\ Redos(part, p) = Redos(wal, p)
              /\ \A i \in Redos(wal, p) : part[i] = wal[i]
            <4>1. k \in synced .. Len(wal)
                BY <1>1, <3>1
            <4>. QED
                BY <1>6, <4>1
        <3>. HIDE DEF part
        <3>3. TornRecord \in LogRecord /\ TornRecord.type = "torn"
            BY RecordFacts DEF TornRecord, Record
        <3>4. log = Append(part, TornRecord)
            BY <3>1 DEF part
        <3>5. log \in Seq(LogRecord) /\ TailOnly(log)
            BY <3>2, <3>3, <3>4, AppendFacts DEF TailOnly, TornAt
        <3>6. Redos(log, p) = Redos(wal, p) /\ \A i \in Redos(log, p) : log[i] = wal[i]
            <4>1. TornRecord.type # "commit" /\ TornRecord.type # "update"
                BY <3>3
            <4>2. /\ Redos(Append(part, TornRecord), p) = Redos(part, p)
                  /\ \A i \in Redos(part, p) : Append(part, TornRecord)[i] = part[i]
                BY <3>2, <3>3, <4>1, RedosByAppend
            <4>. QED
                BY <3>2, <3>4, <4>2
        <3>7. Replayed(log, p) = Replayed(wal, p)
            BY <1>1, <3>5, <3>6, SameRedos
        <3>. QED
            BY <1>5, <3>5, <3>7
    <2>3. CASE log = stale
        BY <1>1, <1>3, <1>5, <2>3 DEF LogShape
    <2>. QED
        BY <2>1, <2>2, <2>3 DEF Survivors
<1>. QED
    BY <1>4, <1>7, ReaderMissesNothing, SameRedos

-----------------------------------------------------------------------------
(* Steps: what they do to each part of DurInv.                             *)

\* Without faults, no call fails.
LEMMA NothingFails ==
    ASSUME Faults = {}
    PROVE  /\ ~ WalAppendFails /\ ~ WalSyncFails /\ ~ PagerAllocateFails /\ ~ PagerFlushFails
           /\ \A r : ~ WalForceFails(r)
           /\ \A p, d : ~ PagerWriteFails(p, d)
BY DEF WalAppendFails, WalSyncFails, PagerAllocateFails, PagerFlushFails, WalForceFails,
       PagerWriteFails

\* No call of the pager makes the cache disagree with the file, and FlushAll
\* changes nothing.
LEMMA PagerCoherent ==
    ASSUME PagerTypeOK, Coherent
    PROVE  /\ \A p \in PageId, d \in Data : PagerWrite(p, d) => Coherent'
           /\ \A p \in PageId : PagerFetch(p) \/ PagerReload(p) => Coherent'
           /\ PagerAllocate \/ PagerOpen \/ UNCHANGED pagerVars => Coherent'
           /\ PagerFlush => Coherent' /\ disk' = disk
<1>. USE DEF Coherent, PagerTypeOK
<1>1. ASSUME NEW p \in PageId, NEW d \in Data, PagerWrite(p, d) PROVE Coherent'
    BY <1>1 DEF PagerWrite
<1>2. ASSUME NEW p \in PageId, PagerFetch(p) \/ PagerReload(p) PROVE Coherent'
    BY <1>2 DEF PagerFetch, PagerReload, Visible
<1>3. ASSUME PagerAllocate PROVE Coherent'
    BY <1>3 DEF PagerAllocate
<1>4. ASSUME PagerOpen \/ UNCHANGED pagerVars PROVE Coherent'
    BY <1>4 DEF PagerOpen, EmptyCache, pagerVars
<1>5. ASSUME PagerFlush PROVE disk' = disk
    <2>1. \A p \in PageId : Flushed(Cached)[p] = disk[p]
        BY DEF Flushed, Cached
    <2>. QED
        BY <1>5, <2>1 DEF PagerFlush, Flushed
<1>6. ASSUME PagerFlush PROVE Coherent'
    BY <1>5, <1>6 DEF PagerFlush
<1>. QED
    BY <1>1, <1>2, <1>3, <1>4, <1>5, <1>6

\* Of a page that no log mentions there is nothing to redo.
LEMMA UnloggedPage ==
    ASSUME NEW p, p \notin Logged
    PROVE  Redos(wal, p) = {} /\ Redos(stale, p) = {}
BY DEF Logged, LoggedPages, Redos, Redoable

\* A step that leaves the logs alone, and with them the file except for pages
\* that no log mentions.
LEMMA FileAgreesWithSameLog ==
    ASSUME FileAgrees, wal' = wal, stale' = stale, mode' = mode, Lagging' = Lagging,
           \A p \in PageId : disk'[p] = disk[p] \/ p \notin Logged
    PROVE  FileAgrees'
<1>1. ASSUME NEW p \in PageId
      PROVE  /\ Replayed(wal, p) = disk[p] => Replayed(wal, p)' = disk'[p]
             /\ Replayed(stale, p) = disk[p] => Replayed(stale, p)' = disk'[p]
    BY UnloggedPage DEF Replayed
<1>. QED
    BY <1>1 DEF FileAgrees

\* A step between calls that appends a record which commits nothing.
LEMMA FileAgreesByAppend ==
    ASSUME WALTypeOK, FileAgrees, Lagging = {}, Lagging' = {}, mode = "idle",
           NEW r \in LogRecord, r.type # "commit",
           r.type = "update" => r.tx \notin CommittedIn(wal),
           wal' = Append(wal, r), stale' \in {stale, <<>>},
           \A p \in PageId : disk'[p] = disk[p] \/ p \notin Logged
    PROVE  FileAgrees'
<1>1. ASSUME NEW p \in PageId
      PROVE  Replayed(wal, p)' = disk'[p] /\ Replayed(stale, p)' = disk'[p]
    <2>1. /\ Redos(wal', p) = Redos(wal, p)
          /\ \A i \in Redos(wal, p) : wal'[i] = wal[i]
        BY RedosByAppend DEF WALTypeOK
    <2>2. LastRedo(wal', p) = LastRedo(wal, p)
        BY <2>1 DEF LastRedo
    <2>3. Redos(wal, p) # {} => LastRedo(wal, p) \in Redos(wal, p)
        BY LastRedoIsLast DEF WALTypeOK, IsLast
    <2>4. Replayed(wal, p) = disk[p] /\ Replayed(stale, p) = disk[p]
        BY DEF FileAgrees
    <2>5. Redos(<<>>, p) = {}
        BY DEF Redos
    <2>6. Replayed(wal, p)' = disk'[p]
        BY <2>1, <2>2, <2>3, <2>4, UnloggedPage DEF Replayed
    <2>7. Replayed(stale, p)' = disk'[p]
        BY <2>4, <2>5, UnloggedPage DEF Replayed
    <2>. QED
        BY <2>6, <2>7
<1>. QED
    BY <1>1 DEF FileAgrees

\* A step between calls by which the newest transaction, which has not
\* committed, appends a record.
LEMMA SerialByAppend ==
    ASSUME LockInv, Serial, mode = "idle", mode' = "idle", committing' = 0, synced' \in Nat,
           NEW r \in LogRecord, r.type # "commit", wal' = Append(wal, r),
           nextTxID' \in Nat, nextTxID' = r.tx + 1, nextTxID <= nextTxID',
           r.tx \notin CommittedIn(wal), Active' \subseteq {r.tx}, synced <= synced'
    PROVE  Serial'
<1>. DEFINE n == Len(wal)
<1>1. /\ n \in Nat /\ DOMAIN wal = 1 .. n /\ DOMAIN wal' = 1 .. n + 1
      /\ wal'[n + 1] = r /\ \A i \in 1 .. n : wal'[i] = wal[i]
      /\ synced \in 0 .. n
    BY AppendFacts DEF LockInv, TypeOK, WALTypeOK
<1>2. \A i \in 1 .. n : wal[i].tx \in Nat /\ wal[i].tx \in TxId
    BY <1>1, RecordsOfLog, ImageFacts DEF LockInv, TypeOK, WALTypeOK, TxId
<1>3. r.tx \in Nat /\ r.tx \in TxId /\ r.tx # 0 /\ nextTxID \in Nat
    BY ImageFacts DEF LogRecord, TxId, LockInv, TypeOK
<1>. HIDE DEF n
<1>4. \A i \in 1 .. n : wal[i].tx < nextTxID
    BY <1>1 DEF Serial
<1>5. \A i \in 1 .. n : wal[i].tx <= r.tx
    BY <1>2, <1>3, <1>4
<1>6. ASSUME NEW i \in 1 .. n + 1, NEW j \in 1 .. n + 1, i < j
      PROVE  wal'[i].tx <= wal'[j].tx
    <2>1. i \in 1 .. n
        BY <1>1, <1>6
    <2>2. CASE j = n + 1
        BY <1>1, <1>5, <2>1, <2>2
    <2>3. CASE j # n + 1
        <3>1. j \in 1 .. n
            BY <1>1, <2>3
        <3>2. wal[i].tx <= wal[j].tx
            BY <1>1, <1>6, <2>1, <3>1 DEF Serial
        <3>. QED
            BY <1>1, <2>1, <3>1, <3>2
    <2>. QED
        BY <2>2, <2>3
<1>7. \A i \in 1 .. n + 1 : wal'[i].tx < nextTxID'
    BY <1>1, <1>2, <1>3, <1>5
<1>8. \A i, j \in 1 .. n + 1 :
          wal'[i].type = "update" /\ wal'[j].type = "commit" /\ wal'[i].tx = wal'[j].tx => i < j
    <2>. SUFFICES ASSUME NEW i \in 1 .. n + 1, NEW j \in 1 .. n + 1,
                         wal'[i].type = "update", wal'[j].type = "commit", wal'[i].tx = wal'[j].tx
                  PROVE  i < j
        OBVIOUS
    <2>1. j \in 1 .. n /\ wal[j].type = "commit"
        BY <1>1
    <2>2. wal[j].tx \in CommittedIn(wal)
        BY <1>1, <1>2, <2>1 DEF CommittedIn
    <2>3. i \in 1 .. n
        BY <1>1, <2>1, <2>2
    <2>. QED
        BY <1>1, <2>1, <2>3 DEF Serial
<1>9. \A j \in 1 .. n + 1 : wal'[j].type = "commit" => j <= synced'
    BY <1>1 DEF Serial
<1>10. r.tx \notin CommittedIn(wal')
    BY <1>3, CommittedByAppend DEF LockInv, TypeOK, WALTypeOK
<1>. QED
    BY <1>1, <1>3, <1>6, <1>7, <1>8, <1>9, <1>10 DEF Serial

\* A write of the active transaction that is logged.
LEMMA WorkspaceByWrite ==
    ASSUME LockInv, WorkspaceLogged, NEW t \in TxId, Active = {t}, txState' = txState,
           NEW p \in PageId, NEW d \in Data,
           dirty' = [dirty EXCEPT ![t][p] = d], wal' = Append(wal, UpdateRecord(t, p, d))
    PROVE  WorkspaceLogged'
<1>. DEFINE r == UpdateRecord(t, p, d)
<1>1. r \in LogRecord /\ r.type = "update" /\ r.tx = t /\ r.page = p /\ r.data = d
    BY RecordFacts DEF UpdateRecord
<1>. HIDE DEF r
<1>2. wal' = Append(wal, r)
    BY DEF r
<1>3. Active' = {t} /\ wal \in Seq(LogRecord) /\ dirty \in [TxId -> [PageId -> Image]]
    BY DEF Active, LockInv, TypeOK, WALTypeOK
<1>4. ASSUME NEW u \in TxId \ {t}, NEW q \in PageId PROVE dirty'[u][q] = NoData
    BY <1>3, <1>4 DEF WorkspaceLogged
<1>5. ASSUME NEW q \in PageId
      PROVE  /\ dirty'[t][q] = NoData <=> UpdatesOf(wal', t, q) = {}
             /\ \A i \in UpdatesOf(wal', t, q) :
                    IsLast(i, UpdatesOf(wal', t, q)) => wal'[i].data = dirty'[t][q]
    <2>1. /\ UpdatesOf(wal', t, q) =
                 UpdatesOf(wal, t, q) \cup (IF q = p THEN {Len(wal) + 1} ELSE {})
          /\ UpdatesOf(wal, t, q) \subseteq 1 .. Len(wal)
          /\ Len(wal) \in Nat
          /\ wal'[Len(wal) + 1] = r /\ \A i \in 1 .. Len(wal) : wal'[i] = wal[i]
        BY <1>1, <1>2, <1>3, UpdatesByAppend, AppendFacts DEF UpdatesOf
    <2>2. CASE q = p
        <3>1. dirty'[t][q] = d /\ d # NoData
            BY <1>3, <2>2, ImageFacts
        <3>2. \A i : IsLast(i, UpdatesOf(wal', t, q)) => i = Len(wal) + 1
            BY <2>1, <2>2 DEF IsLast
        <3>. QED
            BY <1>1, <2>1, <2>2, <3>1, <3>2
    <2>3. CASE q # p
        <3>1. dirty'[t][q] = dirty[t][q]
            BY <1>3, <2>3
        <3>2. UpdatesOf(wal', t, q) = UpdatesOf(wal, t, q)
            BY <2>1, <2>3
        <3>3. /\ dirty[t][q] = NoData <=> UpdatesOf(wal, t, q) = {}
              /\ \A i \in UpdatesOf(wal, t, q) :
                     IsLast(i, UpdatesOf(wal, t, q)) => wal[i].data = dirty[t][q]
            BY DEF WorkspaceLogged
        <3>. QED
            BY <2>1, <3>1, <3>2, <3>3
    <2>. QED
        BY <2>2, <2>3
<1>. QED
    BY <1>3, <1>4, <1>5, ZenonT(60) DEF WorkspaceLogged

-----------------------------------------------------------------------------
(* Steps: each action keeps DurInv.                                        *)

\* Appending an intact record keeps the shape of an intact log.
LEMMA ShapeByAppend ==
    ASSUME WALTypeOK, NEW r \in LogRecord, r.type # "torn", TornAt(wal) = {}, wal' = Append(wal, r)
    PROVE  TornAt(wal') = {} /\ TailOnly(wal')
BY AppendFacts DEF WALTypeOK, TornAt, TailOnly

\* What is known between calls.
LEMMA BetweenCalls ==
    ASSUME LockInv, DurInv, mode = "idle"
    PROVE  /\ Up /\ Lagging = {} /\ committing = 0 /\ WALTypeOK /\ PagerTypeOK
           /\ Coherent /\ LogShape /\ TornAt(wal) = {} /\ Serial /\ WorkspaceLogged /\ FileAgrees
           /\ synced \in Nat /\ nextTxID \in Nat
           /\ \A t \in Active : t \notin CommittedIn(wal) /\ nextTxID = t + 1 /\ Active = {t}
<1>1. Up /\ Lagging = {} /\ committing = 0
    BY WhoIsActive DEF Up, Lagging, LockInv, TodoIsDirty
<1>2. Len(wal) \in Nat
    BY LenProperties DEF LockInv, TypeOK, WALTypeOK
<1>3. \A t \in Active : t # 0 /\ Active = {t}
    BY ImageFacts DEF Active, TxId, LockInv, LockDiscipline
<1>. QED
    BY <1>1, <1>2, <1>3 DEF DurInv, LogShape, Serial, LockInv, TypeOK, WALTypeOK

\* Begin starts a transaction with a number that the log does not know.
LEMMA BeginKeepsDur ==
    ASSUME LockInv, LockInv', DurInv, Begin
    PROVE  DurInv'
<1>. DEFINE r == Record("begin", nextTxID)
<1>1. mode = "idle" /\ mode' = "idle" /\ committing' = 0 /\ nextTxID \in TxId
    BY BetweenCalls, ImageFacts DEF Begin, commitVars, LockInv, TypeOK, TxId
<1>2. r \in LogRecord /\ r.type = "begin" /\ r.tx = nextTxID
    BY <1>1, RecordFacts DEF Record
<1>. HIDE DEF r
<1>3. wal' = Append(wal, r) /\ synced' = Len(wal) + 1 /\ stale' = <<>>
    BY DEF Begin, WalForce, r
<1>4. /\ dirty' = dirty /\ nextTxID' = nextTxID + 1
      /\ UNCHANGED <<disk, size, cache, nextPageID, todo>>
      /\ txState' = [txState EXCEPT ![nextTxID] = "active"]
    BY DEF Begin, pagerVars, commitVars
<1>5. Active = {} /\ Active' = {nextTxID}
    BY <1>1, <1>4 DEF Begin, LockInv, LockDiscipline, TypeOK, Active
<1>6. wal \in Seq(LogRecord) /\ Len(wal) \in Nat /\ DOMAIN wal = 1 .. Len(wal)
    BY LenProperties DEF LockInv, TypeOK, WALTypeOK
<1>7. \A i \in DOMAIN wal : wal[i].tx # nextTxID
    <2>1. \A i \in DOMAIN wal : wal[i].tx < nextTxID
        BY <1>1, BetweenCalls DEF Serial
    <2>. QED
        BY <1>1, <2>1, BetweenCalls
<1>8. Coherent'
    BY <1>1, <1>4, BetweenCalls DEF Coherent
<1>9. LogShape'
    BY <1>1, <1>2, <1>3, BetweenCalls, ShapeByAppend, ImageFacts DEF LogShape, TailOnly, TornAt, Up
<1>10. Serial'
    <2>1. nextTxID \notin CommittedIn(wal)
        BY <1>7 DEF CommittedIn
    <2>. QED
        BY <1>1, <1>2, <1>3, <1>4, <1>5, <1>6, <2>1, BetweenCalls, SerialByAppend
        DEF LockInv, TypeOK, WALTypeOK
<1>11. WorkspaceLogged'
    <2>1. ASSUME NEW t \in TxId, NEW p \in PageId PROVE dirty'[t][p] = NoData
        BY <1>1, <1>4, <1>5, BetweenCalls DEF WorkspaceLogged
    <2>2. ASSUME NEW p PROVE UpdatesOf(wal', nextTxID, p) = {}
        BY <1>2, <1>3, <1>6, <1>7, UpdatesByAppend DEF UpdatesOf
    <2>3. ASSUME NEW t \in Active', NEW p \in PageId
          PROVE  /\ t \in TxId /\ dirty'[t][p] = NoData
                 /\ UpdatesOf(wal', t, p) = {}
        BY <1>1, <1>5, <2>1, <2>2
    <2>. QED
        BY <2>1, <2>3 DEF WorkspaceLogged
<1>12. FileAgrees'
    <2>1. Lagging' = {}
        BY <1>1, <1>4 DEF Lagging, LockInv, TodoIsDirty
    <2>. QED
        BY <1>1, <1>2, <1>3, <1>4, <2>1, BetweenCalls, FileAgreesByAppend
<1>13. RedoProgress'
    BY <1>1 DEF RedoProgress, Up
<1>. QED
    BY <1>8, <1>9, <1>10, <1>11, <1>12, <1>13 DEF DurInv

\* Rollback ends the transaction without a COMMIT.
LEMMA RollbackKeepsDur ==
    ASSUME LockInv, LockInv', DurInv, NEW t \in TxId, Rollback(t)
    PROVE  DurInv'
<1>. DEFINE r == Record("abort", t)
<1>1. mode = "idle" /\ mode' = "idle" /\ committing' = 0 /\ t \in Active
    BY BetweenCalls DEF Rollback, commitVars, Active
<1>2. r \in LogRecord /\ r.type = "abort" /\ r.tx = t
    BY RecordFacts DEF Record
<1>. HIDE DEF r
<1>3. wal' = Append(wal, r) /\ synced' = Len(wal) + 1 /\ stale' = <<>>
    BY DEF Rollback, WalForce, r
<1>4. /\ dirty' = [dirty EXCEPT ![t] = NoDirtyPages] /\ nextTxID' = nextTxID
      /\ UNCHANGED <<disk, size, cache, nextPageID, todo>>
      /\ txState' = [txState EXCEPT ![t] = "aborted"]
    BY DEF Rollback, pagerVars, commitVars
<1>5. Active = {t} /\ Active' = {}
    BY <1>1, <1>4, BetweenCalls DEF LockInv, TypeOK, Active
<1>6. synced \in 0 .. Len(wal) /\ Len(wal) \in Nat
    BY LenProperties DEF LockInv, TypeOK, WALTypeOK
<1>8. Coherent'
    BY <1>1, <1>4, BetweenCalls DEF Coherent
<1>9. LogShape'
    BY <1>1, <1>2, <1>3, BetweenCalls, ShapeByAppend, ImageFacts DEF LogShape, TailOnly, TornAt, Up
<1>10. Serial'
    <2>1. /\ nextTxID' \in Nat /\ nextTxID' = r.tx + 1 /\ nextTxID <= nextTxID'
          /\ r.tx \notin CommittedIn(wal) /\ synced' \in Nat /\ synced <= synced'
        BY <1>1, <1>2, <1>3, <1>4, <1>6, BetweenCalls
    <2>. QED
        BY <1>1, <1>2, <1>3, <1>5, <2>1, BetweenCalls, SerialByAppend
<1>11. WorkspaceLogged'
    <2>1. ASSUME NEW u \in TxId, NEW p \in PageId PROVE dirty'[u][p] = NoData
        BY <1>1, <1>4, <1>5, BetweenCalls DEF WorkspaceLogged, NoDirtyPages, LockInv, TypeOK
    <2>. QED
        BY <1>5, <2>1 DEF WorkspaceLogged
<1>12. FileAgrees'
    <2>1. Lagging' = {}
        BY <1>1, <1>4 DEF Lagging, LockInv, TodoIsDirty
    <2>. QED
        BY <1>1, <1>2, <1>3, <1>4, <2>1, BetweenCalls, FileAgreesByAppend
<1>13. RedoProgress'
    BY <1>1 DEF RedoProgress, Up
<1>. QED
    BY <1>8, <1>9, <1>10, <1>11, <1>12, <1>13 DEF DurInv

\* A write that is logged, while the file changes at most where no log
\* mentions a page.
LEMMA LoggedWriteKeepsDur ==
    ASSUME LockInv, LockInv', DurInv, NEW t \in TxId, Usable(t), NEW p \in PageId, NEW d \in Data,
           dirty' = [dirty EXCEPT ![t][p] = d], WalAppend(UpdateRecord(t, p, d)),
           UNCHANGED <<txState, nextTxID, commitVars, recoverVars>>,
           Coherent', \A q \in PageId : disk'[q] = disk[q] \/ q \notin Logged
    PROVE  DurInv'
<1>. DEFINE r == UpdateRecord(t, p, d)
<1>1. mode = "idle" /\ mode' = "idle" /\ committing' = 0 /\ Active = {t} /\ todo' = todo
    BY WhoIsActive DEF commitVars
<1>2. r \in LogRecord /\ r.type = "update" /\ r.tx = t
    BY RecordFacts DEF UpdateRecord
<1>3. WorkspaceLogged'
    BY <1>1, BetweenCalls, WorkspaceByWrite DEF WalAppend
<1>4. wal' = Append(wal, r)
    BY DEF WalAppend
<1>. HIDE DEF r
<1>5. synced' = synced /\ stale' = stale /\ nextTxID' = nextTxID /\ Active' = Active
    BY DEF WalAppend, Active
<1>6. LogShape'
    <2>1. stale = <<>>
        BY <1>1, BetweenCalls DEF LogShape
    <2>. QED
        BY <1>1, <1>2, <1>4, <1>5, <2>1, BetweenCalls, ShapeByAppend DEF LogShape, Up
<1>7. Serial'
    <2>1. /\ nextTxID' \in Nat /\ nextTxID' = r.tx + 1 /\ nextTxID <= nextTxID'
          /\ r.tx \notin CommittedIn(wal) /\ synced' \in Nat /\ synced <= synced'
        BY <1>1, <1>2, <1>5, BetweenCalls
    <2>. QED
        BY <1>1, <1>2, <1>4, <1>5, <2>1, BetweenCalls, SerialByAppend
<1>8. FileAgrees'
    <2>1. Lagging' = {}
        BY <1>1 DEF Lagging, LockInv, TodoIsDirty
    <2>2. r.tx \notin CommittedIn(wal)
        BY <1>1, <1>2, BetweenCalls
    <2>. QED
        BY <1>1, <1>2, <1>4, <1>5, <2>1, <2>2, BetweenCalls, FileAgreesByAppend
<1>9. RedoProgress'
    BY <1>1 DEF RedoProgress, Up
<1>. QED
    BY <1>1, <1>3, <1>6, <1>7, <1>8, <1>9 DEF DurInv

\* WritePage changes no file page; AllocatePage one that no log mentions.
LEMMA WritesKeepDur ==
    ASSUME Faults = {}, LockInv, LockInv', BoundsInv, DurInv, NEW t \in TxId,
           \/ \E p \in PageId, v \in Values : WritePage(t, p, v) \/ WritePageFails(t, p, v)
           \/ AllocatePage(t) \/ AllocatePageFails(t)
    PROVE  DurInv'
<1>1. CASE \E p \in PageId, v \in Values : WritePage(t, p, v)
    <2>1. PICK p \in PageId, v \in Values : WritePage(t, p, v)
        BY <1>1
    <2>2. v \in Data /\ UNCHANGED pagerVars /\ UNCHANGED <<txState, nextTxID, commitVars, recoverVars>>
        BY <2>1 DEF WritePage, Data
    <2>3. Coherent' /\ disk' = disk
        BY <2>2, PagerCoherent DEF DurInv, LockInv, TypeOK, pagerVars
    <2>4. Usable(t) /\ dirty' = [dirty EXCEPT ![t][p] = v] /\ WalAppend(UpdateRecord(t, p, v))
        BY <2>1 DEF WritePage
    <2>. QED
        BY <2>2, <2>3, <2>4, LoggedWriteKeepsDur
<1>2. CASE AllocatePage(t)
    <2>. DEFINE n == nextPageID
    <2>1. n \in PageId /\ Zero \in Data
        BY <1>2, ImageFacts DEF AllocatePage, PagerAllocate, LockInv, TypeOK, PagerTypeOK, PageId
    <2>2. n \notin Logged
        BY <1>2, NextNumberIsFree DEF AllocatePage, Usable, Up, Taken
    <2>3. Coherent' /\ \A q \in PageId : disk'[q] = disk[q] \/ q \notin Logged
        <3>1. Coherent'
            BY <1>2, PagerCoherent DEF AllocatePage, DurInv, LockInv, TypeOK
        <3>2. \A q \in PageId : q # n => disk'[q] = disk[q]
            BY <1>2 DEF AllocatePage, PagerAllocate, LockInv, TypeOK, PagerTypeOK
        <3>. QED
            BY <2>2, <3>1, <3>2
    <2>4. /\ Usable(t) /\ dirty' = [dirty EXCEPT ![t][n] = Zero]
          /\ WalAppend(UpdateRecord(t, n, Zero))
          /\ UNCHANGED <<txState, nextTxID, commitVars, recoverVars>>
        BY <1>2 DEF AllocatePage
    <2>. HIDE DEF n
    <2>. QED
        BY <2>1, <2>3, <2>4, LoggedWriteKeepsDur
<1>3. ~ AllocatePageFails(t) /\ \A p, v : ~ WritePageFails(t, p, v)
    BY NothingFails DEF AllocatePageFails, WritePageFails
<1>. QED
    BY <1>1, <1>2, <1>3

\* The COMMIT record adds to what is to be redone only pages that the
\* transaction has in its workspace.
LEMMA CommitLogKeepsDur ==
    ASSUME LockInv, LockInv', DurInv, NEW t \in TxId, CommitLog(t)
    PROVE  DurInv'
<1>. DEFINE r == Record("commit", t)
<1>. DEFINE n == Len(wal)
<1>1. /\ mode = "idle" /\ mode' = "commitSync" /\ committing' = t /\ Active = {t}
      /\ todo' = todo /\ dirty' = dirty /\ disk' = disk /\ cache' = cache /\ Active' = Active
      /\ nextTxID' = nextTxID /\ synced' = synced /\ stale' = stale
    BY BetweenCalls DEF CommitLog, WalAppend, Active, pagerVars, txVars
<1>2. r \in LogRecord /\ r.type = "commit" /\ r.tx = t
    BY RecordFacts DEF Record
<1>. HIDE DEF r
<1>3. /\ wal' = Append(wal, r) /\ wal \in Seq(LogRecord)
      /\ n \in Nat /\ DOMAIN wal = 1 .. n /\ DOMAIN wal' = 1 .. n + 1
      /\ wal'[n + 1] = r /\ \A i \in 1 .. n : wal'[i] = wal[i]
      /\ synced \in 0 .. n
    BY <1>2, AppendFacts DEF CommitLog, WalAppend, r, LockInv, TypeOK, WALTypeOK
<1>. HIDE DEF n
<1>4. \A i \in 1 .. n : wal[i].tx \in Nat
    BY <1>3, RecordsOfLog, ImageFacts DEF TxId
<1>5. Serial /\ nextTxID = t + 1 /\ t \in Nat
    BY <1>1, BetweenCalls, ImageFacts DEF TxId
<1>6. \A i \in 1 .. n : wal[i].tx <= t
    BY <1>3, <1>4, <1>5 DEF Serial
<1>7. Serial'
    <2>1. ASSUME NEW i \in 1 .. n + 1, NEW j \in 1 .. n + 1, i < j
          PROVE  wal'[i].tx <= wal'[j].tx
        <3>1. i \in 1 .. n
            BY <1>3, <2>1
        <3>2. CASE j = n + 1
            BY <1>2, <1>3, <1>6, <3>1, <3>2
        <3>3. CASE j # n + 1
            <4>1. j \in 1 .. n
                BY <1>3, <3>3
            <4>. QED
                BY <1>3, <1>5, <2>1, <3>1, <4>1 DEF Serial
        <3>. QED
            BY <3>2, <3>3
    <2>2. \A i \in 1 .. n + 1 : wal'[i].tx < nextTxID'
        BY <1>1, <1>2, <1>3, <1>4, <1>5, <1>6
    <2>3. \A i, j \in 1 .. n + 1 :
              wal'[i].type = "update" /\ wal'[j].type = "commit" /\ wal'[i].tx = wal'[j].tx => i < j
        BY <1>2, <1>3, <1>5 DEF Serial
    <2>4. \A j \in 1 .. n + 1 : wal'[j].type = "commit" =>
              j <= synced' \/ (mode' = "commitSync" /\ wal'[j].tx = committing')
        BY <1>1, <1>2, <1>3, <1>5 DEF Serial
    <2>5. t \in CommittedIn(wal')
        BY <1>2, <1>3, CommittedByAppend
    <2>. QED
        BY <1>1, <1>3, <1>5, <2>1, <2>2, <2>3, <2>4, <2>5 DEF Serial
<1>8. WorkspaceLogged'
    <2>1. ASSUME NEW p \in PageId
          PROVE  /\ UpdatesOf(wal', t, p) = UpdatesOf(wal, t, p)
                 /\ \A i \in UpdatesOf(wal, t, p) : wal'[i] = wal[i]
        BY <1>2, <1>3, UpdatesByAppend DEF UpdatesOf
    <2>2. ASSUME NEW p \in PageId
          PROVE  /\ dirty[t][p] = NoData <=> UpdatesOf(wal, t, p) = {}
                 /\ \A i \in UpdatesOf(wal, t, p) :
                        IsLast(i, UpdatesOf(wal, t, p)) => wal[i].data = dirty[t][p]
        BY <1>1, BetweenCalls DEF WorkspaceLogged
    <2>3. \A u \in TxId \ {t}, p \in PageId : dirty[u][p] = NoData
        BY <1>1, BetweenCalls DEF WorkspaceLogged
    <2>. QED
        BY <1>1, <2>1, <2>2, <2>3 DEF WorkspaceLogged
<1>9. FileAgrees'
    <2>1. Lagging' = DirtyPages(t)
        BY <1>1 DEF Lagging, DirtyPages
    <2>2. ASSUME NEW p \in PageId \ DirtyPages(t) PROVE Replayed(wal, p)' = disk'[p]
        <3>1. UpdatesOf(wal, t, p) = {}
            BY <1>1, BetweenCalls DEF WorkspaceLogged, DirtyPages
        <3>2. /\ Redos(wal', p) = Redos(wal, p)
              /\ \A i \in DOMAIN wal : wal'[i] = wal[i]
            <4>1. /\ Redos(Append(wal, r), p) = Redos(wal, p) \cup UpdatesOf(wal, r.tx, p)
                  /\ \A i \in DOMAIN wal : Append(wal, r)[i] = wal[i]
                BY <1>2, <1>3, RedosByCommit
            <4>. QED
                BY <1>2, <1>3, <3>1, <4>1
        <3>3. LastRedo(wal', p) = LastRedo(wal, p)
            BY <3>2 DEF LastRedo
        <3>4. Redos(wal, p) # {} => LastRedo(wal, p) \in DOMAIN wal
            <4>1. Redos(wal, p) # {} => LastRedo(wal, p) \in Redos(wal, p)
                BY <1>3, LastRedoIsLast DEF IsLast
            <4>. QED
                BY <4>1 DEF Redos
        <3>5. Replayed(wal, p) = disk[p]
            BY <1>1, BetweenCalls DEF FileAgrees
        <3>. QED
            BY <1>1, <3>2, <3>3, <3>4, <3>5 DEF Replayed
    <2>. QED
        BY <1>1, <2>1, <2>2 DEF FileAgrees
<1>10. LogShape'
    <2>1. stale = <<>>
        BY <1>1, BetweenCalls DEF LogShape
    <2>. QED
        BY <1>1, <1>2, <1>3, <2>1, BetweenCalls, ShapeByAppend DEF LogShape, Up
<1>11. Coherent' /\ RedoProgress'
    BY <1>1, BetweenCalls DEF Coherent, RedoProgress, Up
<1>. QED
    BY <1>7, <1>8, <1>9, <1>10, <1>11 DEF DurInv

\* Sync makes the whole log durable.
LEMMA CommitSyncKeepsDur ==
    ASSUME LockInv, LockInv', DurInv, CommitSync
    PROVE  DurInv'
<1>1. /\ mode = "commitSync" /\ mode' = AfterWriting(todo') /\ todo' = DirtyPages(committing)
      /\ wal' = wal /\ synced' = Len(wal) /\ stale' = <<>>
      /\ UNCHANGED <<committing, disk, cache, txState, dirty, nextTxID>>
    BY DEF CommitSync, WalSync, pagerVars, txVars
<1>2. mode' \in {"commitWrite", "commitFlush"} /\ Up /\ Up' /\ Active' = Active
    BY <1>1 DEF AfterWriting, Up, Active
<1>3. Coherent /\ LogShape /\ Serial /\ WorkspaceLogged /\ FileAgrees
    BY <1>2 DEF DurInv
<1>4. Len(wal) \in Nat /\ DOMAIN wal = 1 .. Len(wal)
    BY LenProperties DEF LockInv, TypeOK, WALTypeOK
<1>5. Serial'
    BY <1>1, <1>2, <1>3, <1>4 DEF Serial
<1>6. Lagging = todo' /\ Lagging' = todo'
    BY <1>1, <1>2 DEF Lagging
<1>7. FileAgrees'
    BY <1>1, <1>2, <1>3, <1>6 DEF FileAgrees, Replayed
<1>. QED
    BY <1>1, <1>2, <1>3, <1>5, <1>7
    DEF DurInv, Coherent, LogShape, TailOnly, TornAt, WorkspaceLogged, RedoProgress

\* The page written becomes what the log makes it.
LEMMA CommitWriteKeepsDur ==
    ASSUME LockInv, LockInv', DurInv, NEW p \in PageId, CommitWrite(p)
    PROVE  DurInv'
<1>1. /\ mode = "commitWrite" /\ p \in todo /\ todo' = todo \ {p} /\ mode' = AfterWriting(todo')
      /\ PagerWrite(p, dirty[committing][p])
      /\ UNCHANGED <<committing, walVars, txState, dirty, nextTxID>>
    BY DEF CommitWrite, txVars
<1>2. mode' \in {"commitWrite", "commitFlush"} /\ Up /\ Up' /\ Active' = Active
    BY <1>1 DEF AfterWriting, Up, Active
<1>3. Coherent /\ LogShape /\ Serial /\ WorkspaceLogged /\ FileAgrees
    BY <1>2 DEF DurInv
<1>4. p \in DirtyPages(committing) /\ committing \in TxId
    BY <1>1, WhoIsActive DEF LockInv, TodoIsDirty, LockDiscipline
<1>5. dirty[committing][p] \in Data
    BY <1>4, ImageFacts DEF DirtyPages, Image, LockInv, TypeOK
<1>6. Coherent'
    BY <1>1, <1>3, <1>5, PagerCoherent DEF LockInv, TypeOK
<1>7. /\ wal' = wal /\ stale' = stale /\ synced' = synced
      /\ disk' = [disk EXCEPT ![p] = dirty[committing][p]]
    BY <1>1 DEF walVars, PagerWrite
<1>8. FileAgrees'
    <2>1. Lagging = todo /\ Lagging' = todo \ {p}
        BY <1>1, <1>2 DEF Lagging
    <2>2. Replayed(wal, p)' = disk'[p]
        BY <1>1, <1>4, <1>7, CommittingRedos, DurInvAhead DEF Replayed, LockInv, TypeOK, PagerTypeOK
    <2>3. ASSUME NEW q \in PageId \ todo PROVE Replayed(wal, q)' = disk'[q]
        BY <1>1, <1>3, <1>7, <2>1 DEF FileAgrees, Replayed, LockInv, TypeOK, PagerTypeOK
    <2>. QED
        BY <1>2, <2>1, <2>2, <2>3 DEF FileAgrees
<1>. QED
    BY <1>1, <1>2, <1>3, <1>6, <1>7, <1>8
    DEF DurInv, LogShape, Serial, WorkspaceLogged, RedoProgress

\* The end of Commit: the file is what the log makes it.
LEMMA CommitFlushKeepsDur ==
    ASSUME LockInv, LockInv', DurInv, CommitFlush
    PROVE  DurInv'
<1>1. /\ mode = "commitFlush" /\ mode' = "idle" /\ committing' = 0 /\ todo' = todo
      /\ PagerFlush /\ UNCHANGED walVars /\ nextTxID' = nextTxID
      /\ txState' = [txState EXCEPT ![committing] = "committed"]
      /\ dirty' = [dirty EXCEPT ![committing] = NoDirtyPages]
    BY DEF CommitFlush
<1>2. Up /\ Up' /\ Active = {committing} /\ committing \in TxId
    BY <1>1, WhoIsActive DEF Up
<1>3. Coherent /\ LogShape /\ Serial /\ WorkspaceLogged /\ FileAgrees
    BY <1>2 DEF DurInv
<1>4. Active' = {}
    BY <1>1, <1>2 DEF Active, LockInv, TypeOK
<1>5. Coherent' /\ disk' = disk /\ wal' = wal /\ stale' = stale /\ synced' = synced
    BY <1>1, <1>3, PagerCoherent DEF LockInv, TypeOK, walVars
<1>6. stale = <<>>
    BY <1>1, <1>3 DEF LogShape
<1>7. Len(wal) \in Nat /\ DOMAIN wal = 1 .. Len(wal)
    BY LenProperties DEF LockInv, TypeOK, WALTypeOK
<1>8. Serial'
    BY <1>1, <1>3, <1>4, <1>5, <1>7 DEF Serial
<1>9. WorkspaceLogged'
    <2>1. ASSUME NEW t \in TxId, NEW p \in PageId PROVE dirty'[t][p] = NoData
        BY <1>1, <1>2, <1>3 DEF WorkspaceLogged, NoDirtyPages, LockInv, TypeOK
    <2>. QED
        BY <1>4, <2>1 DEF WorkspaceLogged
<1>10. FileAgrees'
    <2>1. Lagging = {} /\ Lagging' = {}
        BY <1>1 DEF Lagging, LockInv, TodoIsDirty
    <2>2. \A p : Redos(<<>>, p) = {}
        BY DEF Redos
    <2>. QED
        BY <1>3, <1>5, <1>6, <2>1, <2>2 DEF FileAgrees, Replayed
<1>11. LogShape'
    BY <1>1, <1>2, <1>3, <1>5, <1>6 DEF LogShape
<1>. QED
    BY <1>1, <1>2, <1>5, <1>8, <1>9, <1>10, <1>11 DEF DurInv, RedoProgress

\* A step outside transactions changes the file at most where no log mentions
\* a page.
LEMMA OutsideKeepsDur ==
    ASSUME LockInv, DurInv, Up, Coherent',
           UNCHANGED <<walVars, commitVars, recoverVars, txVars>>,
           \A q \in PageId : disk'[q] = disk[q] \/ q \notin Logged
    PROVE  DurInv'
<1>1. /\ UNCHANGED <<wal, synced, stale, mode, committing, todo, txState, dirty, nextTxID>>
      /\ Active' = Active /\ Up'
    BY DEF walVars, commitVars, txVars, Active, Up
<1>2. LogShape /\ Serial /\ WorkspaceLogged /\ FileAgrees
    BY DEF DurInv
<1>3. Lagging' = Lagging
    BY <1>1 DEF Lagging, DirtyPages
<1>4. FileAgrees'
    BY <1>1, <1>2, <1>3, FileAgreesWithSameLog
<1>. QED
    BY <1>1, <1>2, <1>4 DEF DurInv, LogShape, Serial, WorkspaceLogged, RedoProgress, Up

\* Readers fill the cache; index code writes pages that no log mentions.
LEMMA ReadersAndIndexesKeepDur ==
    ASSUME LockInv, BoundsInv, DurInv,
           \/ \E p \in PageId : FetchPage(p)
           \/ ReloadCatalogPage \/ AllocateIndexPage
           \/ \E p \in PageId, v \in Values : WriteIndexPage(p, v)
           \/ UNCHANGED vars /\ Up
    PROVE  DurInv'
<1>. USE DEF LockInv, TypeOK, DurInv, PagerFree
<1>1. CASE \E p \in PageId : FetchPage(p)
    <2>1. PICK p \in PageId : FetchPage(p)
        BY <1>1
    <2>2. Coherent' /\ disk' = disk
        BY <2>1, PagerCoherent DEF FetchPage, PagerFetch
    <2>. QED
        BY <2>1, <2>2, OutsideKeepsDur DEF FetchPage
<1>2. CASE ReloadCatalogPage
    <2>1. 0 \in PageId
        BY ImageFacts DEF PageId
    <2>2. Coherent' /\ disk' = disk
        BY <1>2, <2>1, PagerCoherent DEF ReloadCatalogPage, PagerReload
    <2>. QED
        BY <1>2, <2>2, OutsideKeepsDur DEF ReloadCatalogPage
<1>3. CASE AllocateIndexPage
    <2>1. nextPageID \notin Logged /\ nextPageID \in PageId
        <3>1. Taken = nextPageID
            BY <1>3 DEF AllocateIndexPage, Up, Taken
        <3>2. nextPageID \in PageId
            BY <1>3, ImageFacts DEF AllocateIndexPage, PagerAllocate, PagerTypeOK, PageId
        <3>. QED
            BY <3>1, <3>2, NextNumberIsFree
    <2>2. Coherent'
        BY <1>3, PagerCoherent DEF AllocateIndexPage
    <2>3. \A q \in PageId : disk'[q] = disk[q] \/ q \notin Logged
        BY <1>3, <2>1 DEF AllocateIndexPage, PagerAllocate, PagerTypeOK
    <2>. QED
        BY <1>3, <2>2, <2>3, OutsideKeepsDur DEF AllocateIndexPage
<1>4. CASE \E p \in PageId, v \in Values : WriteIndexPage(p, v)
    <2>1. PICK p \in PageId, v \in Values : WriteIndexPage(p, v)
        BY <1>4
    <2>2. v \in Data /\ p \notin Logged
        BY <2>1 DEF Data, WriteIndexPage, BoundsInv
    <2>3. Coherent'
        BY <2>1, <2>2, PagerCoherent DEF WriteIndexPage
    <2>4. \A q \in PageId : disk'[q] = disk[q] \/ q \notin Logged
        BY <2>1, <2>2 DEF WriteIndexPage, PagerWrite, PagerTypeOK
    <2>. QED
        BY <2>1, <2>3, <2>4, OutsideKeepsDur DEF WriteIndexPage
<1>5. CASE UNCHANGED vars /\ Up
    <2>1. Coherent' /\ disk' = disk
        BY <1>5, PagerCoherent DEF vars, pagerVars
    <2>. QED
        BY <1>5, <2>1, OutsideKeepsDur DEF vars
<1>. QED
    BY <1>1, <1>2, <1>3, <1>4, <1>5

\* A crash cuts the log short at its end only, and leaves nothing else to agree.
LEMMA CrashKeepsDur ==
    ASSUME LockInv, DurInv, Crash
    PROVE  DurInv'
<1>1. /\ mode' = "down" /\ stale' = <<>> /\ wal' \in Survivors /\ cursor' = 1
      /\ cache' = EmptyCache /\ txState' = [t \in TxId |-> "none"]
      /\ dirty' = [t \in TxId |-> NoDirtyPages]
    BY DEF Crash
<1>2. /\ wal \in Seq(LogRecord) /\ Len(wal) \in Nat /\ synced \in 0 .. Len(wal)
      /\ TailOnly(wal) /\ TailOnly(stale) /\ DOMAIN wal = 1 .. Len(wal)
    BY LenProperties DEF LockInv, TypeOK, WALTypeOK, DurInv, LogShape
<1>3. TailOnly(wal')
    <2>1. ASSUME NEW k \in 0 .. Len(wal)
          PROVE  /\ TailOnly(SubSeq(wal, 1, k)) /\ SubSeq(wal, 1, k) \in Seq(LogRecord)
                 /\ k < Len(wal) => TornAt(SubSeq(wal, 1, k)) = {}
        BY <1>2, PrefixOfLog DEF TailOnly, TornAt
    <2>2. CASE \E k \in synced .. Len(wal) : wal' = SubSeq(wal, 1, k)
        <3>1. PICK k \in synced .. Len(wal) : wal' = SubSeq(wal, 1, k)
            BY <2>2
        <3>2. k \in 0 .. Len(wal)
            BY <1>2
        <3>. QED
            BY <2>1, <3>1, <3>2
    <2>3. CASE \E k \in synced .. Len(wal) - 1 : wal' = Append(SubSeq(wal, 1, k), TornRecord)
        <3>1. PICK k \in synced .. Len(wal) - 1 : wal' = Append(SubSeq(wal, 1, k), TornRecord)
            BY <2>3
        <3>. DEFINE part == SubSeq(wal, 1, k)
        <3>2. k \in 0 .. Len(wal) /\ k < Len(wal)
            BY <1>2
        <3>3. part \in Seq(LogRecord) /\ TornAt(part) = {}
            BY <2>1, <3>2
        <3>. HIDE DEF part
        <3>4. wal' = Append(part, TornRecord) /\ TornRecord \in LogRecord
            BY <3>1, RecordFacts DEF part
        <3>. QED
            BY <3>3, <3>4, AppendFacts DEF TailOnly, TornAt
    <2>4. CASE wal' = stale
        BY <1>2, <2>4
    <2>. QED
        BY <1>1, <2>2, <2>3, <2>4 DEF Survivors
<1>4. Active' = {}
    BY <1>1 DEF Active
<1>5. TailOnly(stale')
    BY <1>1 DEF TailOnly, TornAt
<1>6. Coherent'
    BY <1>1 DEF Coherent, EmptyCache
<1>7. RedoProgress'
    BY <1>1 DEF RedoProgress, NoDirtyPages
<1>. QED
    BY <1>1, <1>3, <1>4, <1>5, <1>6, <1>7 DEF DurInv, LogShape, Up

\* Recovery begins with no record looked at.
LEMMA OpenKeepsDur ==
    ASSUME LockInv, DurInv, Open \/ OpenFails
    PROVE  DurInv'
<1>1. /\ ~ Up /\ ~ Up' /\ UNCHANGED <<wal, stale, cursor, txState, dirty>> /\ cursor = 1
      /\ mode' \in {"failed", "redo"} /\ (mode' = "redo" => records' = Readable(wal))
    BY DEF Open, OpenFails, Up, walVars, txVars, recoverVars, DurInv, RedoProgress
<1>2. LogShape'
    BY <1>1 DEF DurInv, LogShape, Active, Up
<1>3. Coherent'
    <2>1. PagerOpen \/ UNCHANGED pagerVars
        BY DEF Open, OpenFails
    <2>. QED
        BY <2>1, PagerCoherent DEF DurInv, LockInv, TypeOK
<1>4. mode' = "redo" =>
          \A p \in PageId : {j \in Redos(records', p) : j < cursor'} = {}
    <2>1. \A p : Redos(Readable(wal), p) \subseteq Nat \ {0}
        BY ReadableIsLog, LastRedoIsLast DEF LockInv, TypeOK, WALTypeOK
    <2>. QED
        BY <1>1, <2>1
<1>5. RedoProgress'
    BY <1>1, <1>4 DEF RedoProgress, DurInv, IsLast
<1>. QED
    BY <1>1, <1>2, <1>3, <1>5 DEF DurInv

\* One record more has been looked at; an update overrides the earlier ones of
\* its page.
LEMMA RedoKeepsDur ==
    ASSUME LockInv, DurInv, Redo
    PROVE  DurInv'
<1>1. /\ mode = "redo" /\ ~ Up /\ ~ Up' /\ cursor \in 1 .. Len(records) /\ cursor' = cursor + 1
      /\ UNCHANGED <<wal, stale, mode, records, txState, dirty>>
      /\ records \in Seq(LogRecord) /\ Len(records) \in Nat /\ DOMAIN records = 1 .. Len(records)
      /\ records[cursor] \in LogRecord
    BY LenProperties, ElementOfSeq
    DEF Redo, Up, walVars, commitVars, txVars, LockInv, TypeOK
<1>2. records[cursor].page \in PageId /\ records[cursor].data \in Data
    BY <1>1 DEF LogRecord
<1>3. Coherent'
    BY <1>2, PagerCoherent DEF Redo, DurInv, LockInv, TypeOK
<1>4. ASSUME NEW p \in PageId, NEW i \in Redos(records, p),
             IsLast(i, {j \in Redos(records, p) : j < cursor + 1})
      PROVE  records[i].data = disk'[p]
    <2>1. Redos(records, p) \subseteq 1 .. Len(records)
        BY <1>1 DEF Redos
    <2>2. CASE cursor \in Redos(records, p)
        <3>1. i = cursor
            BY <1>1, <1>4, <2>1, <2>2 DEF IsLast
        <3>2. Redoable(records, cursor) /\ records[cursor].page = p
            BY <2>2 DEF Redos
        <3>. QED
            BY <3>1, <3>2 DEF Redo, PagerWrite, LockInv, TypeOK, PagerTypeOK
    <2>3. CASE cursor \notin Redos(records, p)
        <3>1. {j \in Redos(records, p) : j < cursor + 1} = {j \in Redos(records, p) : j < cursor}
            BY <1>1, <2>1, <2>3
        <3>2. disk'[p] = disk[p]
            BY <1>1, <2>3 DEF Redo, PagerWrite, pagerVars, Redos, LockInv, TypeOK, PagerTypeOK
        <3>3. IsLast(i, {j \in Redos(records, p) : j < cursor})
            BY <1>4, <3>1
        <3>. QED
            BY <1>1, <3>2, <3>3 DEF DurInv, RedoProgress
    <2>. QED
        BY <2>2, <2>3
<1>5. RedoProgress'
    BY <1>1, <1>4 DEF DurInv, RedoProgress
<1>6. LogShape'
    BY <1>1 DEF DurInv, LogShape, Active
<1>. QED
    BY <1>1, <1>3, <1>5, <1>6 DEF DurInv

\* When all records have been looked at, the file is what the log makes it;
\* it still is when the log is gone, or comes back.
LEMMA RecoverEndKeepsDur ==
    ASSUME LockInv, DurInv, RecoverFlush \/ RecoverTruncate
    PROVE  DurInv'
<1>1. CASE RecoverFlush
    <2>1. /\ mode = "redo" /\ mode' = "truncate" /\ ~ Up /\ ~ Up' /\ cursor > Len(records)
          /\ UNCHANGED <<wal, stale, cursor, records, txState, dirty>> /\ PagerFlush
          /\ records = Readable(wal) /\ TailOnly(wal) /\ wal \in Seq(LogRecord)
        BY <1>1 DEF RecoverFlush, Up, walVars, recoverVars, txVars, DurInv, RedoProgress, LogShape,
                    LockInv, TypeOK, WALTypeOK
    <2>2. Coherent' /\ disk' = disk
        BY <2>1, PagerCoherent DEF DurInv, LockInv, TypeOK
    <2>3. ASSUME NEW p \in PageId PROVE Replayed(wal, p) = disk[p]
        <3>1. /\ records \in Seq(LogRecord) /\ Redos(records, p) = Redos(wal, p)
              /\ \A i \in Redos(wal, p) : records[i] = wal[i]
            BY <2>1, ReaderMissesNothing
        <3>2. CASE Redos(wal, p) # {}
            <4>1. IsLast(LastRedo(wal, p), Redos(wal, p))
                BY <2>1, <3>2, LastRedoIsLast
            <4>2. {j \in Redos(records, p) : j < cursor} = Redos(wal, p)
                <5>1. Redos(records, p) \subseteq 1 .. Len(records) /\ Len(records) \in Nat
                    BY <3>1, LenProperties, LastRedoIsLast
                <5>2. cursor \in Nat
                    BY DEF LockInv, TypeOK
                <5>. QED
                    BY <2>1, <3>1, <5>1, <5>2
            <4>3. records[LastRedo(wal, p)].data = disk[p]
                BY <2>1, <3>1, <4>1, <4>2 DEF DurInv, RedoProgress, IsLast
            <4>. QED
                BY <3>1, <3>2, <4>1, <4>3 DEF Replayed, IsLast
        <3>. QED
            BY <3>2 DEF Replayed
    <2>4. RedoProgress'
        BY <2>1, <2>2, <2>3 DEF DurInv, RedoProgress, Replayed
    <2>5. LogShape'
        BY <2>1 DEF DurInv, LogShape, Active
    <2>. QED
        BY <2>1, <2>2, <2>4, <2>5 DEF DurInv
<1>2. CASE RecoverTruncate
    <2>1. /\ mode = "truncate" /\ mode' = "idle" /\ ~ Up /\ Up'
          /\ wal' = <<>> /\ synced' = 0 /\ stale' = wal
          /\ UNCHANGED <<committing, todo, txState, dirty, nextTxID>> /\ PagerFetch(0)
        BY <1>2 DEF RecoverTruncate, Up, WalTruncate, txVars
    <2>2. Coherent' /\ disk' = disk
        <3>1. 0 \in PageId
            BY ImageFacts DEF PageId
        <3>. QED
            BY <2>1, <3>1, PagerCoherent DEF PagerFetch, DurInv, LockInv, TypeOK
    <2>3. Active = {} /\ Active' = {}
        BY <2>1 DEF DurInv, LogShape, Active
    <2>4. /\ DOMAIN wal' = {} /\ TornAt(wal') = {} /\ \A p : Redos(wal', p) = {}
          /\ \A t, p : UpdatesOf(wal', t, p) = {}
        BY <2>1 DEF TornAt, Redos, UpdatesOf
    <2>5. LogShape'
        BY <2>1, <2>3, <2>4 DEF DurInv, LogShape, TailOnly
    <2>6. Serial'
        BY <2>1, <2>3, <2>4 DEF Serial
    <2>7. WorkspaceLogged'
        BY <2>1, <2>3 DEF DurInv, RedoProgress, WorkspaceLogged
    <2>8. FileAgrees'
        BY <2>1, <2>2, <2>4 DEF DurInv, RedoProgress, FileAgrees, Replayed
    <2>9. RedoProgress'
        BY <2>1 DEF RedoProgress
    <2>. QED
        BY <2>2, <2>5, <2>6, <2>7, <2>8, <2>9 DEF DurInv
<1>. QED
    BY <1>1, <1>2

-----------------------------------------------------------------------------
(* The theorems.                                                           *)

\* A new database satisfies the invariant.
LEMMA DurInvInit == Init => DurInv
<1>. SUFFICES ASSUME Init PROVE DurInv
    OBVIOUS
<1>1. /\ mode = "idle" /\ wal = <<>> /\ stale = <<>> /\ synced = 0 /\ todo = {} /\ Up
      /\ Active = {} /\ \A t \in TxId, p \in PageId : dirty[t][p] = NoData
    BY ImageFacts DEF Init, WALInit, Up, Active, NoDirtyPages
<1>2. DOMAIN wal = {} /\ TornAt(wal) = {} /\ \A p : Redos(wal, p) = {}
    BY <1>1 DEF TornAt, Redos
<1>3. Coherent
    BY DEF Init, Coherent
<1>4. LogShape
    BY <1>1, <1>2 DEF LogShape, TailOnly
<1>5. Serial /\ WorkspaceLogged
    BY <1>1, <1>2 DEF Serial, WorkspaceLogged
<1>6. FileAgrees
    BY <1>1, <1>2 DEF FileAgrees, Replayed
<1>7. RedoProgress
    BY <1>1 DEF RedoProgress
<1>. QED
    BY <1>3, <1>4, <1>5, <1>6, <1>7 DEF DurInv

\* A stuttering step while the database is down or in recovery.
LEMMA StutterKeepsDur == DurInv /\ ~ Up /\ UNCHANGED vars => DurInv'
BY DEF DurInv, Coherent, LogShape, RedoProgress, Replayed, Up, Active, vars, pagerVars, walVars,
       commitVars, recoverVars, txVars

\* Every step keeps the invariant, if no call fails.
LEMMA DurInvStep ==
    ASSUME Faults = {}, LockInv, LockInv', BoundsInv, DurInv, [Next]_vars
    PROVE  DurInv'
<1>1. ~ BeginFails /\ ~ CommitSyncFails /\ ~ CommitFlushFails
    BY NothingFails DEF BeginFails, CommitSyncFails, CommitFlushFails
<1>2. /\ \A t : ~ CommitLogFails(t) /\ ~ RollbackFails(t)
      /\ \A p : ~ CommitWriteFails(p)
    BY NothingFails DEF CommitLogFails, RollbackFails, CommitWriteFails
<1>3. CASE Begin \/ \E t \in TxId : CommitLog(t) \/ Rollback(t)
    BY <1>3, BeginKeepsDur, CommitLogKeepsDur, RollbackKeepsDur
<1>4. CASE CommitSync \/ CommitFlush \/ \E p \in PageId : CommitWrite(p)
    BY <1>4, CommitSyncKeepsDur, CommitFlushKeepsDur, CommitWriteKeepsDur
<1>5. CASE \/ \E t \in TxId, p \in PageId, v \in Values : WritePage(t, p, v) \/ WritePageFails(t, p, v)
           \/ \E t \in TxId : AllocatePage(t) \/ AllocatePageFails(t)
    BY <1>5, WritesKeepDur
<1>6. CASE \/ \E p \in PageId : FetchPage(p)
           \/ ReloadCatalogPage \/ AllocateIndexPage
           \/ \E p \in PageId, v \in Values : WriteIndexPage(p, v)
    BY <1>6, ReadersAndIndexesKeepDur
<1>7. CASE Crash \/ Open \/ OpenFails \/ Redo \/ RecoverFlush \/ RecoverTruncate
    BY <1>7, CrashKeepsDur, OpenKeepsDur, RedoKeepsDur, RecoverEndKeepsDur
<1>8. CASE UNCHANGED vars
    BY <1>8, StutterKeepsDur, ReadersAndIndexesKeepDur
<1>. QED
    BY <1>1, <1>2, <1>3, <1>4, <1>5, <1>6, <1>7, <1>8 DEF Next

\* The three invariants hold together.
LEMMA DurInvAlways == ASSUME Faults = {} PROVE Spec => [](LockInv /\ BoundsInv /\ DurInv)
<1>1. Init => LockInv /\ BoundsInv /\ DurInv
    BY LockInvInit, BoundsInvInit, DurInvInit
<1>2. LockInv /\ BoundsInv /\ DurInv /\ [Next]_vars => (LockInv /\ BoundsInv /\ DurInv)'
    BY LockInvStep, BoundsInvStep, DurInvStep
<1>. QED
    BY <1>1, <1>2, PTL DEF Spec

\* Durability and atomicity over a restart: when no I/O call fails, whatever
\* part of the log a crash between calls leaves, recovery restores the pages
\* that readers see.
THEOREM CrashIsSafe == ASSUME Faults = {} PROVE Spec => []CrashSafe
<1>1. LockInv /\ DurInv => CrashSafe
    BY DurInvCrashSafe
<1>. QED
    BY <1>1, DurInvAlways, PTL

-----------------------------------------------------------------------------
(***************************************************************************)
(* When fsyncs and page writes may fail, and no append does: a Commit that *)
(* failed leaves a COMMIT record, and may be tried again or rolled back,   *)
(* so DurInv does not hold; AheadInv does.                                 *)
(***************************************************************************)

\* If no append fails, what is left of a call that fails to force a record is
\* the record.
LEMMA NoAppendFails ==
    ASSUME "append" \notin Faults
    PROVE  /\ ~ WalAppendFails
           /\ \A r : WalForceFails(r) => wal' = Append(wal, r)
           /\ \A r : WalForce(r) \/ WalAppend(r) => wal' = Append(wal, r)
BY DEF WalAppendFails, WalForceFails, WalForce, WalAppend

\* A record of the newest transaction keeps the order.
LEMMA OrderedByAppend ==
    ASSUME LockInv, Ordered, NEW r \in LogRecord, wal' = Append(wal, r),
           nextTxID' \in Nat, nextTxID' = r.tx + 1, nextTxID <= nextTxID', Active' \subseteq {r.tx},
           mode' \in {"idle", "commitSync"},
           committing' # 0 => r.type = "commit" /\ r.tx = committing'
    PROVE  Ordered'
<1>. DEFINE n == Len(wal)
<1>1. /\ n \in Nat /\ DOMAIN wal = 1 .. n /\ DOMAIN wal' = 1 .. n + 1
      /\ wal'[n + 1] = r /\ \A i \in 1 .. n : wal'[i] = wal[i]
    BY AppendFacts DEF LockInv, TypeOK, WALTypeOK
<1>2. \A i \in 1 .. n : wal[i].tx \in Nat
    BY <1>1, RecordsOfLog, ImageFacts DEF LockInv, TypeOK, WALTypeOK, TxId
<1>3. r.tx \in Nat /\ nextTxID \in Nat
    BY ImageFacts DEF LogRecord, TxId, LockInv, TypeOK
<1>. HIDE DEF n
<1>4. \A i \in 1 .. n : wal[i].tx < nextTxID
    BY <1>1 DEF Ordered
<1>5. \A i \in 1 .. n : wal[i].tx <= r.tx
    BY <1>2, <1>3, <1>4
<1>6. ASSUME NEW i \in 1 .. n + 1, NEW j \in 1 .. n + 1, i < j
      PROVE  wal'[i].tx <= wal'[j].tx
    <2>1. i \in 1 .. n
        BY <1>1, <1>6
    <2>2. CASE j = n + 1
        BY <1>1, <1>5, <2>1, <2>2
    <2>3. CASE j # n + 1
        <3>1. j \in 1 .. n
            BY <1>1, <2>3
        <3>2. wal[i].tx <= wal[j].tx
            BY <1>1, <1>6, <2>1, <3>1 DEF Ordered
        <3>. QED
            BY <1>1, <2>1, <3>1, <3>2
    <2>. QED
        BY <2>2, <2>3
<1>7. \A i \in 1 .. n + 1 : wal'[i].tx < nextTxID'
    BY <1>1, <1>2, <1>3, <1>5
<1>8. committing' # 0 => committing' \in CommittedIn(wal')
    BY CommittedByAppend DEF LockInv, TypeOK, WALTypeOK
<1>. QED
    BY <1>1, <1>6, <1>7, <1>8 DEF Ordered

\* A record that is no update keeps what the workspaces have logged.
LEMMA WorkspaceByRecord ==
    ASSUME LockInv, WorkspaceLogged, NEW r \in LogRecord, r.type # "update",
           wal' = Append(wal, r), Active' = Active, dirty' = dirty
    PROVE  WorkspaceLogged'
<1>1. wal \in Seq(LogRecord)
    BY DEF LockInv, TypeOK, WALTypeOK
<1>2. ASSUME NEW t, NEW p
      PROVE  /\ UpdatesOf(wal', t, p) = UpdatesOf(wal, t, p)
             /\ \A i \in UpdatesOf(wal, t, p) : wal'[i] = wal[i]
    BY <1>1, UpdatesByAppend, AppendFacts DEF UpdatesOf
<1>3. ASSUME NEW t \in Active, NEW p \in PageId
      PROVE  /\ dirty[t][p] = NoData <=> UpdatesOf(wal, t, p) = {}
             /\ \A i \in UpdatesOf(wal, t, p) :
                    IsLast(i, UpdatesOf(wal, t, p)) => wal[i].data = dirty[t][p]
    BY DEF WorkspaceLogged
<1>4. ASSUME NEW t \in Active', NEW p \in PageId
      PROVE  /\ dirty'[t][p] = NoData <=> UpdatesOf(wal', t, p) = {}
             /\ \A i \in UpdatesOf(wal', t, p) :
                    IsLast(i, UpdatesOf(wal', t, p)) => wal'[i].data = dirty'[t][p]
    <2>1. t \in Active /\ dirty'[t][p] = dirty[t][p]
        OBVIOUS
    <2>2. /\ UpdatesOf(wal', t, p) = UpdatesOf(wal, t, p)
          /\ \A i \in UpdatesOf(wal, t, p) : wal'[i] = wal[i]
        BY <1>2
    <2>3. /\ dirty[t][p] = NoData <=> UpdatesOf(wal, t, p) = {}
          /\ \A i \in UpdatesOf(wal, t, p) :
                 IsLast(i, UpdatesOf(wal, t, p)) => wal[i].data = dirty[t][p]
        BY <1>3, <2>1
    <2>. QED
        BY <2>1, <2>2, <2>3
<1>5. \A t \in TxId \ Active', p \in PageId : dirty'[t][p] = NoData
    BY DEF WorkspaceLogged
<1>. QED
    BY <1>4, <1>5 DEF WorkspaceLogged

\* Begin, with or without success: its number is greater than any in the log.
LEMMA BeginKeepsAhead ==
    ASSUME "append" \notin Faults, LockInv, AheadInv, Begin \/ BeginFails
    PROVE  AheadInv'
<1>. DEFINE r == Record("begin", nextTxID)
<1>1. /\ mode = "idle" /\ mode' = "idle" /\ committing = 0 /\ committing' = 0 /\ Up /\ Up'
      /\ nextTxID \in TxId /\ nextTxID' = nextTxID + 1 /\ dirty' = dirty
    BY WhoIsActive, ImageFacts DEF Begin, BeginFails, commitVars, LockInv, TypeOK, TxId, Up
<1>2. r \in LogRecord /\ r.type = "begin" /\ r.tx = nextTxID
    BY <1>1, RecordFacts DEF Record
<1>3. wal' = Append(wal, r)
    BY NoAppendFails DEF Begin, BeginFails
<1>. HIDE DEF r
<1>4. Ordered /\ WorkspaceLogged /\ wal \in Seq(LogRecord) /\ nextTxID \in Nat
    BY <1>1, ImageFacts DEF AheadInv, LockInv, TypeOK, WALTypeOK, TxId
<1>5. Active = {} /\ Active' \subseteq {nextTxID}
    BY <1>1 DEF Begin, BeginFails, LockInv, LockDiscipline, TypeOK, Active
<1>6. Ordered'
    <2>1. nextTxID' \in Nat /\ nextTxID <= nextTxID'
        BY <1>1, <1>4
    <2>. QED
        BY <1>1, <1>2, <1>3, <1>4, <1>5, <2>1, OrderedByAppend
<1>7. ASSUME NEW p PROVE UpdatesOf(wal', nextTxID, p) = {}
    <2>1. \A i \in DOMAIN wal : wal[i].tx # nextTxID
        BY <1>4 DEF Ordered
    <2>2. UpdatesOf(wal, nextTxID, p) = {}
        BY <2>1 DEF UpdatesOf
    <2>. QED
        BY <1>2, <1>3, <1>4, <2>2, UpdatesByAppend
<1>8. ASSUME NEW t \in TxId, NEW p \in PageId PROVE dirty'[t][p] = NoData
    BY <1>1, <1>4, <1>5 DEF WorkspaceLogged
<1>9. WorkspaceLogged'
    <2>1. \A t \in Active' : t = nextTxID /\ t \in TxId
        BY <1>1, <1>5
    <2>2. ASSUME NEW t \in Active', NEW p \in PageId
          PROVE  dirty'[t][p] = NoData /\ UpdatesOf(wal', t, p) = {}
        BY <1>7, <1>8, <2>1
    <2>. QED
        BY <1>8, <2>2 DEF WorkspaceLogged
<1>. QED
    BY <1>1, <1>6, <1>9 DEF AheadInv

\* A step between calls by which the active transaction appends a record that
\* is no update, and stays active.
LEMMA RecordKeepsAhead ==
    ASSUME LockInv, AheadInv, mode = "idle", NEW t \in Active,
           NEW r \in LogRecord, r.type # "update", r.tx = t, wal' = Append(wal, r),
           UNCHANGED txVars, mode' \in {"idle", "commitSync"},
           committing' # 0 => r.type = "commit" /\ t = committing'
    PROVE  AheadInv'
<1>1. /\ Up /\ Up' /\ Ordered /\ WorkspaceLogged /\ Active = {t} /\ Active' = Active
      /\ dirty' = dirty /\ nextTxID' = nextTxID /\ nextTxID \in Nat
    <2>1. Up /\ Up'
        BY DEF Up
    <2>2. Active = {t}
        BY DEF LockInv, LockDiscipline
    <2>. QED
        BY <2>1, <2>2, ImageFacts DEF AheadInv, Active, txVars, LockInv, TypeOK
<1>2. Ordered'
    <2>1. nextTxID' \in Nat /\ nextTxID' = r.tx + 1 /\ nextTxID <= nextTxID'
        BY <1>1 DEF Ordered
    <2>. QED
        BY <1>1, <2>1, OrderedByAppend
<1>3. WorkspaceLogged'
    BY <1>1, WorkspaceByRecord
<1>. QED
    BY <1>1, <1>2, <1>3 DEF AheadInv

\* A step that ends the active transaction.
LEMMA EndKeepsAhead ==
    ASSUME LockInv, AheadInv, Up, mode' = "idle", committing' = 0, NEW t \in Active,
           NEW state \in {"committed", "aborted"},
           txState' = [txState EXCEPT ![t] = state],
           dirty' = [dirty EXCEPT ![t] = NoDirtyPages],
           nextTxID' = nextTxID,
           \/ wal' = wal
           \/ \E r \in LogRecord : r.tx = t /\ wal' = Append(wal, r)
    PROVE  AheadInv'
<1>1. /\ Up' /\ Ordered /\ WorkspaceLogged /\ t \in TxId /\ nextTxID \in Nat
      /\ nextTxID = t + 1
    BY DEF Up, AheadInv, Active, Ordered, LockInv, TypeOK
<1>2. Active = {t} /\ Active' = {}
    BY DEF LockInv, LockDiscipline, TypeOK, Active
<1>3. Ordered'
    <2>1. CASE wal' = wal
        BY <1>1, <1>2, <2>1 DEF Ordered
    <2>2. CASE \E r \in LogRecord : r.tx = t /\ wal' = Append(wal, r)
        <3>1. PICK r \in LogRecord : r.tx = t /\ wal' = Append(wal, r)
            BY <2>2
        <3>2. nextTxID' \in Nat /\ nextTxID' = r.tx + 1 /\ nextTxID <= nextTxID'
            BY <1>1, <3>1
        <3>. QED
            BY <1>1, <1>2, <3>1, <3>2, OrderedByAppend
    <2>. QED
        BY <2>1, <2>2
<1>4. ASSUME NEW u \in TxId, NEW p \in PageId PROVE dirty'[u][p] = NoData
    BY <1>1, <1>2 DEF WorkspaceLogged, NoDirtyPages, LockInv, TypeOK
<1>5. WorkspaceLogged'
    BY <1>2, <1>4 DEF WorkspaceLogged
<1>. QED
    BY <1>1, <1>3, <1>5 DEF AheadInv

\* A step that leaves the log and the transactions alone.
LEMMA SameLogKeepsAhead ==
    ASSUME LockInv, AheadInv, Up, Up', UNCHANGED <<wal, txVars>>, committing' \in {0, committing},
           mode' \in {"commitWrite", "commitFlush"} => synced' = Len(wal)
    PROVE  AheadInv'
<1>1. Ordered /\ WorkspaceLogged /\ Active' = Active /\ dirty' = dirty
    BY DEF AheadInv, Active, txVars
<1>2. Ordered'
    BY <1>1 DEF Ordered, txVars
<1>3. WorkspaceLogged'
    BY <1>1 DEF WorkspaceLogged
<1>. QED
    BY <1>2, <1>3 DEF AheadInv

\* Commit and Rollback.
LEMMA CommitKeepsAhead ==
    ASSUME "append" \notin Faults, LockInv, AheadInv,
           \/ \E t \in TxId : CommitLog(t) \/ CommitLogFails(t) \/ Rollback(t) \/ RollbackFails(t)
           \/ CommitSync \/ CommitSyncFails \/ CommitFlush \/ CommitFlushFails
           \/ \E p \in PageId : CommitWrite(p) \/ CommitWriteFails(p)
    PROVE  AheadInv'
<1>1. ASSUME NEW t \in TxId, CommitLog(t) \/ RollbackFails(t) PROVE AheadInv'
    <2>. DEFINE r == Record(IF CommitLog(t) THEN "commit" ELSE "abort", t)
    <2>1. r \in LogRecord /\ r.type # "update" /\ r.tx = t /\ (CommitLog(t) => r.type = "commit")
        BY RecordFacts DEF Record
    <2>2. wal' = Append(wal, r)
        BY <1>1, NoAppendFails DEF CommitLog, RollbackFails
    <2>. HIDE DEF r
    <2>3. /\ mode = "idle" /\ committing = 0 /\ t \in Active /\ UNCHANGED txVars
          /\ mode' \in {"idle", "commitSync"}
          /\ committing' # 0 => CommitLog(t) /\ t = committing'
        BY <1>1, WhoIsActive DEF CommitLog, RollbackFails, Active, commitVars
    <2>. QED
        BY <2>1, <2>2, <2>3, RecordKeepsAhead
<1>2. ASSUME NEW t \in TxId, Rollback(t) PROVE AheadInv'
    <2>1. /\ mode = "idle" /\ mode' = "idle" /\ committing' = 0 /\ t \in Active /\ Up
          /\ txState' = [txState EXCEPT ![t] = "aborted"]
          /\ dirty' = [dirty EXCEPT ![t] = NoDirtyPages] /\ nextTxID' = nextTxID
          /\ wal' = Append(wal, Record("abort", t))
        BY <1>2, WhoIsActive DEF Rollback, Active, commitVars, Up, WalForce
    <2>2. \E r \in LogRecord : r.tx = t /\ wal' = Append(wal, r)
        BY <2>1, RecordFacts DEF Record
    <2>. QED
        BY <2>1, <2>2, EndKeepsAhead
<1>3. CASE CommitSync
    BY <1>3, SameLogKeepsAhead DEF CommitSync, WalSync, AfterWriting, Up
<1>4. CASE CommitSyncFails \/ CommitFlushFails
    BY <1>4, SameLogKeepsAhead
    DEF CommitSyncFails, CommitFlushFails, WalSyncFails, CommitReturnsError, walVars, Up
<1>5. CASE CommitFlush
    <2>1. /\ mode = "commitFlush" /\ Up /\ mode' = "idle" /\ committing' = 0
          /\ txState' = [txState EXCEPT ![committing] = "committed"]
          /\ dirty' = [dirty EXCEPT ![committing] = NoDirtyPages] /\ nextTxID' = nextTxID
          /\ wal' = wal
        BY <1>5 DEF CommitFlush, Up, walVars
    <2>2. committing \in Active
        BY <2>1, WhoIsActive
    <2>. QED
        BY <2>1, <2>2, EndKeepsAhead
<1>6. ASSUME NEW p \in PageId, CommitWrite(p) PROVE AheadInv'
    <2>1. mode = "commitWrite" /\ Up /\ Up' /\ UNCHANGED <<wal, synced, committing, txVars>>
        BY <1>6 DEF CommitWrite, AfterWriting, Up, walVars
    <2>2. synced = Len(wal)
        BY <2>1 DEF AheadInv, Ordered
    <2>. QED
        BY <2>1, <2>2, SameLogKeepsAhead
<1>7. ASSUME NEW p \in PageId, CommitWriteFails(p) PROVE AheadInv'
    BY <1>7, SameLogKeepsAhead DEF CommitWriteFails, CommitReturnsError, walVars, Up
<1>8. \A t : ~ CommitLogFails(t)
    BY NoAppendFails DEF CommitLogFails
<1>. QED
    BY <1>1, <1>2, <1>3, <1>4, <1>5, <1>6, <1>7, <1>8

\* A write of the active transaction that is logged.
LEMMA LoggedWriteKeepsAhead ==
    ASSUME LockInv, AheadInv, NEW t \in TxId, Usable(t), NEW p \in PageId, NEW d \in Data,
           dirty' = [dirty EXCEPT ![t][p] = d], WalAppend(UpdateRecord(t, p, d)),
           UNCHANGED <<txState, nextTxID, commitVars>>
    PROVE  AheadInv'
<1>. DEFINE r == UpdateRecord(t, p, d)
<1>1. /\ mode = "idle" /\ mode' = "idle" /\ committing' = 0 /\ Active = {t} /\ Active' = Active
      /\ Up /\ Up'
    BY WhoIsActive DEF commitVars, Active, Up
<1>2. r \in LogRecord /\ r.type = "update" /\ r.tx = t
    BY RecordFacts DEF UpdateRecord
<1>3. wal' = Append(wal, r) /\ Ordered /\ WorkspaceLogged /\ nextTxID \in Nat
    BY <1>1 DEF WalAppend, AheadInv, LockInv, TypeOK
<1>4. WorkspaceLogged'
    BY <1>1, <1>3, WorkspaceByWrite
<1>. HIDE DEF r
<1>5. Ordered'
    <2>1. nextTxID' \in Nat /\ nextTxID' = r.tx + 1 /\ nextTxID <= nextTxID'
        BY <1>1, <1>2, <1>3 DEF Ordered
    <2>. QED
        BY <1>1, <1>2, <1>3, <2>1, OrderedByAppend
<1>. QED
    BY <1>1, <1>4, <1>5 DEF AheadInv

\* Page operations.
LEMMA PageOperationsKeepAhead ==
    ASSUME "append" \notin Faults, LockInv, AheadInv,
           \/ \E t \in TxId, p \in PageId, v \in Values : WritePage(t, p, v) \/ WritePageFails(t, p, v)
           \/ \E t \in TxId : AllocatePage(t) \/ AllocatePageFails(t)
           \/ \E p \in PageId : FetchPage(p)
           \/ ReloadCatalogPage \/ AllocateIndexPage
           \/ \E p \in PageId, v \in Values : WriteIndexPage(p, v)
           \/ UNCHANGED vars /\ Up
    PROVE  AheadInv'
<1>1. ASSUME NEW t \in TxId, NEW p \in PageId, NEW v \in Values, WritePage(t, p, v) PROVE AheadInv'
    <2>1. /\ v \in Data /\ Usable(t) /\ dirty' = [dirty EXCEPT ![t][p] = v]
          /\ WalAppend(UpdateRecord(t, p, v)) /\ UNCHANGED <<txState, nextTxID, commitVars>>
        BY <1>1 DEF WritePage, Data
    <2>. QED
        BY <2>1, LoggedWriteKeepsAhead
<1>2. ASSUME NEW t \in TxId, AllocatePage(t) PROVE AheadInv'
    <2>. DEFINE n == nextPageID
    <2>1. n \in PageId /\ Zero \in Data
        BY <1>2, ImageFacts DEF AllocatePage, PagerAllocate, LockInv, TypeOK, PagerTypeOK, PageId
    <2>2. /\ Usable(t) /\ dirty' = [dirty EXCEPT ![t][n] = Zero]
          /\ WalAppend(UpdateRecord(t, n, Zero)) /\ UNCHANGED <<txState, nextTxID, commitVars>>
        BY <1>2 DEF AllocatePage
    <2>. HIDE DEF n
    <2>. QED
        BY <2>1, <2>2, LoggedWriteKeepsAhead
<1>3. ASSUME Up, UNCHANGED <<walVars, commitVars, txVars>> PROVE AheadInv'
    <2>1. Up' /\ (mode' \in {"commitWrite", "commitFlush"} => synced' = Len(wal))
        BY <1>3 DEF Up, commitVars, walVars, AheadInv, Ordered
    <2>. QED
        BY <1>3, <2>1, SameLogKeepsAhead DEF commitVars, walVars
<1>4. ASSUME NEW t \in TxId, AllocatePageFails(t) PROVE AheadInv'
    <2>1. Up /\ UNCHANGED <<walVars, commitVars, txVars>>
        BY <1>4, NoAppendFails DEF AllocatePageFails, PagerFree, txVars
    <2>. QED
        BY <1>3, <2>1
<1>5. ASSUME NEW p \in PageId, FetchPage(p) \/ \E v \in Values : WriteIndexPage(p, v)
      PROVE  AheadInv'
    BY <1>3, <1>5 DEF FetchPage, WriteIndexPage, PagerFree
<1>6. CASE ReloadCatalogPage \/ AllocateIndexPage \/ (UNCHANGED vars /\ Up)
    BY <1>3, <1>6 DEF ReloadCatalogPage, AllocateIndexPage, PagerFree, vars
<1>7. \A t, p, v : ~ WritePageFails(t, p, v)
    BY NoAppendFails DEF WritePageFails
<1>. QED
    BY <1>1, <1>2, <1>4, <1>5, <1>6, <1>7

\* Crash and recovery.
LEMMA RecoveryKeepsAhead ==
    ASSUME LockInv, AheadInv,
           Crash \/ Open \/ OpenFails \/ Redo \/ RecoverFlush \/ RecoverTruncate
           \/ (UNCHANGED vars /\ ~ Up)
    PROVE  AheadInv'
<1>1. CASE Crash
    BY <1>1 DEF Crash, AheadInv, Up, Active, NoDirtyPages
<1>2. ASSUME ~ Up, ~ Up', UNCHANGED txVars PROVE AheadInv'
    BY <1>2 DEF AheadInv, Active, txVars
<1>3. CASE Open \/ OpenFails \/ Redo \/ RecoverFlush \/ (UNCHANGED vars /\ ~ Up)
    BY <1>2, <1>3 DEF Open, OpenFails, Redo, RecoverFlush, vars, Up, commitVars
<1>4. CASE RecoverTruncate
    <2>1. /\ mode = "truncate" /\ mode' = "idle" /\ ~ Up /\ Up' /\ wal' = <<>>
          /\ committing' = committing /\ UNCHANGED txVars
        BY <1>4 DEF RecoverTruncate, Up, WalTruncate
    <2>2. /\ committing = 0 /\ Active' = {} /\ dirty' = dirty
          /\ \A t \in TxId, p \in PageId : dirty[t][p] = NoData
        BY <2>1 DEF LockInv, LockDiscipline, AheadInv, Active, txVars
    <2>3. DOMAIN wal' = {}
        BY <2>1
    <2>4. Ordered'
        BY <2>1, <2>2, <2>3 DEF Ordered
    <2>5. WorkspaceLogged'
        BY <2>2 DEF WorkspaceLogged
    <2>. QED
        BY <2>1, <2>4, <2>5 DEF AheadInv
<1>. QED
    BY <1>1, <1>3, <1>4

\* Every step keeps the invariant, if no append fails.
LEMMA AheadInvStep ==
    ASSUME "append" \notin Faults, LockInv, AheadInv, [Next]_vars
    PROVE  AheadInv'
<1>1. CASE UNCHANGED vars
    BY <1>1, PageOperationsKeepAhead, RecoveryKeepsAhead
<1>2. CASE Next
    BY <1>2, BeginKeepsAhead, CommitKeepsAhead, PageOperationsKeepAhead, RecoveryKeepsAhead
    DEF Next
<1>. QED
    BY <1>1, <1>2

\* The two invariants hold together.
LEMMA AheadInvAlways == ASSUME "append" \notin Faults PROVE Spec => [](LockInv /\ AheadInv)
<1>1. Init => LockInv /\ AheadInv
    BY LockInvInit, DurInvInit, DurInvAhead
<1>2. LockInv /\ AheadInv /\ [Next]_vars => (LockInv /\ AheadInv)'
    BY LockInvStep, AheadInvStep
<1>. QED
    BY <1>1, <1>2, PTL DEF Spec

\* The "Write-Ahead guarantee" of Commit: unless an append fails, and whatever
\* fsyncs and page writes do, Commit writes pages only once the durable log
\* holds its COMMIT record and their images, also when it is tried again.
THEOREM CommitIsWrittenAhead == ASSUME "append" \notin Faults PROVE Spec => []WriteAhead
<1>1. LockInv /\ AheadInv => WriteAhead
    BY AheadInvWriteAhead
<1>. QED
    BY <1>1, AheadInvAlways, PTL

-----------------------------------------------------------------------------
(* What open transactions read, when no page write fails.                  *)

\* No call of the pager fails.
LEMMA NoPageFails ==
    ASSUME "page" \notin Faults
    PROVE  /\ ~ PagerAllocateFails /\ ~ PagerFlushFails /\ ~ CommitFlushFails
           /\ \A p, d : ~ PagerWriteFails(p, d)
           /\ \A p : ~ CommitWriteFails(p)
BY DEF PagerAllocateFails, PagerFlushFails, PagerWriteFails, CommitFlushFails, CommitWriteFails

\* Then every step keeps the cache and the file in agreement.
LEMMA CoherentStep ==
    ASSUME "page" \notin Faults, LockInv, Coherent, [Next]_vars
    PROVE  Coherent'
<1>1. PagerTypeOK /\ 0 \in PageId /\ Values \subseteq Data
    BY ImageFacts DEF LockInv, TypeOK, PageId
<1>2. ASSUME UNCHANGED pagerVars PROVE Coherent'
    BY <1>1, <1>2, PagerCoherent
<1>3. CASE \/ Begin \/ BeginFails \/ CommitSync \/ CommitSyncFails \/ OpenFails \/ UNCHANGED vars
           \/ \E t \in TxId : CommitLog(t) \/ CommitLogFails(t) \/ Rollback(t) \/ RollbackFails(t)
    BY <1>2, <1>3
    DEF Begin, BeginFails, CommitSync, CommitSyncFails, OpenFails, CommitLog, CommitLogFails,
        Rollback, RollbackFails, vars
<1>4. CASE \E t \in TxId, p \in PageId, v \in Values : WritePage(t, p, v) \/ WritePageFails(t, p, v)
    BY <1>2, <1>4 DEF WritePage, WritePageFails
<1>5. CASE CommitFlush \/ RecoverFlush
    BY <1>1, <1>5, PagerCoherent DEF CommitFlush, RecoverFlush
<1>6. CASE \/ \E t \in TxId : AllocatePage(t) \/ AllocatePageFails(t)
           \/ AllocateIndexPage \/ Open
    <2>1. PagerAllocate \/ PagerOpen
        BY <1>6, NoPageFails DEF AllocatePage, AllocatePageFails, AllocateIndexPage, Open
    <2>. QED
        BY <1>1, <2>1, PagerCoherent
<1>7. CASE (\E p \in PageId : FetchPage(p)) \/ ReloadCatalogPage \/ RecoverTruncate
    BY <1>1, <1>7, PagerCoherent DEF FetchPage, ReloadCatalogPage, RecoverTruncate
<1>8. ASSUME NEW p \in PageId, CommitWrite(p) PROVE Coherent'
    <2>1. mode = "commitWrite" /\ p \in todo /\ PagerWrite(p, dirty[committing][p])
        BY <1>8 DEF CommitWrite
    <2>2. p \in DirtyPages(committing) /\ committing \in TxId
        BY <2>1, WhoIsActive, ImageFacts DEF LockInv, TodoIsDirty
    <2>3. dirty[committing][p] \in Data
        BY <2>2, ImageFacts DEF DirtyPages, Image, LockInv, TypeOK
    <2>. QED
        BY <1>1, <2>1, <2>3, PagerCoherent
<1>9. CASE \E p \in PageId, v \in Values : WriteIndexPage(p, v)
    BY <1>1, <1>9, PagerCoherent DEF WriteIndexPage
<1>10. CASE Crash
    BY <1>10 DEF Crash, Coherent, EmptyCache
<1>11. CASE Redo
    <2>1. records[cursor].page \in PageId /\ records[cursor].data \in Data
        <3>1. cursor \in DOMAIN records /\ records \in Seq(LogRecord)
            BY <1>11, LenProperties DEF Redo, LockInv, TypeOK
        <3>. QED
            BY <3>1, RecordsOfLog
    <2>. QED
        BY <1>1, <1>11, <2>1, PagerCoherent DEF Redo
<1>. QED
    BY <1>3, <1>4, <1>5, <1>6, <1>7, <1>8, <1>9, <1>10, <1>11, NoPageFails DEF Next

\* A database that is down or in recovery has no transaction.
LEMMA DownStep ==
    ASSUME LockInv, ~Up => Active = {}, [Next]_vars
    PROVE  ~Up' => Active' = {}
<1>1. CASE Crash
    BY <1>1 DEF Crash, Active
<1>2. CASE OpenFails \/ Open \/ Redo \/ RecoverFlush \/ RecoverTruncate \/ UNCHANGED vars
    BY <1>2 DEF OpenFails, Open, Redo, RecoverFlush, RecoverTruncate, Active, Up, txVars, vars,
                commitVars
<1>3. CASE \/ Begin \/ BeginFails \/ CommitSync \/ CommitSyncFails \/ CommitFlush \/ CommitFlushFails
           \/ \E p \in PageId : CommitWrite(p) \/ CommitWriteFails(p)
           \/ \E t \in TxId : CommitLog(t) \/ CommitLogFails(t) \/ Rollback(t) \/ RollbackFails(t)
    BY <1>3
    DEF Begin, BeginFails, CommitSync, CommitSyncFails, CommitFlush, CommitFlushFails, CommitWrite,
        CommitWriteFails, CommitLog, CommitLogFails, Rollback, RollbackFails, CommitReturnsError,
        AfterWriting, Up, commitVars
<1>4. CASE \/ \E t \in TxId, p \in PageId, v \in Values : WritePage(t, p, v) \/ WritePageFails(t, p, v)
           \/ \E t \in TxId : AllocatePage(t) \/ AllocatePageFails(t)
           \/ \E p \in PageId : FetchPage(p)
           \/ ReloadCatalogPage \/ AllocateIndexPage
           \/ \E p \in PageId, v \in Values : WriteIndexPage(p, v)
    <2>1. Up /\ mode' = mode
        BY <1>4
        DEF WritePage, WritePageFails, AllocatePage, AllocatePageFails, FetchPage, ReloadCatalogPage,
            AllocateIndexPage, WriteIndexPage, Usable, PagerFree, commitVars
    <2>. QED
        BY <2>1 DEF Up
<1>. QED
    BY <1>1, <1>2, <1>3, <1>4 DEF Next

\* RepeatableReads needs no more than this, beside LockInv.
ReadsInv == Coherent /\ (~Up => Active = {})

\* What a transaction sees of an existing page stays while it is open.
LEMMA RepeatableStep ==
    ASSUME "page" \notin Faults, LockInv, ReadsInv, [Next]_vars,
           NEW t \in Active, txState'[t] = "active", committing' # t, Up',
           NEW p \in (0 .. nextPageID - 1) \ indexPages
    PROVE  Visible(p)' = Visible(p)
<1>1. /\ Up /\ Coherent /\ Coherent' /\ t \in TxId /\ p \in PageId
      /\ nextPageID \in Nat /\ p # nextPageID /\ disk \in [PageId -> Data]
    BY ImageFacts, CoherentStep DEF ReadsInv, Active, LockInv, TypeOK, PagerTypeOK, PageId
<1>2. Visible(p) = disk[p] /\ Visible(p)' = disk'[p]
    BY <1>1 DEF Visible, Coherent
<1>3. CASE \/ Begin \/ BeginFails \/ CommitSync \/ CommitSyncFails \/ UNCHANGED vars
           \/ \E u \in TxId : CommitLog(u) \/ CommitLogFails(u) \/ Rollback(u) \/ RollbackFails(u)
    BY <1>2, <1>3
    DEF Begin, BeginFails, CommitSync, CommitSyncFails, CommitLog, CommitLogFails,
        Rollback, RollbackFails, vars, pagerVars
<1>4. CASE \E u \in TxId, q \in PageId, v \in Values : WritePage(u, q, v) \/ WritePageFails(u, q, v)
    BY <1>2, <1>4 DEF WritePage, WritePageFails, pagerVars
<1>5. CASE CommitFlush
    BY <1>1, <1>2, <1>5, PagerCoherent DEF CommitFlush, LockInv, TypeOK
<1>6. CASE AllocateIndexPage \/ \E u \in TxId : AllocatePage(u) \/ AllocatePageFails(u)
    <2>1. PagerAllocate
        BY <1>6, NoPageFails DEF AllocatePage, AllocatePageFails, AllocateIndexPage
    <2>. QED
        BY <1>1, <1>2, <2>1 DEF PagerAllocate
<1>7. CASE (\E q \in PageId : FetchPage(q)) \/ ReloadCatalogPage
    BY <1>2, <1>7 DEF FetchPage, ReloadCatalogPage, PagerFetch, PagerReload
<1>8. CASE \E q \in PageId, v \in Values : WriteIndexPage(q, v)
    BY <1>1, <1>2, <1>8 DEF WriteIndexPage, PagerWrite
<1>9. ~ \E q \in PageId : CommitWrite(q)
    <2>1. mode = "commitWrite" => committing = t
        BY <1>1, WhoIsActive
    <2>. QED
        BY <2>1 DEF CommitWrite
<1>10. ~ (Crash \/ Open \/ OpenFails \/ Redo \/ RecoverFlush \/ RecoverTruncate)
    BY <1>1 DEF Crash, Open, OpenFails, Redo, RecoverFlush, RecoverTruncate, Up
<1>. QED
    BY <1>3, <1>4, <1>5, <1>6, <1>7, <1>8, <1>9, <1>10, NoPageFails DEF Next

\* "Serialisation" by globalLock: unless a page write fails, nothing that a
\* transaction can read changes while it is open, whatever the log refuses.
THEOREM ReadsAreRepeatable == ASSUME "page" \notin Faults PROVE Spec => RepeatableReads
<1>1. Init => LockInv /\ ReadsInv
    BY LockInvInit, DurInvInit DEF DurInv, LogShape, ReadsInv
<1>2. LockInv /\ ReadsInv /\ [Next]_vars => (LockInv /\ ReadsInv)'
    BY LockInvStep, CoherentStep, DownStep DEF ReadsInv
<1>3. LockInv /\ ReadsInv /\ [Next]_vars =>
          [\A t \in Active : txState'[t] = "active" /\ committing' # t /\ Up' =>
              \A p \in (0 .. nextPageID - 1) \ indexPages : Visible(p)' = Visible(p)]_vars
    BY RepeatableStep
<1>. QED
    BY <1>1, <1>2, <1>3, PTL DEF Spec, RepeatableReads

-----------------------------------------------------------------------------
(***************************************************************************)
(* Rollback, when only appends may fail.  A Sync or a page write that      *)
(* fails inside Commit leaves the COMMIT record of a transaction that can  *)
(* still be rolled back; a failed append of that record leaves none.       *)
(***************************************************************************)

\* Of the transactions with a COMMIT record, only the one in Commit is active,
\* and none has been rolled back.
RollbackInv ==
    /\ ~Up => \A t \in TxId : txState[t] = "none"
    /\ Up => /\ \A t \in Active : t < nextTxID
             /\ \A t \in CommittedIn(wal) :
                    /\ t < nextTxID
                    /\ txState[t] # "aborted" /\ (txState[t] = "active" => t = committing)

\* Calls of the log that leave the COMMIT records as they are.
LEMMA SameCommits ==
    ASSUME WALTypeOK
    PROVE  /\ \A r \in LogRecord :
                  r.type # "commit" /\ (WalAppend(r) \/ WalForce(r) \/ WalForceFails(r)) =>
                      CommittedIn(wal)' = CommittedIn(wal)
           /\ WalAppendFails \/ WalSync \/ UNCHANGED walVars => CommittedIn(wal)' = CommittedIn(wal)
<1>1. wal \in Seq(LogRecord) /\ TornRecord \in LogRecord /\ TornRecord.type # "commit"
    BY RecordFacts DEF WALTypeOK, TornRecord, Record
<1>2. ASSUME NEW r \in LogRecord, r.type # "commit", wal' = Append(wal, r)
      PROVE  CommittedIn(wal)' = CommittedIn(wal)
    <2>1. CommittedIn(Append(wal, r)) = CommittedIn(wal)
        BY <1>1, <1>2, CommittedByAppend
    <2>2. CommittedIn(wal)' = CommittedIn(wal')
        BY DEF CommittedIn
    <2>. QED
        BY <1>2, <2>1, <2>2
<1>3. ASSUME wal' = wal PROVE CommittedIn(wal)' = CommittedIn(wal)
    BY <1>3 DEF CommittedIn
<1>4. ASSUME WalAppendFails PROVE CommittedIn(wal)' = CommittedIn(wal)
    BY <1>1, <1>2, <1>3, <1>4 DEF WalAppendFails
<1>5. ASSUME NEW r \in LogRecord, r.type # "commit", WalAppend(r) \/ WalForce(r) \/ WalForceFails(r)
      PROVE  CommittedIn(wal)' = CommittedIn(wal)
    BY <1>2, <1>4, <1>5 DEF WalAppend, WalForce, WalForceFails
<1>. QED
    BY <1>3, <1>4, <1>5 DEF WalSync, walVars

\* A step after which the same transactions have a COMMIT record, and each is
\* in the state it was in.
LEMMA SameStatesKeepRollback ==
    ASSUME RollbackInv, Up, Up', txState' = txState, nextTxID' = nextTxID, committing' = committing,
           CommittedIn(wal)' = CommittedIn(wal)
    PROVE  RollbackInv'
BY DEF RollbackInv, Active

\* Begin, Commit and Rollback.
LEMMA TransactionsKeepRollback ==
    ASSUME "sync" \notin Faults, "page" \notin Faults, LockInv, RollbackInv,
           \/ Begin \/ BeginFails
           \/ \E t \in TxId : CommitLog(t) \/ CommitLogFails(t) \/ Rollback(t) \/ RollbackFails(t)
           \/ CommitSync \/ CommitSyncFails \/ CommitFlush \/ CommitFlushFails
           \/ \E p \in PageId : CommitWrite(p) \/ CommitWriteFails(p)
    PROVE  RollbackInv'
<1>1. /\ WALTypeOK /\ nextTxID \in Nat /\ Active \subseteq TxId
      /\ txState \in [TxId -> {"none", "active", "committed", "aborted"}]
      /\ CommittedIn(wal) \subseteq TxId /\ \A t \in TxId : t \in Nat /\ t # 0
    BY ImageFacts DEF LockInv, TypeOK, Active, CommittedIn, TxId
<1>2. CASE Begin \/ BeginFails
    <2>1. /\ mode = "idle" /\ mode' = "idle" /\ Up /\ Up' /\ nextTxID \in TxId
          /\ nextTxID' = nextTxID + 1 /\ committing' = committing
          /\ txState' \in {txState, [txState EXCEPT ![nextTxID] = "active"]}
        BY <1>1, <1>2, ImageFacts DEF Begin, BeginFails, commitVars, LockInv, TypeOK, TxId, Up
    <2>2. CommittedIn(wal)' = CommittedIn(wal)
        <3>1. Record("begin", nextTxID) \in LogRecord /\ Record("begin", nextTxID).type # "commit"
            BY <2>1, RecordFacts DEF Record
        <3>. QED
            BY <1>1, <1>2, <3>1, SameCommits DEF Begin, BeginFails
    <2>3. \A t \in CommittedIn(wal) : t < nextTxID' /\ txState'[t] = txState[t]
        <3>1. ASSUME NEW t \in CommittedIn(wal)
              PROVE  t < nextTxID /\ t < nextTxID' /\ t # nextTxID
            <4>1. t \in Nat /\ t < nextTxID
                BY <1>1, <2>1 DEF RollbackInv
            <4>. QED
                BY <1>1, <2>1, <4>1
        <3>2. \A t \in CommittedIn(wal) : txState'[t] = txState[t]
            BY <1>1, <2>1, <3>1
        <3>. QED
            BY <3>1, <3>2
    <2>4. \A t \in Active' : t < nextTxID'
        BY <1>1, <2>1 DEF RollbackInv, Active
    <2>. QED
        BY <2>1, <2>2, <2>3, <2>4 DEF RollbackInv
<1>3. ASSUME NEW t \in TxId, CommitLog(t) PROVE RollbackInv'
    <2>1. /\ mode = "idle" /\ Up /\ Up' /\ committing' = t /\ t \in Active
          /\ txState' = txState /\ nextTxID' = nextTxID
        BY <1>3 DEF CommitLog, Active, txVars, Up
    <2>2. committing = 0
        BY <2>1, WhoIsActive
    <2>3. CommittedIn(wal)' = CommittedIn(wal) \cup {t}
        <3>1. /\ Record("commit", t) \in LogRecord /\ Record("commit", t).type = "commit"
              /\ Record("commit", t).tx = t
            BY RecordFacts DEF Record
        <3>2. wal' = Append(wal, Record("commit", t))
            BY <1>3 DEF CommitLog, WalAppend
        <3>3. CommittedIn(Append(wal, Record("commit", t))) = CommittedIn(wal) \cup {t}
            BY <1>1, <3>1, CommittedByAppend DEF WALTypeOK
        <3>. QED
            BY <3>2, <3>3 DEF CommittedIn
    <2>4. Active' = Active
        BY <2>1 DEF Active
    <2>. QED
        BY <1>1, <2>1, <2>2, <2>3, <2>4 DEF RollbackInv, Active
<1>4. ASSUME NEW t \in TxId, CommitLogFails(t) \/ RollbackFails(t) PROVE RollbackInv'
    <2>1. /\ Up /\ Up' /\ UNCHANGED <<txState, nextTxID, committing>>
        BY <1>4 DEF CommitLogFails, RollbackFails, txVars, commitVars, Up
    <2>2. Record("abort", t) \in LogRecord /\ Record("abort", t).type # "commit"
        BY RecordFacts DEF Record
    <2>3. CommittedIn(wal)' = CommittedIn(wal)
        BY <1>1, <1>4, <2>2, SameCommits DEF CommitLogFails, RollbackFails
    <2>. QED
        BY <2>1, <2>3, SameStatesKeepRollback
<1>5. ASSUME NEW t \in TxId, Rollback(t) PROVE RollbackInv'
    <2>1. /\ mode = "idle" /\ Up /\ Up' /\ committing' = committing /\ nextTxID' = nextTxID
          /\ txState[t] = "active" /\ txState' = [txState EXCEPT ![t] = "aborted"]
        BY <1>5 DEF Rollback, commitVars, Up
    <2>2. t \notin CommittedIn(wal)
        BY <1>1, <2>1, WhoIsActive DEF RollbackInv
    <2>3. CommittedIn(wal)' = CommittedIn(wal)
        <3>1. Record("abort", t) \in LogRecord /\ Record("abort", t).type # "commit"
            BY RecordFacts DEF Record
        <3>. QED
            BY <1>1, <1>5, <3>1, SameCommits DEF Rollback
    <2>4. Active' \subseteq Active
        BY <1>1, <2>1 DEF Active
    <2>5. \A u \in CommittedIn(wal) : txState'[u] = txState[u]
        BY <1>1, <2>1, <2>2
    <2>. QED
        BY <2>1, <2>3, <2>4, <2>5 DEF RollbackInv
<1>6. CASE CommitSync \/ \E p \in PageId : CommitWrite(p)
    <2>1. Up /\ Up' /\ UNCHANGED <<txState, nextTxID, committing>> /\ (WalSync \/ UNCHANGED walVars)
        BY <1>6 DEF CommitSync, CommitWrite, AfterWriting, txVars, Up
    <2>. QED
        BY <1>1, <2>1, SameCommits, SameStatesKeepRollback
<1>7. CASE CommitFlush
    <2>1. /\ mode = "commitFlush" /\ Up /\ Up' /\ committing' = 0 /\ nextTxID' = nextTxID
          /\ txState' = [txState EXCEPT ![committing] = "committed"]
        BY <1>7 DEF CommitFlush, Up
    <2>2. CommittedIn(wal)' = CommittedIn(wal) /\ committing \in TxId
        BY <1>1, <1>7, <2>1, SameCommits, WhoIsActive DEF CommitFlush
    <2>3. Active' \subseteq Active
        BY <1>1, <2>1 DEF Active
    <2>4. \A t \in CommittedIn(wal) : txState'[t] \notin {"aborted", "active"}
        BY <1>1, <2>1, <2>2 DEF RollbackInv
    <2>. QED
        BY <2>1, <2>2, <2>3, <2>4 DEF RollbackInv
<1>8. ~ CommitSyncFails
    BY DEF CommitSyncFails, WalSyncFails
<1>. QED
    BY <1>2, <1>3, <1>4, <1>5, <1>6, <1>7, <1>8, NoPageFails

\* Page operations, crashes and recovery.
LEMMA OthersKeepRollback ==
    ASSUME LockInv, RollbackInv,
           \/ \E t \in TxId, p \in PageId, v \in Values : WritePage(t, p, v) \/ WritePageFails(t, p, v)
           \/ \E t \in TxId : AllocatePage(t) \/ AllocatePageFails(t)
           \/ \E p \in PageId : FetchPage(p)
           \/ ReloadCatalogPage \/ AllocateIndexPage
           \/ \E p \in PageId, v \in Values : WriteIndexPage(p, v)
           \/ Crash \/ Open \/ OpenFails \/ Redo \/ RecoverFlush \/ RecoverTruncate
           \/ UNCHANGED vars
    PROVE  RollbackInv'
<1>1. WALTypeOK
    BY DEF LockInv, TypeOK
<1>2. ASSUME Up, UNCHANGED <<commitVars, txState, nextTxID>>,
             \/ WalAppendFails \/ UNCHANGED walVars
             \/ \E t \in TxId, p \in PageId, d \in Data : WalAppend(UpdateRecord(t, p, d))
      PROVE  RollbackInv'
    <2>1. \A t, p, d : UpdateRecord(t, p, d).type # "commit"
        BY DEF UpdateRecord
    <2>2. CommittedIn(wal)' = CommittedIn(wal)
        BY <1>1, <1>2, <2>1, RecordFacts, SameCommits
    <2>. QED
        BY <1>2, <2>2, SameStatesKeepRollback DEF commitVars, Up
<1>3. ASSUME NEW t \in TxId, NEW p \in PageId, NEW v \in Values,
             WritePage(t, p, v) \/ WritePageFails(t, p, v)
      PROVE  RollbackInv'
    BY <1>2, <1>3, ImageFacts DEF WritePage, WritePageFails, Usable
<1>4. ASSUME NEW t \in TxId, AllocatePage(t) \/ AllocatePageFails(t) PROVE RollbackInv'
    <2>1. AllocatePage(t) => nextPageID \in PageId /\ Zero \in Data
        BY ImageFacts DEF AllocatePage, PagerAllocate, LockInv, TypeOK, PagerTypeOK, PageId
    <2>. QED
        BY <1>2, <1>4, <2>1 DEF AllocatePage, AllocatePageFails, PagerFree
<1>5. CASE \/ \E p \in PageId : FetchPage(p)
           \/ ReloadCatalogPage \/ AllocateIndexPage
           \/ \E p \in PageId, v \in Values : WriteIndexPage(p, v)
    BY <1>2, <1>5
    DEF FetchPage, ReloadCatalogPage, AllocateIndexPage, WriteIndexPage, PagerFree, txVars
<1>6. CASE UNCHANGED vars /\ Up
    BY <1>2, <1>6 DEF vars, txVars
<1>7. CASE Crash
    BY <1>7 DEF Crash, RollbackInv, Up
<1>8. CASE OpenFails \/ Open \/ Redo \/ RecoverFlush \/ (UNCHANGED vars /\ ~ Up)
    <2>1. ~ Up /\ ~ Up' /\ txState' = txState
        BY <1>8 DEF OpenFails, Open, Redo, RecoverFlush, Up, txVars, vars, commitVars
    <2>. QED
        BY <2>1 DEF RollbackInv
<1>9. CASE RecoverTruncate
    <2>1. ~ Up /\ Up' /\ txState' = txState /\ wal' = <<>>
        BY <1>9 DEF RecoverTruncate, WalTruncate, Up, txVars
    <2>2. CommittedIn(wal)' = {}
        BY <2>1 DEF CommittedIn
    <2>3. Active' = {}
        BY <2>1 DEF RollbackInv, Active
    <2>. QED
        BY <2>1, <2>2, <2>3 DEF RollbackInv
<1>. QED
    BY <1>3, <1>4, <1>5, <1>6, <1>7, <1>8, <1>9

\* "Rollback rolls back the transaction, discarding modifications": true unless
\* an fsync or a page write fails, whatever appends fail.  The finding of the
\* run tx_rollback is what is left.
THEOREM RollbackIsFinal ==
    ASSUME "sync" \notin Faults, "page" \notin Faults
    PROVE  Spec => []RollbackDiscards
<1>1. Init => LockInv /\ RollbackInv
    <2>1. ASSUME Init PROVE RollbackInv
        <3>1. CommittedIn(wal) = {} /\ Active = {} /\ \A t \in TxId : txState[t] = "none"
            BY <2>1 DEF Init, WALInit, CommittedIn, Active
        <3>. QED
            BY <3>1 DEF RollbackInv
    <2>. QED
        BY <2>1, LockInvInit
<1>2. LockInv /\ RollbackInv /\ [Next]_vars => (LockInv /\ RollbackInv)'
    <2>1. ASSUME LockInv, RollbackInv, Next PROVE RollbackInv'
        BY <2>1, TransactionsKeepRollback, OthersKeepRollback DEF Next
    <2>. QED
        BY <2>1, LockInvStep, OthersKeepRollback
<1>3. LockInv /\ RollbackInv => RollbackDiscards
    <2>. SUFFICES ASSUME LockInv, RollbackInv, NEW i \in DOMAIN wal, Redoable(wal, i)
                  PROVE  txState[wal[i].tx] # "aborted"
        BY DEF RollbackDiscards
    <2>1. wal[i].tx \in CommittedIn(wal) /\ wal[i].tx \in TxId
        BY DEF Redoable, CommittedIn
    <2>. QED
        BY <2>1 DEF RollbackInv
<1>. QED
    BY <1>1, <1>2, <1>3, PTL DEF Spec

-----------------------------------------------------------------------------
(***************************************************************************)
(* When only fsyncs fail, TransactionManager obeys NO-STEAL; when no call  *)
(* fails, it implements CommittedStore.                                    *)
(***************************************************************************)

\* The file covers the page numbers handed out, is zero beyond them, and the
\* log of a database that is down is on the disk.
FileInv ==
    /\ mode \notin {"down", "failed"} => nextPageID = size
    /\ \A p \in PageId : p >= size => disk[p] = Zero
    /\ ~Up => synced = Len(wal)

\* The invariants of the other modules, and this one.
StoreInv == LockInv /\ BoundsInv /\ DurInv /\ FileInv

\* What fsyncs that fail leave of them: NoSteal needs no more.
StealInv ==
    /\ LockInv /\ BoundsInv /\ AheadInv /\ Coherent /\ FileInv
    /\ mode = "redo" => records = Readable(wal)

LEMMA StoreInvSteals == StoreInv => StealInv
BY DurInvAhead DEF StoreInv, StealInv, DurInv, RedoProgress

\* The image of a page that recovery makes of a file and a log.
Restored(file, log, p) ==
    IF Redos(log, p) = {} THEN file[p] ELSE log[LastRedo(log, p)].data

\* Two logs that restore the same image from the same file.
SameForPage(log, other, p) ==
    /\ Redos(log, p) = Redos(other, p)
    /\ \A i \in Redos(other, p) : log[i] = other[i]

\* Each update of a committed transaction precedes its COMMIT.
UpdatesFirst(log) ==
    \A i, j \in DOMAIN log :
        log[i].type = "update" /\ log[j].type = "commit" /\ log[i].tx = log[j].tx => i < j

-----------------------------------------------------------------------------
(* Logs that agree.                                                        *)

\* Logs that agree up to position n, where every transaction that either
\* commits has a COMMIT by then, redo the same updates.
LEMMA AgreeingLogs ==
    ASSUME NEW a \in Seq(LogRecord), NEW b \in Seq(LogRecord), NEW n \in Nat, NEW p,
           1 .. n \subseteq DOMAIN a, 1 .. n \subseteq DOMAIN b, \A i \in 1 .. n : a[i] = b[i],
           UpdatesFirst(a), UpdatesFirst(b),
           \A t \in CommittedIn(a) \cup CommittedIn(b) :
               \E j \in 1 .. n : a[j].type = "commit" /\ a[j].tx = t
    PROVE  SameForPage(a, b, p)
<1>1. DOMAIN a = 1 .. Len(a) /\ DOMAIN b = 1 .. Len(b) /\ Len(a) \in Nat /\ Len(b) \in Nat
    BY LenProperties
<1>2. \A i \in DOMAIN a : a[i].tx \in TxId
    BY <1>1, RecordsOfLog
<1>3. CommittedIn(a) = CommittedIn(b)
    BY <1>2 DEF CommittedIn
<1>4. ASSUME NEW i \in Redos(a, p) PROVE i \in 1 .. n
    <2>1. PICK j \in 1 .. n : a[j].type = "commit" /\ a[j].tx = a[i].tx
        BY DEF Redos, Redoable
    <2>2. i \in DOMAIN a /\ j \in DOMAIN a /\ a[i].type = "update"
        BY DEF Redos, Redoable
    <2>. QED
        BY <1>1, <2>1, <2>2 DEF UpdatesFirst
<1>5. ASSUME NEW i \in Redos(b, p) PROVE i \in 1 .. n
    <2>1. PICK j \in 1 .. n : a[j].type = "commit" /\ a[j].tx = b[i].tx
        BY DEF Redos, Redoable
    <2>2. i \in DOMAIN b /\ j \in DOMAIN b /\ b[i].type = "update" /\ b[j] = a[j]
        BY DEF Redos, Redoable
    <2>. QED
        BY <1>1, <2>1, <2>2 DEF UpdatesFirst
<1>6. Redos(a, p) = Redos(b, p)
    BY <1>3, <1>4, <1>5 DEF Redos, Redoable
<1>. QED
    BY <1>5, <1>6 DEF SameForPage

\* Logs that are the same for a page restore the same image; the file matters
\* only if there is nothing to redo.
LEMMA SameForPageRestores ==
    ASSUME NEW a \in Seq(LogRecord), NEW b \in Seq(LogRecord), NEW p, SameForPage(a, b, p),
           NEW f, NEW g, f[p] = g[p] \/ Redos(b, p) # {}
    PROVE  Restored(f, a, p) = Restored(g, b, p)
<1>1. LastRedo(a, p) = LastRedo(b, p)
    BY DEF LastRedo, SameForPage
<1>2. Redos(b, p) # {} => LastRedo(b, p) \in Redos(b, p)
    BY LastRedoIsLast DEF IsLast
<1>. QED
    BY <1>1, <1>2 DEF Restored, SameForPage

\* The durable log, position by position.
LEMMA DurablePrefix ==
    ASSUME LockInv
    PROVE  /\ wal \in Seq(LogRecord) /\ Len(wal) \in Nat /\ DOMAIN wal = 1 .. Len(wal)
           /\ synced \in 0 .. Len(wal) /\ Durable \in Seq(LogRecord) /\ DOMAIN Durable = 1 .. synced
           /\ \A i \in 1 .. synced : Durable[i] = wal[i]
<1>1. /\ wal \in Seq(LogRecord) /\ Len(wal) \in Nat /\ DOMAIN wal = 1 .. Len(wal)
      /\ synced \in 0 .. Len(wal)
    BY LenProperties DEF LockInv, TypeOK, WALTypeOK
<1>. QED
    BY <1>1, PrefixOfLog DEF Durable

\* Outside the wait for Sync, the durable log redoes what the whole log does.
LEMMA DurableIsEnough ==
    ASSUME LockInv, Serial, mode # "commitSync", NEW p
    PROVE  SameForPage(Durable, wal, p)
<1>1. UpdatesFirst(wal) /\ UpdatesFirst(Durable)
    BY DurablePrefix DEF UpdatesFirst, Serial
<1>2. \A t \in CommittedIn(wal) :
          \E j \in 1 .. synced : Durable[j].type = "commit" /\ Durable[j].tx = t
    BY DurablePrefix DEF CommittedIn, Serial
<1>3. CommittedIn(Durable) \subseteq CommittedIn(wal)
    BY DurablePrefix DEF CommittedIn
<1>4. /\ synced \in Nat /\ 1 .. synced \subseteq DOMAIN Durable /\ 1 .. synced \subseteq DOMAIN wal
      /\ \A i \in 1 .. synced : Durable[i] = wal[i]
      /\ Durable \in Seq(LogRecord) /\ wal \in Seq(LogRecord)
      /\ \A t \in CommittedIn(Durable) \cup CommittedIn(wal) :
             \E j \in 1 .. synced : Durable[j].type = "commit" /\ Durable[j].tx = t
    BY <1>2, <1>3, DurablePrefix
<1>. QED
    BY <1>1, <1>4, AgreeingLogs

\* While Commit waits for Sync, so it does for the pages it will not write.
LEMMA DurableIsEnoughForOthers ==
    ASSUME LockInv, Serial, WorkspaceLogged, mode = "commitSync",
           NEW p \in PageId \ DirtyPages(committing)
    PROVE  SameForPage(Durable, wal, p)
<1>1. committing \in Active
    BY WhoIsActive
<1>2. UpdatesOf(wal, committing, p) = {}
    BY <1>1 DEF WorkspaceLogged, DirtyPages
<1>3. ASSUME NEW i \in Redos(wal, p) PROVE i \in Redos(Durable, p)
    <2>1. i \in DOMAIN wal /\ wal[i].type = "update" /\ wal[i].page = p /\ wal[i].tx # committing
        BY <1>2 DEF Redos, Redoable, UpdatesOf
    <2>2. PICK j \in DOMAIN wal : wal[j].type = "commit" /\ wal[j].tx = wal[i].tx
        BY DEF Redos, Redoable, CommittedIn
    <2>3. j <= synced /\ i < j
        BY <2>1, <2>2 DEF Serial
    <2>4. i \in 1 .. synced /\ j \in 1 .. synced
        BY <2>1, <2>2, <2>3, DurablePrefix
    <2>5. wal[i].tx \in TxId
        BY <2>1, RecordsOfLog, DurablePrefix
    <2>. QED
        BY <2>1, <2>2, <2>4, <2>5, DurablePrefix DEF Redos, Redoable, CommittedIn
<1>4. ASSUME NEW i \in Redos(Durable, p) PROVE i \in Redos(wal, p) /\ Durable[i] = wal[i]
    <2>1. CommittedIn(Durable) \subseteq CommittedIn(wal)
        BY DurablePrefix DEF CommittedIn
    <2>. QED
        BY <2>1, DurablePrefix DEF Redos, Redoable
<1>. QED
    BY <1>3, <1>4 DEF SameForPage

\* What a crash makes of the log: a prefix with the synced records, perhaps a
\* cut-short record behind it, or the removed log.
LEMMA SurvivorShape ==
    ASSUME LockInv, DurInv, NEW log \in Survivors, stale = <<>> \/ log # stale
    PROVE  /\ log \in Seq(LogRecord)
           /\ \E k \in synced .. Len(wal) :
                 /\ 1 .. k \subseteq DOMAIN log
                 /\ \A i \in 1 .. k : log[i] = wal[i]
                 /\ \A i \in DOMAIN log : i \in 1 .. k \/ log[i].type = "torn"
<1>1. log \in Seq(LogRecord)
    BY SurvivorsAreLogs DEF LockInv, TypeOK
<1>2. ASSUME NEW k \in synced .. Len(wal), log = SubSeq(wal, 1, k)
      PROVE  DOMAIN log = 1 .. k /\ \A i \in 1 .. k : log[i] = wal[i]
    <2>1. k \in 0 .. Len(wal)
        BY DurablePrefix
    <2>. QED
        BY <1>2, <2>1, DurablePrefix, PrefixOfLog
<1>3. ASSUME NEW k \in synced .. Len(wal) - 1, log = Append(SubSeq(wal, 1, k), TornRecord)
      PROVE  /\ k \in synced .. Len(wal)
             /\ DOMAIN log = 1 .. k + 1 /\ \A i \in 1 .. k : log[i] = wal[i]
             /\ log[k + 1].type = "torn" /\ k \in Nat
    <2>1. k \in 0 .. Len(wal) /\ k \in synced .. Len(wal) /\ k \in Nat
        BY DurablePrefix
    <2>. DEFINE part == SubSeq(wal, 1, k)
    <2>2. /\ part \in Seq(LogRecord) /\ Len(part) = k /\ \A i \in 1 .. k : part[i] = wal[i]
        BY <2>1, DurablePrefix, PrefixOfLog
    <2>3. TornRecord \in LogRecord /\ TornRecord.type = "torn"
        BY RecordFacts DEF TornRecord, Record
    <2>. HIDE DEF part
    <2>4. log = Append(part, TornRecord)
        BY <1>3 DEF part
    <2>. QED
        BY <2>1, <2>2, <2>3, <2>4, AppendFacts
<1>4. CASE \E k \in synced .. Len(wal) : log = SubSeq(wal, 1, k)
    BY <1>1, <1>2, <1>4
<1>5. CASE \E k \in synced .. Len(wal) - 1 : log = Append(SubSeq(wal, 1, k), TornRecord)
    <2>1. PICK k \in synced .. Len(wal) - 1 : log = Append(SubSeq(wal, 1, k), TornRecord)
        BY <1>5
    <2>2. /\ k \in synced .. Len(wal)
          /\ DOMAIN log = 1 .. k + 1 /\ \A i \in 1 .. k : log[i] = wal[i]
          /\ log[k + 1].type = "torn" /\ k \in Nat
        BY <1>3, <2>1
    <2>3. 1 .. k \subseteq DOMAIN log /\ \A i \in DOMAIN log : i \in 1 .. k \/ log[i].type = "torn"
        BY <2>2
    <2>. QED
        BY <1>1, <2>2, <2>3
<1>. QED
    BY <1>4, <1>5 DEF Survivors

\* A crash outside the wait for Sync leaves a log that redoes the same.
LEMMA SurvivorRedoesTheSame ==
    ASSUME LockInv, DurInv, Serial, mode # "commitSync", NEW p,
           NEW log \in Survivors, stale = <<>> \/ log # stale
    PROVE  SameForPage(log, Durable, p)
<1>1. PICK k \in synced .. Len(wal) :
          /\ 1 .. k \subseteq DOMAIN log
          /\ \A i \in 1 .. k : log[i] = wal[i]
          /\ \A i \in DOMAIN log : i \in 1 .. k \/ log[i].type = "torn"
    BY SurvivorShape
<1>2. k \in 0 .. Len(wal) /\ 1 .. synced \subseteq 1 .. k
    BY DurablePrefix
<1>3. UpdatesFirst(log) /\ UpdatesFirst(Durable)
    BY <1>1, <1>2, DurablePrefix DEF UpdatesFirst, Serial
<1>4. \A t \in CommittedIn(log) \cup CommittedIn(Durable) :
          \E j \in 1 .. synced : log[j].type = "commit" /\ log[j].tx = t
    <2>1. ASSUME NEW j \in DOMAIN log, log[j].type = "commit" PROVE j \in 1 .. synced
        BY <1>1, <1>2, <2>1, DurablePrefix DEF Serial
    <2>2. \A j \in 1 .. synced : Durable[j] = log[j]
        BY <1>1, <1>2, DurablePrefix
    <2>. QED
        BY <2>1, <2>2, DurablePrefix DEF CommittedIn
<1>5. /\ synced \in Nat /\ 1 .. synced \subseteq DOMAIN log /\ 1 .. synced \subseteq DOMAIN Durable
      /\ \A i \in 1 .. synced : log[i] = Durable[i]
      /\ Durable \in Seq(LogRecord) /\ log \in Seq(LogRecord)
    BY <1>1, <1>2, DurablePrefix, SurvivorShape
<1>. QED
    BY <1>3, <1>4, <1>5, AgreeingLogs

\* A crash while Commit waits for Sync leaves a log that redoes what the
\* durable log does, or what the whole log does: the COMMIT decides.
LEMMA CommittingSurvivor ==
    ASSUME LockInv, DurInv, Serial, mode = "commitSync", NEW log \in Survivors, stale = <<>>
    PROVE  \/ \A p \in PageId : SameForPage(log, Durable, p)
           \/ \A p \in PageId : SameForPage(log, wal, p)
<1>1. PICK k \in synced .. Len(wal) :
          /\ 1 .. k \subseteq DOMAIN log
          /\ \A i \in 1 .. k : log[i] = wal[i]
          /\ \A i \in DOMAIN log : i \in 1 .. k \/ log[i].type = "torn"
    BY SurvivorShape
<1>2. /\ k \in Nat /\ k \in 0 .. Len(wal) /\ 1 .. synced \subseteq 1 .. k /\ synced \in Nat
      /\ log \in Seq(LogRecord)
    BY DurablePrefix, SurvivorShape
<1>3. UpdatesFirst(log) /\ UpdatesFirst(wal) /\ UpdatesFirst(Durable)
    <2>1. UpdatesFirst(wal)
        BY DEF UpdatesFirst, Serial
    <2>2. UpdatesFirst(Durable)
        BY <2>1, DurablePrefix DEF UpdatesFirst
    <2>3. UpdatesFirst(log)
        <3>1. 1 .. k \subseteq DOMAIN wal
            BY <1>2, DurablePrefix
        <3>2. ASSUME NEW i \in DOMAIN log, log[i].type \in {"update", "commit"}
              PROVE  i \in DOMAIN wal /\ log[i] = wal[i]
            BY <1>1, <3>1, <3>2
        <3>. QED
            BY <2>1, <3>2 DEF UpdatesFirst
    <2>. QED
        BY <2>1, <2>2, <2>3
<1>4. CASE \E j \in 1 .. k : wal[j].type = "commit" /\ wal[j].tx = committing
    <2>1. ASSUME NEW t \in CommittedIn(log)
          PROVE  \E j \in 1 .. k : log[j].type = "commit" /\ log[j].tx = t
        BY <1>1 DEF CommittedIn
    <2>2. ASSUME NEW t \in CommittedIn(wal)
          PROVE  \E j \in 1 .. k : log[j].type = "commit" /\ log[j].tx = t
        <3>1. PICK j \in DOMAIN wal : wal[j].type = "commit" /\ wal[j].tx = t
            BY DEF CommittedIn
        <3>2. CASE t = committing
            BY <1>1, <1>4, <3>2
        <3>3. CASE t # committing
            BY <1>1, <1>2, <3>1, <3>3, DurablePrefix DEF Serial
        <3>. QED
            BY <3>2, <3>3
    <2>3. 1 .. k \subseteq DOMAIN wal
        BY <1>2, DurablePrefix
    <2>4. \A t \in CommittedIn(log) \cup CommittedIn(wal) :
              \E j \in 1 .. k : log[j].type = "commit" /\ log[j].tx = t
        BY <2>1, <2>2
    <2>. QED
        BY <1>1, <1>2, <1>3, <2>3, <2>4, DurablePrefix, AgreeingLogs
<1>5. CASE ~ \E j \in 1 .. k : wal[j].type = "commit" /\ wal[j].tx = committing
    <2>1. ASSUME NEW j \in DOMAIN log, log[j].type = "commit" PROVE j \in 1 .. synced
        <3>1. j \in 1 .. k /\ wal[j].type = "commit" /\ wal[j].tx # committing
            BY <1>1, <1>5, <2>1
        <3>. QED
            BY <1>2, <3>1, DurablePrefix DEF Serial
    <2>2. /\ 1 .. synced \subseteq DOMAIN log /\ 1 .. synced \subseteq DOMAIN Durable
          /\ \A i \in 1 .. synced : log[i] = Durable[i]
        BY <1>1, <1>2, DurablePrefix
    <2>3. \A t \in CommittedIn(log) \cup CommittedIn(Durable) :
              \E j \in 1 .. synced : log[j].type = "commit" /\ log[j].tx = t
        BY <2>1, <2>2, DurablePrefix DEF CommittedIn
    <2>. QED
        BY <1>2, <1>3, <2>2, <2>3, DurablePrefix, AgreeingLogs
<1>. QED
    BY <1>4, <1>5

-----------------------------------------------------------------------------
(* What changes in the file.                                               *)

\* Only fsyncs fail.
LEMMA OnlySyncsFail ==
    ASSUME "append" \notin Faults, "page" \notin Faults
    PROVE  /\ ~ CommitFlushFails
           /\ \A t : ~ CommitLogFails(t) /\ ~ AllocatePageFails(t)
           /\ \A p : ~ CommitWriteFails(p)
           /\ \A t, p, v : ~ WritePageFails(t, p, v)
BY NoAppendFails, NoPageFails DEF CommitLogFails, AllocatePageFails, WritePageFails

\* What a reader returns is the beginning of the log.
LEMMA ReaderStopsShort ==
    ASSUME NEW log \in Seq(LogRecord)
    PROVE  /\ DOMAIN Readable(log) \subseteq DOMAIN log
           /\ \A i \in DOMAIN Readable(log) : Readable(log)[i] = log[i]
<1>1. CASE TornAt(log) = {}
    BY <1>1 DEF Readable
<1>2. CASE TornAt(log) # {}
    <2>1. TornAt(log) \subseteq 1 .. Len(log) /\ Len(log) \in Nat /\ DOMAIN log = 1 .. Len(log)
        BY LenProperties DEF TornAt
    <2>2. \E i \in TornAt(log) : \A j \in TornAt(log) : i <= j
        BY <1>2, <2>1, SmallestOf
    <2>3. FirstTorn(log) \in 1 .. Len(log)
        BY <2>1, <2>2 DEF FirstTorn
    <2>4. FirstTorn(log) - 1 \in 0 .. Len(log)
        BY <2>1, <2>3
    <2>. QED
        BY <1>2, <2>1, <2>4, PrefixOfLog DEF Readable
<1>. QED
    BY <1>1, <1>2

\* What recovery finds committed in it, the log redoes.
LEMMA RedoneIsLogged ==
    ASSUME NEW log \in Seq(LogRecord), NEW i \in DOMAIN Readable(log), Redoable(Readable(log), i)
    PROVE  i \in Redos(log, Readable(log)[i].page) /\ log[i] = Readable(log)[i]
<1>1. /\ DOMAIN Readable(log) \subseteq DOMAIN log
      /\ \A j \in DOMAIN Readable(log) : Readable(log)[j] = log[j]
    BY ReaderStopsShort
<1>2. Readable(log)[i].tx \in CommittedIn(log)
    BY <1>1 DEF Redoable, CommittedIn
<1>. QED
    BY <1>1, <1>2 DEF Redos, Redoable

\* The record at the cursor of recovery is one that the durable log redoes.
LEMMA RedoIsDurable ==
    ASSUME StealInv, mode = "redo", cursor \in DOMAIN records, Redoable(records, cursor)
    PROVE  /\ records[cursor].page \in PageId /\ records[cursor].data \in Data
           /\ cursor \in Redos(Durable, records[cursor].page)
           /\ Durable[cursor] = records[cursor]
<1>1. LockInv /\ synced = Len(wal) /\ records = Readable(wal)
    BY DEF StealInv, FileInv, Up
<1>2. wal \in Seq(LogRecord) /\ Durable = wal
    BY <1>1, DurablePrefix, SubSeqFull DEF Durable
<1>3. records[cursor] \in LogRecord
    BY <1>1, LenProperties, ElementOfSeq DEF LockInv, TypeOK
<1>4. cursor \in Redos(wal, records[cursor].page) /\ wal[cursor] = records[cursor]
    BY <1>1, <1>2, RedoneIsLogged
<1>. QED
    BY <1>2, <1>3, <1>4 DEF LogRecord

\* The page that Commit writes has a dirty image which the durable log holds.
LEMMA WriteIsDurable ==
    ASSUME StealInv, mode = "commitWrite", NEW p \in todo
    PROVE  /\ p \in PageId /\ dirty[committing][p] \in Data
           /\ LastRedo(Durable, p) \in Redos(Durable, p)
           /\ Durable[LastRedo(Durable, p)].data = dirty[committing][p]
<1>1. WriteAhead /\ p \in DirtyPages(committing) /\ committing \in TxId
    BY AheadInvWriteAhead, WhoIsActive, ImageFacts DEF StealInv, LockInv, TodoIsDirty, LockDiscipline
<1>2. p \in PageId /\ dirty[committing][p] \in Data
    BY <1>1, ImageFacts DEF DirtyPages, Image, StealInv, LockInv, TypeOK
<1>3. Redos(Durable, p) # {} /\ Durable[LastRedo(Durable, p)].data = dirty[committing][p]
    BY <1>1 DEF WriteAhead
<1>4. LastRedo(Durable, p) \in Redos(Durable, p)
    BY <1>3, DurablePrefix, LastRedoIsLast DEF IsLast, StealInv
<1>. QED
    BY <1>2, <1>3, <1>4

\* A crash tears at most a page that the durable log restores.
LEMMA CrashTears ==
    ASSUME StealInv, NEW d \in DiskAfterCrash, NEW p \in PageId, d[p] # disk[p]
    PROVE  d[p] = Torn /\ Redos(Durable, p) # {}
<1>1. LockInv /\ Coherent /\ disk \in [PageId -> Data]
    BY DEF StealInv, LockInv, TypeOK, PagerTypeOK
<1>2. ASSUME NEW S PROVE Flushed(S)[p] = disk[p] \/ S \notin SUBSET Cached
    BY <1>1 DEF Flushed, Cached, Coherent
<1>3. d \notin HalfFlushed
    BY <1>2 DEF HalfFlushed
<1>4. PICK w \in InFlight : d = [disk EXCEPT ![w[1]] = IF @ = w[2] THEN @ ELSE Torn]
    BY <1>3 DEF DiskAfterCrash
<1>5. p = w[1]
    BY <1>1, <1>4
<1>6. d[p] = Torn
    <2>1. d = [disk EXCEPT ![p] = IF disk[p] = w[2] THEN disk[p] ELSE Torn]
        BY <1>1, <1>4, <1>5
    <2>. QED
        BY <1>1, <2>1
<1>7. CASE w \in {<<q, dirty[committing][q]>> : q \in {r \in todo : mode = "commitWrite"}}
    <2>1. PICK q \in todo : mode = "commitWrite" /\ w = <<q, dirty[committing][q]>>
        BY <1>7
    <2>. QED
        BY <1>5, <1>6, <2>1, WriteIsDurable
<1>8. CASE w \in {<<records[i].page, records[i].data>> :
                     i \in {j \in DOMAIN records : mode = "redo" /\ j = cursor /\ Redoable(records, j)}}
    <2>1. /\ cursor \in DOMAIN records /\ mode = "redo" /\ Redoable(records, cursor)
          /\ w = <<records[cursor].page, records[cursor].data>>
        BY <1>8
    <2>. QED
        BY <1>5, <1>6, <2>1, RedoIsDurable
<1>. QED
    BY <1>6, <1>7, <1>8 DEF InFlight

\* Recovery and Commit write inside the file.
LEMMA RedoneIsInFile ==
    ASSUME StealInv, mode \notin {"down", "failed"}, NEW p, Redos(Durable, p) # {} \/ p \in indexPages
    PROVE  p < size
<1>1. Taken = size
    BY DEF StealInv, FileInv, Taken
<1>2. ASSUME Redos(Durable, p) # {} PROVE p \in Logged
    BY <1>2, DurablePrefix DEF Redos, Redoable, Logged, LoggedPages, StealInv
<1>. QED
    BY <1>1, <1>2 DEF StealInv, BoundsInv

\* What the calls of the pager do to the file's extent.
LEMMA PagerExtent ==
    ASSUME PagerTypeOK, Coherent, nextPageID = size, \A p \in PageId : p >= size => disk[p] = Zero,
           \/ PagerAllocate \/ PagerFlush \/ UNCHANGED pagerVars
           \/ \E p \in PageId : PagerFetch(p) \/ PagerReload(p)
           \/ \E p \in PageId, d \in Data : p < size /\ PagerWrite(p, d)
    PROVE  nextPageID' = size' /\ \A p \in PageId : p >= size' => disk'[p] = Zero
<1>. USE ImageFacts DEF PagerTypeOK, PageId
<1>1. CASE PagerAllocate
    BY <1>1 DEF PagerAllocate, Grown
<1>2. CASE PagerFlush
    BY <1>2, PagerCoherent DEF PagerFlush
<1>3. CASE UNCHANGED pagerVars \/ \E p \in PageId : PagerFetch(p) \/ PagerReload(p)
    BY <1>3 DEF pagerVars, PagerFetch, PagerReload
<1>4. CASE \E p \in PageId, d \in Data : p < size /\ PagerWrite(p, d)
    BY <1>4 DEF PagerWrite, Grown
<1>. QED
    BY <1>1, <1>2, <1>3, <1>4

\* A new database satisfies FileInv.
LEMMA FileInvInit == Init => FileInv
BY DEF Init, FileInv, Up

\* Every step keeps FileInv, if only fsyncs fail.
LEMMA FileInvStep ==
    ASSUME "append" \notin Faults, "page" \notin Faults, StealInv, LockInv', [Next]_vars
    PROVE  FileInv'
<1>. DEFINE OnePagerCall ==
         \/ PagerAllocate \/ PagerFlush \/ UNCHANGED pagerVars
         \/ \E p \in PageId : PagerFetch(p) \/ PagerReload(p)
         \/ \E p \in PageId, d \in Data : p < size /\ PagerWrite(p, d)
<1>1. PagerTypeOK /\ Coherent /\ FileInv /\ 0 \in PageId /\ Zero \in Data /\ size \in Nat
    BY ImageFacts DEF StealInv, LockInv, TypeOK, PagerTypeOK, PageId
<1>2. ASSUME mode \notin {"down", "failed"}, OnePagerCall, Up' \/ (~Up /\ UNCHANGED walVars)
      PROVE  FileInv'
    <2>1. nextPageID' = size' /\ \A p \in PageId : p >= size' => disk'[p] = Zero
        BY <1>1, <1>2, PagerExtent DEF FileInv
    <2>. QED
        BY <1>1, <1>2, <2>1 DEF FileInv, walVars
<1>. HIDE DEF OnePagerCall
<1>3. CASE Begin \/ BeginFails \/ \E t \in TxId : CommitLog(t) \/ Rollback(t) \/ RollbackFails(t)
    <2>1. UNCHANGED pagerVars /\ mode = "idle" /\ Up'
        BY <1>3 DEF Begin, BeginFails, CommitLog, Rollback, RollbackFails, commitVars, Up
    <2>. QED
        BY <1>2, <2>1 DEF OnePagerCall
<1>4. CASE CommitSync \/ CommitSyncFails \/ CommitFlush
    <2>1. (UNCHANGED pagerVars \/ PagerFlush) /\ mode \notin {"down", "failed"} /\ Up'
        BY <1>4 DEF CommitSync, CommitSyncFails, CommitReturnsError, CommitFlush, AfterWriting, Up
    <2>. QED
        BY <1>2, <2>1 DEF OnePagerCall
<1>5. CASE \E p \in PageId : CommitWrite(p)
    <2>1. PICK p \in PageId : CommitWrite(p)
        BY <1>5
    <2>2. mode = "commitWrite" /\ p \in todo /\ Up' /\ PagerWrite(p, dirty[committing][p])
        BY <2>1 DEF CommitWrite, AfterWriting, Up
    <2>3. p < size /\ dirty[committing][p] \in Data
        BY <2>2, WriteIsDurable, RedoneIsInFile
    <2>. QED
        BY <1>2, <2>2, <2>3 DEF OnePagerCall
<1>6. CASE \E t \in TxId : AllocatePage(t) \/ \E p \in PageId, v \in Values : WritePage(t, p, v)
    <2>1. /\ UNCHANGED pagerVars \/ PagerAllocate
          /\ mode \notin {"down", "failed"} /\ Up'
        BY <1>6 DEF AllocatePage, WritePage, Usable, Up, commitVars
    <2>. QED
        BY <1>2, <2>1 DEF OnePagerCall
<1>7. CASE (\E p \in PageId : FetchPage(p)) \/ ReloadCatalogPage \/ AllocateIndexPage
    <2>1. /\ PagerAllocate \/ \E p \in PageId : PagerFetch(p) \/ PagerReload(p)
          /\ mode \notin {"down", "failed"} /\ Up'
        BY <1>1, <1>7 DEF FetchPage, ReloadCatalogPage, AllocateIndexPage, PagerFree, Up, commitVars
    <2>. QED
        BY <1>2, <2>1 DEF OnePagerCall
<1>8. CASE \E p \in PageId, v \in Values : WriteIndexPage(p, v)
    <2>1. PICK p \in PageId, v \in Values : WriteIndexPage(p, v)
        BY <1>8
    <2>2. /\ mode \notin {"down", "failed"} /\ Up' /\ p \in indexPages /\ PagerWrite(p, v)
          /\ v \in Data
        BY <2>1 DEF WriteIndexPage, PagerFree, Up, commitVars, Data
    <2>3. p < size
        BY <2>2, RedoneIsInFile
    <2>. QED
        BY <1>2, <2>2, <2>3 DEF OnePagerCall
<1>9. CASE Crash
    <2>1. /\ mode' = "down" /\ synced' = Len(wal') /\ size' = size /\ disk' \in DiskAfterCrash
          /\ mode \notin {"down", "failed"}
        BY <1>9 DEF Crash
    <2>2. ASSUME NEW p \in PageId, p >= size PROVE disk'[p] = Zero
        <3>1. ~ (p < size)
            BY <1>1, <2>2, ImageFacts DEF PageId
        <3>2. disk'[p] = disk[p]
            BY <2>1, <3>1, CrashTears, RedoneIsInFile
        <3>. QED
            BY <1>1, <2>2, <3>2 DEF FileInv
    <2>. QED
        BY <2>1, <2>2 DEF FileInv
<1>10. CASE Open \/ OpenFails
    BY <1>1, <1>10 DEF Open, OpenFails, PagerOpen, pagerVars, walVars, FileInv, Up
<1>11. CASE Redo
    <2>1. mode = "redo" /\ ~Up /\ UNCHANGED walVars /\ cursor \in DOMAIN records
        BY <1>11, LenProperties DEF Redo, Up, StealInv, LockInv, TypeOK
    <2>2. CASE Redoable(records, cursor)
        <3>1. /\ PagerWrite(records[cursor].page, records[cursor].data)
              /\ records[cursor].page \in PageId /\ records[cursor].data \in Data
              /\ records[cursor].page < size
            BY <1>11, <2>1, <2>2, RedoIsDurable, RedoneIsInFile DEF Redo
        <3>. QED
            BY <1>2, <2>1, <3>1 DEF OnePagerCall
    <2>3. CASE ~ Redoable(records, cursor)
        BY <1>2, <1>11, <2>1, <2>3 DEF OnePagerCall, Redo
    <2>. QED
        BY <2>2, <2>3
<1>12. CASE RecoverFlush \/ RecoverTruncate
    <2>1. /\ PagerFlush \/ PagerFetch(0)
          /\ mode \notin {"down", "failed"} /\ (Up' \/ (~Up /\ UNCHANGED walVars))
        BY <1>12 DEF RecoverFlush, RecoverTruncate, Up
    <2>. QED
        BY <1>1, <1>2, <2>1 DEF OnePagerCall
<1>13. CASE UNCHANGED vars
    BY <1>1, <1>13 DEF vars, pagerVars, walVars, commitVars, FileInv, Up
<1>14. /\ ~ CommitFlushFails
       /\ \A t : ~ CommitLogFails(t) /\ ~ AllocatePageFails(t)
       /\ \A p : ~ CommitWriteFails(p)
       /\ \A t, p, v : ~ WritePageFails(t, p, v)
    BY OnlySyncsFail
<1>. QED
    BY <1>3, <1>4, <1>5, <1>6, <1>7, <1>8, <1>9, <1>10, <1>11, <1>12, <1>13, <1>14 DEF Next

-----------------------------------------------------------------------------
(* NO-STEAL.                                                               *)

\* Only Commit, recovery and a crash change an existing page, index pages apart.
LEMMA FileChanges ==
    ASSUME "append" \notin Faults, "page" \notin Faults, StealInv, [Next]_vars,
           NEW p \in (0 .. size - 1) \ indexPages, disk'[p] # disk[p]
    PROVE  p \in PageId /\ (CommitWrite(p) \/ Redo \/ Crash)
<1>1. /\ disk \in [PageId -> Data] /\ PagerTypeOK /\ Coherent /\ FileInv /\ p \in PageId
      /\ size \in 0 .. MaxPages /\ nextPageID \in Nat /\ p \in Nat /\ p < size
    BY ImageFacts DEF StealInv, LockInv, TypeOK, PagerTypeOK, PageId
<1>2. ASSUME NEW q \in PageId, CommitWrite(q) PROVE q = p
    BY <1>1, <1>2 DEF CommitWrite, PagerWrite
<1>3. ~ PagerAllocate \/ mode \in {"down", "failed"}
    BY <1>1 DEF PagerAllocate, FileInv
<1>4. ~ PagerFlush
    BY <1>1, PagerCoherent
<1>5. ASSUME NEW q \in PageId, NEW v \in Values PROVE ~ WriteIndexPage(q, v)
    BY <1>1, <1>5 DEF WriteIndexPage, PagerWrite
<1>6. /\ ~ CommitFlushFails
      /\ \A t : ~ CommitLogFails(t) /\ ~ AllocatePageFails(t)
      /\ \A q : ~ CommitWriteFails(q)
      /\ \A t, q, v : ~ WritePageFails(t, q, v)
    BY OnlySyncsFail
<1>7. ASSUME BeginFails \/ CommitSyncFails \/ \E t \in TxId : RollbackFails(t)
      PROVE  UNCHANGED disk
    BY <1>7 DEF BeginFails, CommitSyncFails, RollbackFails, pagerVars
<1>8. ASSUME Begin \/ CommitSync \/ CommitFlush \/ ReloadCatalogPage \/ AllocateIndexPage
       PROVE  UNCHANGED disk
    BY <1>3, <1>4, <1>8
    DEF Begin, CommitSync, CommitFlush, ReloadCatalogPage, AllocateIndexPage, PagerReload,
        PagerFree, Up, pagerVars
<1>9. ASSUME NEW t \in TxId, CommitLog(t) \/ Rollback(t) \/ AllocatePage(t)
       PROVE  UNCHANGED disk
    BY <1>3, <1>9 DEF CommitLog, Rollback, AllocatePage, Usable, Up, pagerVars
<1>10. ASSUME NEW t \in TxId, NEW q \in PageId, NEW v \in Values, WritePage(t, q, v)
       PROVE  UNCHANGED disk
    BY <1>10 DEF WritePage, pagerVars
<1>11. ASSUME NEW q \in PageId, FetchPage(q)
       PROVE  UNCHANGED disk
    BY <1>11 DEF FetchPage, PagerFetch
<1>12. ASSUME Open \/ OpenFails \/ RecoverFlush \/ RecoverTruncate \/ UNCHANGED vars
       PROVE  UNCHANGED disk
    BY <1>4, <1>12
    DEF Open, OpenFails, RecoverFlush, RecoverTruncate, PagerOpen, PagerFetch, pagerVars, vars
<1>. QED
    BY <1>1, <1>2, <1>5, <1>6, <1>7, <1>8, <1>9, <1>10, <1>11, <1>12 DEF Next

\* The image of such a change is what the durable log makes of the page.
LEMMA NoStealStep ==
    ASSUME "append" \notin Faults, "page" \notin Faults, StealInv, [Next]_vars,
           NEW p \in (0 .. size - 1) \ indexPages, disk'[p] # disk[p]
    PROVE  \E i \in Redos(Durable, p) : disk'[p] \in {Durable[i].data, Torn}
<1>1. p \in PageId /\ (CommitWrite(p) \/ Redo \/ Crash) /\ disk \in [PageId -> Data]
    BY FileChanges DEF StealInv, LockInv, TypeOK, PagerTypeOK
<1>2. CASE CommitWrite(p)
    <2>1. mode = "commitWrite" /\ p \in todo /\ disk'[p] = dirty[committing][p]
        BY <1>1, <1>2 DEF CommitWrite, PagerWrite
    <2>. QED
        BY <2>1, WriteIsDurable
<1>3. CASE Redo
    <2>1. /\ mode = "redo" /\ cursor \in DOMAIN records /\ Redoable(records, cursor)
          /\ PagerWrite(records[cursor].page, records[cursor].data)
        BY <1>3, LenProperties DEF Redo, pagerVars, StealInv, LockInv, TypeOK
    <2>2. records[cursor].page = p /\ disk'[p] = records[cursor].data
        BY <1>1, <2>1 DEF PagerWrite
    <2>. QED
        BY <2>1, <2>2, RedoIsDurable
<1>4. CASE Crash
    <2>1. disk'[p] = Torn /\ Redos(Durable, p) # {}
        BY <1>1, <1>4, CrashTears DEF Crash
    <2>. QED
        BY <2>1
<1>. QED
    BY <1>1, <1>2, <1>3, <1>4

\* The invariants hold together.
LEMMA StoreInvAlways == ASSUME Faults = {} PROVE Spec => []StoreInv
<1>1. Init => StoreInv
    BY LockInvInit, BoundsInvInit, DurInvInit, FileInvInit DEF StoreInv
<1>2. StoreInv /\ [Next]_vars => StoreInv'
    BY LockInvStep, BoundsInvStep, DurInvStep, FileInvStep, StoreInvSteals DEF StoreInv
<1>. QED
    BY <1>1, <1>2, PTL DEF Spec

\* Where the records of recovery come from.
LEMMA ReadLogStep ==
    ASSUME mode = "redo" => records = Readable(wal), [Next]_vars
    PROVE  mode' = "redo" => records' = Readable(wal')
<1>1. CASE Open \/ Redo \/ UNCHANGED vars
    BY <1>1 DEF Open, Redo, vars, walVars, recoverVars, commitVars
<1>2. CASE \/ Begin \/ BeginFails \/ CommitSync \/ CommitSyncFails \/ CommitFlush \/ CommitFlushFails
           \/ \E p \in PageId : CommitWrite(p) \/ CommitWriteFails(p)
           \/ \E t \in TxId : CommitLog(t) \/ CommitLogFails(t) \/ Rollback(t) \/ RollbackFails(t)
    BY <1>2
    DEF Begin, BeginFails, CommitSync, CommitSyncFails, CommitFlush, CommitFlushFails, CommitWrite,
        CommitWriteFails, CommitLog, CommitLogFails, Rollback, RollbackFails, CommitReturnsError,
        AfterWriting, commitVars
<1>3. CASE \/ \E t \in TxId, p \in PageId, v \in Values : WritePage(t, p, v) \/ WritePageFails(t, p, v)
           \/ \E t \in TxId : AllocatePage(t) \/ AllocatePageFails(t)
           \/ \E p \in PageId : FetchPage(p)
           \/ ReloadCatalogPage \/ AllocateIndexPage
           \/ \E p \in PageId, v \in Values : WriteIndexPage(p, v)
    <2>1. Up /\ mode' = mode
        BY <1>3
        DEF WritePage, WritePageFails, AllocatePage, AllocatePageFails, FetchPage, ReloadCatalogPage,
            AllocateIndexPage, WriteIndexPage, Usable, PagerFree, commitVars
    <2>. QED
        BY <2>1 DEF Up
<1>4. CASE Crash \/ OpenFails \/ RecoverFlush \/ RecoverTruncate
    BY <1>4 DEF Crash, OpenFails, RecoverFlush, RecoverTruncate
<1>. QED
    BY <1>1, <1>2, <1>3, <1>4 DEF Next

\* The invariant of NO-STEAL holds while only fsyncs fail.
LEMMA StealInvAlways ==
    ASSUME "append" \notin Faults, "page" \notin Faults
    PROVE  Spec => []StealInv
<1>1. Init => StealInv
    BY LockInvInit, BoundsInvInit, DurInvInit, FileInvInit, StoreInvSteals DEF StoreInv
<1>2. StealInv /\ [Next]_vars => StealInv'
    BY LockInvStep, BoundsInvStep, AheadInvStep, CoherentStep, FileInvStep, ReadLogStep DEF StealInv
<1>. QED
    BY <1>1, <1>2, PTL DEF Spec

\* docs/MEMORY.md calls the policy NO-STEAL: if only fsyncs fail, no page of
\* the file ever changes to what no durable COMMIT stands for, in any number of
\* transactions, failed commits, crashes and recoveries.
THEOREM NothingIsStolen ==
    ASSUME "append" \notin Faults, "page" \notin Faults
    PROVE  Spec => NoSteal
<1>1. StealInv /\ [Next]_vars =>
          [\A p \in (0 .. size - 1) \ indexPages :
              disk'[p] # disk[p] =>
                  \E i \in Redos(Durable, p) : disk'[p] \in {Durable[i].data, Torn}]_vars
    BY NoStealStep
<1>. QED
    BY <1>1, StealInvAlways, PTL DEF Spec, NoSteal

-----------------------------------------------------------------------------
(* The abstract state.                                                     *)

\* The committed image of a page.
LEMMA CommittedIs ==
    /\ \A p \in PageId : Committed[p] = Restored(disk, Durable, p)
    /\ DOMAIN Committed = PageId
BY DEF Committed, Restored, Replayed

\* The store keeps every page that the log restores alike, from the same file
\* or from its records.
LEMMA StoreKept ==
    ASSUME LockInv, LockInv',
           \A p \in PageId :
               /\ SameForPage(Durable', Durable, p)
               /\ disk'[p] = disk[p] \/ Redos(Durable, p) # {}
    PROVE  Committed' = Committed
<1>1. Durable \in Seq(LogRecord) /\ Durable' \in Seq(LogRecord)
    <2>1. wal' \in Seq(LogRecord) /\ synced' \in 0 .. Len(wal')
        BY DEF LockInv, TypeOK, WALTypeOK
    <2>. QED
        BY <2>1, DurablePrefix, PrefixOfLog DEF Durable
<1>2. ASSUME NEW p \in PageId
      PROVE  Restored(disk', Durable', p) = Restored(disk, Durable, p)
    BY <1>1, <1>2, SameForPageRestores
<1>3. Committed' = [p \in PageId |-> Restored(disk', Durable', p)]
    BY DEF Committed, Restored, Replayed
<1>4. Committed = [p \in PageId |-> Restored(disk, Durable, p)]
    BY DEF Committed, Restored, Replayed
<1>. QED
    BY <1>2, <1>3, <1>4

\* Between calls, and when Commit has written its pages, the file is the store.
LEMMA IdleStore == LockInv /\ DurInv /\ mode \in {"idle", "commitFlush"} => Committed = disk
<1>. SUFFICES ASSUME LockInv, DurInv, mode \in {"idle", "commitFlush"}
              PROVE  Committed = disk
    OBVIOUS
<1>1. Up /\ Serial /\ FileAgrees /\ Lagging = {} /\ disk \in [PageId -> Data]
    BY DEF DurInv, Up, LockInv, TodoIsDirty, TypeOK, PagerTypeOK, Lagging
<1>2. ASSUME NEW p \in PageId PROVE Committed[p] = disk[p]
    <2>1. Restored(disk, Durable, p) = Restored(disk, wal, p)
        BY <1>1, DurableIsEnough, DurablePrefix, SameForPageRestores
    <2>2. Restored(disk, wal, p) = disk[p]
        BY <1>1 DEF FileAgrees, Replayed, Restored
    <2>. QED
        BY <2>1, <2>2, CommittedIs
<1>3. Committed = [p \in PageId |-> Committed[p]]
    BY DEF Committed
<1>. QED
    BY <1>1, <1>2, <1>3

\* The same after a step.
LEMMA IdleStoreNext ==
    (LockInv /\ DurInv /\ mode \in {"idle", "commitFlush"} => Committed = disk)'
BY IdleStore, PTL

\* The status and the workspace of the abstract transaction.
AbstractView ==
    /\ Active = {} => Status = "none" /\ Workspace = Store!NoWork
    /\ \A t \in Active : mode = "idle" => Status = "active" /\ Workspace = dirty[t]
    /\ mode = "commitSync" => Status = "committing" /\ Workspace = dirty[committing]
    /\ mode \in {"commitWrite", "commitFlush"} => Status = "committed" /\ Workspace = Store!NoWork
    /\ ~ Up => Status = "none" /\ Workspace = Store!NoWork

\* It is this view that the steps change.
LEMMA AbstractTransaction == LockInv /\ DurInv => AbstractView
<1>. SUFFICES ASSUME LockInv, DurInv PROVE AbstractView
    OBVIOUS
<1>1. dirty \in [TxId -> [PageId -> Image]]
    BY DEF LockInv, TypeOK
<1>2. \A t \in Active : t \in TxId /\ Active = {t} /\ (CHOOSE u \in Active : TRUE) = t
    BY DEF Active, LockInv, LockDiscipline
<1>3. ~ Up => Active = {}
    BY DEF DurInv, LogShape
<1>4. mode \in {"commitSync", "commitWrite", "commitFlush"} => committing \in Active
    BY WhoIsActive
<1>5. Status \notin {"active", "committing"} => Workspace = Store!NoWork
    BY DEF Workspace, Store!NoWork, Store!PageId, PageId
<1>6. ASSUME NEW t \in Active, Status \in {"active", "committing"}
      PROVE  Workspace = dirty[t]
    <2>1. Workspace = [p \in PageId |-> dirty[t][p]]
        BY <1>2, <1>6 DEF Workspace
    <2>. QED
        BY <1>1, <1>2, <2>1
<1>. QED
    BY <1>2, <1>3, <1>4, <1>5, <1>6 DEF Status, Up, AbstractView

\* The same after a step.
LEMMA AbstractTransactionNext == (LockInv /\ DurInv => AbstractView)'
BY AbstractTransaction, PTL

\* Begin starts the abstract transaction, with an empty workspace.
LEMMA BeginRefines ==
    ASSUME StoreInv, StoreInv', Begin
    PROVE  Store!Begin
<1>1. /\ mode = "idle" /\ mode' = "idle" /\ ~ globalLock /\ disk' = disk /\ dirty' = dirty
      /\ indexPages' = indexPages /\ nextTxID \in TxId
      /\ txState' = [txState EXCEPT ![nextTxID] = "active"]
    BY ImageFacts DEF Begin, pagerVars, commitVars, StoreInv, LockInv, TypeOK, TxId
<1>2. Active = {} /\ nextTxID \in Active'
    BY <1>1 DEF Active, StoreInv, LockInv, LockDiscipline, TypeOK
<1>3. Status = "none" /\ Workspace = Store!NoWork
    BY <1>2, AbstractTransaction DEF AbstractView, StoreInv
<1>4. Status' = "active" /\ Workspace' = dirty[nextTxID]
    BY <1>1, <1>2, AbstractTransactionNext DEF AbstractView, StoreInv
<1>5. dirty[nextTxID] = Store!NoWork
    <2>1. \A p \in PageId : dirty[nextTxID][p] = NoData
        BY <1>1, <1>2, BetweenCalls DEF WorkspaceLogged, StoreInv
    <2>2. dirty[nextTxID] \in [PageId -> Image]
        BY <1>1 DEF StoreInv, LockInv, TypeOK
    <2>. QED
        BY <2>1, <2>2 DEF Store!NoWork, Store!PageId, PageId
<1>6. Committed' = Committed
    BY <1>1, IdleStore, IdleStoreNext DEF StoreInv
<1>. QED
    BY <1>1, <1>3, <1>4, <1>5, <1>6 DEF Store!Begin

\* Rollback drops the abstract transaction.
LEMMA RollbackRefines ==
    ASSUME StoreInv, StoreInv', NEW t \in TxId, Rollback(t)
    PROVE  Store!Abort
<1>1. /\ mode = "idle" /\ mode' = "idle" /\ disk' = disk /\ indexPages' = indexPages /\ t \in Active
      /\ txState' = [txState EXCEPT ![t] = "aborted"]
    BY DEF Rollback, pagerVars, commitVars, Active
<1>2. Active' = {}
    BY <1>1 DEF Active, StoreInv, LockInv, LockDiscipline, TypeOK
<1>3. Status = "active"
    BY <1>1, AbstractTransaction DEF AbstractView, StoreInv
<1>4. Status' = "none" /\ Workspace' = Store!NoWork
    BY <1>2, AbstractTransactionNext DEF AbstractView, StoreInv
<1>6. Committed' = Committed
    BY <1>1, IdleStore, IdleStoreNext DEF StoreInv
<1>. QED
    BY <1>1, <1>3, <1>4, <1>6 DEF Store!Abort

\* WritePage and AllocatePage write the workspace, whatever they do to the file.
LEMMA WritesRefine ==
    ASSUME StoreInv, StoreInv', NEW t \in TxId,
           AllocatePage(t) \/ \E p \in PageId, v \in Values : WritePage(t, p, v)
    PROVE  \E p \in Store!PageId, d \in Store!Data : Store!Write(p, d)
<1>1. /\ Usable(t) /\ UNCHANGED <<txState, commitVars, indexPages>>
    BY DEF AllocatePage, WritePage
<1>2. mode = "idle" /\ mode' = "idle" /\ t \in Active /\ t \in Active'
    BY <1>1, WhoIsActive DEF Active, commitVars, StoreInv
<1>3. PICK p \in PageId, d \in Data :
          /\ p \notin indexPages /\ dirty' = [dirty EXCEPT ![t][p] = d]
          /\ disk' = disk \/ (p = nextPageID /\ d = Zero /\ disk' = [disk EXCEPT ![p] = Zero])
    <2>1. CASE AllocatePage(t)
        <3>1. nextPageID \in PageId /\ Zero \in Data
            BY <2>1, ImageFacts DEF AllocatePage, PagerAllocate, StoreInv, LockInv, TypeOK, PagerTypeOK, PageId
        <3>2. nextPageID \notin indexPages
            BY <1>2, NextNumberIsFree DEF StoreInv, Taken
        <3>. QED
            BY <2>1, <3>1, <3>2 DEF AllocatePage, PagerAllocate
    <2>2. ASSUME NEW p \in PageId, NEW v \in Values, WritePage(t, p, v)
          PROVE  /\ p \notin indexPages /\ dirty' = [dirty EXCEPT ![t][p] = v] /\ disk' = disk
                 /\ v \in Data
        BY <2>2 DEF WritePage, pagerVars, Data
    <2>. QED
        BY <2>1, <2>2
<1>4. disk' = disk
    <2>1. p = nextPageID => disk[p] = Zero
        BY <1>2, ImageFacts DEF StoreInv, FileInv, LockInv, TypeOK, PagerTypeOK
    <2>. QED
        BY <1>3, <2>1 DEF StoreInv, LockInv, TypeOK, PagerTypeOK
<1>5. Status = "active" /\ Workspace = dirty[t] /\ Status' = "active" /\ Workspace' = dirty'[t]
    BY <1>2, AbstractTransaction, AbstractTransactionNext DEF AbstractView, StoreInv
<1>6. dirty'[t] = [dirty[t] EXCEPT ![p] = d]
    BY <1>3 DEF StoreInv, LockInv, TypeOK
<1>7. Committed' = Committed
    BY <1>2, <1>4, IdleStore, IdleStoreNext DEF StoreInv
<1>8. Store!Write(p, d)
    BY <1>1, <1>3, <1>5, <1>6, <1>7 DEF Store!Write
<1>. QED
    BY <1>8 DEF Store!PageId, Store!Data, PageId, Data

\* The COMMIT record in the log file is the request to commit ...
LEMMA CommitLogRefines ==
    ASSUME StoreInv, StoreInv', NEW t \in TxId, CommitLog(t)
    PROVE  Store!RequestCommit
<1>1. /\ mode = "idle" /\ mode' = "commitSync" /\ committing' = t /\ t \in Active
      /\ disk' = disk /\ dirty' = dirty /\ indexPages' = indexPages
      /\ wal' = Append(wal, Record("commit", t)) /\ synced' = synced
    BY DEF CommitLog, WalAppend, pagerVars, txVars, Active
<1>2. /\ Status = "active" /\ Workspace = dirty[t] /\ Status' = "committing" /\ Workspace' = dirty[t]
    BY <1>1, AbstractTransaction, AbstractTransactionNext DEF AbstractView, StoreInv
<1>3. /\ Record("commit", t) \in LogRecord /\ wal \in Seq(LogRecord) /\ Len(wal) \in Nat
      /\ synced \in 0 .. Len(wal) /\ wal' \in Seq(LogRecord) /\ synced \in 0 .. Len(wal')
    BY <1>1, DurablePrefix, RecordFacts DEF Record, StoreInv, LockInv, TypeOK, WALTypeOK
<1>4. /\ DOMAIN Durable = 1 .. synced /\ DOMAIN Durable' = 1 .. synced
      /\ \A i \in 1 .. synced : Durable'[i] = Durable[i]
    <2>1. \A i \in 1 .. synced : wal'[i] = wal[i]
        BY <1>1, <1>3, AppendFacts
    <2>. QED
        BY <1>1, <1>3, <2>1, PrefixOfLog DEF Durable
<1>5. ASSUME NEW p \in PageId PROVE SameForPage(Durable', Durable, p)
    BY <1>4 DEF SameForPage, Redos, Redoable, CommittedIn
<1>6. Committed' = Committed
    BY <1>1, <1>5, StoreKept DEF StoreInv
<1>. QED
    BY <1>1, <1>2, <1>6 DEF Store!RequestCommit

\* The store while Commit waits for Sync, and what the whole log would make it.
LEMMA StoreInCommitSync ==
    ASSUME StoreInv, mode = "commitSync"
    PROVE  \A p \in PageId : Store!Merged[p] = Restored(disk, wal, p)
<1>1. /\ LockInv /\ DurInv /\ Serial /\ WorkspaceLogged /\ Workspace = dirty[committing]
      /\ committing \in TxId
    BY AbstractTransaction, WhoIsActive DEF AbstractView, StoreInv, DurInv, Up
<1>2. ASSUME NEW p \in PageId
      PROVE  Store!Merged[p] = IF dirty[committing][p] = NoData THEN Committed[p] ELSE dirty[committing][p]
    BY <1>1 DEF Store!Merged, Store!PageId, PageId
<1>3. ASSUME NEW p \in DirtyPages(committing)
      PROVE  Restored(disk, wal, p) = dirty[committing][p]
    BY <1>1, CommittingRedos, DurInvAhead DEF Restored
<1>4. ASSUME NEW p \in PageId \ DirtyPages(committing)
      PROVE  Committed[p] = Restored(disk, wal, p)
    <2>1. SameForPage(Durable, wal, p)
        BY <1>1, DurableIsEnoughForOthers
    <2>2. Restored(disk, Durable, p) = Restored(disk, wal, p)
        BY <1>1, <2>1, DurablePrefix, SameForPageRestores
    <2>. QED
        BY <2>2, CommittedIs
<1>. QED
    BY <1>2, <1>3, <1>4 DEF DirtyPages

\* ... and its fsync is the commit.
LEMMA CommitSyncRefines ==
    ASSUME StoreInv, StoreInv', CommitSync
    PROVE  Store!Commit
<1>1. /\ mode = "commitSync" /\ mode' \in {"commitWrite", "commitFlush"}
      /\ disk' = disk /\ indexPages' = indexPages /\ wal' = wal /\ synced' = Len(wal)
    BY DEF CommitSync, WalSync, pagerVars, AfterWriting
<1>2. /\ Status = "committing" /\ Status' = "committed" /\ Workspace' = Store!NoWork
    BY <1>1, AbstractTransaction, AbstractTransactionNext DEF AbstractView, StoreInv
<1>3. Durable' = wal
    BY <1>1, DurablePrefix, SubSeqFull DEF Durable, StoreInv
<1>4. Committed' = [p \in PageId |-> Restored(disk, wal, p)]
    BY <1>1, <1>3 DEF Committed, Replayed, Restored
<1>5. Store!Merged = [p \in PageId |-> Store!Merged[p]]
    BY DEF Store!Merged, Store!PageId, PageId
<1>6. Committed' = Store!Merged
    BY <1>1, <1>4, <1>5, StoreInCommitSync
<1>. QED
    BY <1>1, <1>2, <1>6 DEF Store!Commit

\* The page writes of Commit do not show.
LEMMA CommitWriteRefines ==
    ASSUME StoreInv, StoreInv', NEW p \in PageId, CommitWrite(p)
    PROVE  UNCHANGED Store!storeVars
<1>1. /\ mode = "commitWrite" /\ p \in todo /\ mode' \in {"commitWrite", "commitFlush"}
      /\ PagerWrite(p, dirty[committing][p]) /\ UNCHANGED <<walVars, indexPages>>
    BY DEF CommitWrite, AfterWriting
<1>2. Status' = Status /\ Workspace' = Workspace
    BY <1>1, AbstractTransaction, AbstractTransactionNext
    DEF AbstractView, StoreInv, Store!NoWork, Store!PageId
<1>3. Durable' = Durable
    BY <1>1 DEF walVars, Durable
<1>4. ASSUME NEW q \in PageId
      PROVE  SameForPage(Durable', Durable, q) /\ (disk'[q] = disk[q] \/ Redos(Durable, q) # {})
    <2>1. Redos(Durable, p) # {}
        BY <1>1, WriteIsDurable, StoreInvSteals
    <2>. QED
        BY <1>1, <1>3, <2>1 DEF SameForPage, PagerWrite, StoreInv, LockInv, TypeOK, PagerTypeOK
<1>5. Committed' = Committed
    BY <1>4, StoreKept DEF StoreInv
<1>. QED
    BY <1>1, <1>2, <1>5 DEF Store!storeVars

\* The end of Commit.
LEMMA CommitFlushRefines ==
    ASSUME StoreInv, StoreInv', CommitFlush
    PROVE  Store!EndCommit
<1>1. /\ mode = "commitFlush" /\ mode' = "idle" /\ PagerFlush /\ indexPages' = indexPages
      /\ txState' = [txState EXCEPT ![committing] = "committed"]
    BY DEF CommitFlush
<1>2. disk' = disk
    BY <1>1, PagerCoherent DEF StoreInv, DurInv, LockInv, TypeOK
<1>3. Active' = {}
    BY <1>1, WhoIsActive DEF Active, StoreInv, LockInv, TypeOK
<1>4. Status = "committed" /\ Workspace = Store!NoWork /\ Status' = "none" /\ Workspace' = Store!NoWork
    BY <1>1, <1>3, AbstractTransaction, AbstractTransactionNext DEF AbstractView, StoreInv
<1>5. Committed' = Committed
    BY <1>1, <1>2, IdleStore, IdleStoreNext DEF StoreInv
<1>. QED
    BY <1>1, <1>4, <1>5 DEF Store!EndCommit, Store!NoWork, Store!PageId

\* B+tree code claims a page that was never written, and writes it directly.
LEMMA IndexPagesRefine ==
    ASSUME StoreInv, StoreInv', AllocateIndexPage \/ \E p \in PageId, v \in Values : WriteIndexPage(p, v)
    PROVE  \/ \E p \in Store!PageId : Store!Claim(p)
           \/ \E p \in Store!PageId, d \in Store!Data : Store!WriteDirect(p, d)
<1>1. /\ Up /\ UNCHANGED <<walVars, commitVars, txVars>> /\ mode # "commitFlush"
    BY DEF AllocateIndexPage, WriteIndexPage, PagerFree
<1>2. Status' = Status /\ Workspace' = Workspace /\ Durable' = Durable
    BY <1>1 DEF commitVars, txVars, walVars, Status, Workspace, Active, Durable
<1>3. PICK p \in PageId, d \in Data :
          /\ disk' = [disk EXCEPT ![p] = d] /\ p \notin Logged
          /\ \/ p \in indexPages /\ indexPages' = indexPages
             \/ d = Zero /\ disk[p] = Zero /\ indexPages' = indexPages \cup {p}
    <2>1. CASE AllocateIndexPage
        <3>1. nextPageID \in PageId /\ Zero \in Data
            BY <2>1, ImageFacts DEF AllocateIndexPage, PagerAllocate, StoreInv, LockInv, TypeOK, PagerTypeOK, PageId
        <3>2. nextPageID \notin Logged /\ disk[nextPageID] = Zero
            BY <1>1, <3>1, NextNumberIsFree, ImageFacts
            DEF StoreInv, FileInv, Taken, Up, LockInv, TypeOK, PagerTypeOK
        <3>. QED
            BY <2>1, <3>1, <3>2 DEF AllocateIndexPage, PagerAllocate
    <2>2. ASSUME NEW p \in PageId, NEW v \in Values, WriteIndexPage(p, v)
          PROVE  /\ disk' = [disk EXCEPT ![p] = v] /\ p \notin Logged /\ v \in Data
                 /\ p \in indexPages /\ indexPages' = indexPages
        BY <2>2 DEF WriteIndexPage, PagerWrite, Data, StoreInv, BoundsInv
    <2>. QED
        BY <2>1, <2>2
<1>4. Redos(Durable, p) = {}
    <2>1. Redos(wal, p) = {}
        BY <1>3, UnloggedPage
    <2>2. \A i \in DOMAIN Durable : i \in DOMAIN wal /\ Durable[i] = wal[i]
        BY DurablePrefix DEF StoreInv
    <2>3. CommittedIn(Durable) \subseteq CommittedIn(wal)
        BY <2>2 DEF CommittedIn
    <2>. QED
        BY <2>1, <2>2, <2>3 DEF Redos, Redoable
<1>5. Committed' = [Committed EXCEPT ![p] = d]
    <2>1. ASSUME NEW q \in PageId, q # p
          PROVE  Restored(disk', Durable', q) = Restored(disk, Durable, q)
        BY <1>2, <1>3, <2>1 DEF Restored, StoreInv, LockInv, TypeOK, PagerTypeOK
    <2>2. Restored(disk', Durable', p) = d
        BY <1>2, <1>3, <1>4 DEF Restored, StoreInv, LockInv, TypeOK, PagerTypeOK
    <2>3. Committed' = [q \in PageId |-> Restored(disk', Durable', q)]
        BY DEF Committed, Restored, Replayed
    <2>4. Committed = [q \in PageId |-> Restored(disk, Durable, q)]
        BY DEF Committed, Restored, Replayed
    <2>. QED
        BY <2>1, <2>2, <2>3, <2>4
<1>6. CASE p \in indexPages /\ indexPages' = indexPages
    BY <1>2, <1>3, <1>5, <1>6 DEF Store!WriteDirect, Store!PageId, Store!Data, PageId, Data
<1>7. CASE d = Zero /\ disk[p] = Zero /\ indexPages' = indexPages \cup {p}
    <2>1. Committed[p] = Zero
        BY <1>4, <1>7, CommittedIs DEF Restored
    <2>2. Committed' = Committed
        BY <1>5, <1>7, <2>1 DEF Committed
    <2>3. Workspace[p] = NoData
        <3>1. ASSUME NEW t \in TxId PROVE dirty[t][p] = NoData
            <4>1. UpdatesOf(wal, t, p) = {}
                BY <1>3 DEF Logged, LoggedPages, UpdatesOf
            <4>. QED
                BY <1>1, <4>1 DEF StoreInv, DurInv, WorkspaceLogged
        <3>2. ASSUME NEW t \in Active PROVE (CHOOSE u \in Active : TRUE) \in TxId
            BY DEF Active
        <3>3. Status \in {"active", "committing"} => Active # {}
            BY DEF Status
        <3>. QED
            BY <3>1, <3>2, <3>3 DEF Workspace
    <2>. QED
        BY <1>2, <1>7, <2>1, <2>2, <2>3 DEF Store!Claim, Store!PageId, PageId
<1>. QED
    BY <1>3, <1>6, <1>7

\* Reads do not show.
LEMMA ReadsRefine ==
    ASSUME StoreInv, ReloadCatalogPage \/ \E p \in PageId : FetchPage(p)
    PROVE  UNCHANGED Store!storeVars
<1>1. /\ UNCHANGED <<walVars, commitVars, txVars, indexPages>> /\ disk' = disk
    BY DEF ReloadCatalogPage, PagerReload, FetchPage, PagerFetch
<1>2. Status' = Status /\ Workspace' = Workspace /\ Durable' = Durable
    BY <1>1 DEF commitVars, txVars, walVars, Status, Workspace, Active, Durable
<1>3. Committed' = Committed
    BY <1>1, <1>2 DEF Committed, Replayed
<1>. QED
    BY <1>1, <1>2, <1>3 DEF Store!storeVars

\* What a crash leaves: the restored pages of the surviving log.
LEMMA CrashLeaves ==
    ASSUME StoreInv, StoreInv', Crash
    PROVE  /\ wal' \in Survivors /\ Durable' = wal' /\ wal' \in Seq(LogRecord)
           /\ Committed' = [p \in PageId |-> Restored(disk', wal', p)]
           /\ \A p \in PageId : disk'[p] = disk[p] \/ Redos(Durable, p) # {}
           /\ Status' = "none" /\ Workspace' = Store!NoWork /\ indexPages' = indexPages
<1>1. /\ wal' \in Survivors /\ synced' = Len(wal') /\ disk' \in DiskAfterCrash
      /\ mode' = "down" /\ indexPages' = indexPages /\ wal' \in Seq(LogRecord)
    BY DEF Crash, StoreInv, LockInv, TypeOK, WALTypeOK
<1>2. Durable' = wal'
    BY <1>1, SubSeqFull DEF Durable
<1>3. Committed' = [p \in PageId |-> Restored(disk', wal', p)]
    BY <1>2 DEF Committed, Restored, Replayed
<1>4. \A p \in PageId : disk'[p] = disk[p] \/ Redos(Durable, p) # {}
    BY <1>1, CrashTears, StoreInvSteals
<1>5. Status' = "none" /\ Workspace' = Store!NoWork
    BY <1>1, AbstractTransactionNext DEF AbstractView, StoreInv, Up
<1>. QED
    BY <1>1, <1>2, <1>3, <1>4, <1>5

\* A crash during Commit's wait for Sync loses the transaction as a whole, or
\* keeps it as a whole.
LEMMA CommittingCrash ==
    ASSUME StoreInv, StoreInv', Crash, mode = "commitSync"
    PROVE  Committed' = Committed \/ Committed' = Store!Merged
<1>1. /\ LockInv /\ LockInv' /\ DurInv /\ Serial /\ stale = <<>>
      /\ wal' \in Survivors /\ Durable' = wal'
    BY CrashLeaves DEF StoreInv, DurInv, LogShape, Up
<1>2. disk' = disk
    <2>1. disk \in [PageId -> Data] /\ InFlight = {} /\ HalfFlushed = {disk}
        BY DEF StoreInv, LockInv, TypeOK, PagerTypeOK, InFlight, HalfFlushed
    <2>. QED
        BY <2>1 DEF Crash, DiskAfterCrash
<1>3. \/ \A p \in PageId : SameForPage(wal', Durable, p)
      \/ \A p \in PageId : SameForPage(wal', wal, p)
    BY <1>1, CommittingSurvivor
<1>4. CASE \A p \in PageId : SameForPage(wal', Durable, p)
    BY <1>1, <1>2, <1>4, StoreKept
<1>5. CASE \A p \in PageId : SameForPage(wal', wal, p)
    <2>1. ASSUME NEW p \in PageId PROVE Restored(disk', wal', p) = Store!Merged[p]
        <3>1. Restored(disk, wal', p) = Restored(disk, wal, p)
            BY <1>1, <1>5, CrashLeaves, DurablePrefix, SameForPageRestores
        <3>. QED
            BY <1>2, <3>1, StoreInCommitSync
    <2>2. Store!Merged = [p \in PageId |-> Store!Merged[p]]
        BY DEF Store!Merged, Store!PageId, PageId
    <2>. QED
        BY <2>1, <2>2, CrashLeaves
<1>. QED
    BY <1>3, <1>4, <1>5

\* A crash that brings back the log which an unsynced Truncate removed.
LEMMA StaleCrash ==
    ASSUME StoreInv, StoreInv', Crash, stale # <<>>, wal' = stale
    PROVE  Committed' = Committed
<1>1. mode = "idle" /\ wal = <<>> /\ FileAgrees /\ disk \in [PageId -> Data] /\ Committed = disk
    BY IdleStore DEF StoreInv, DurInv, LogShape, Up, LockInv, TypeOK, PagerTypeOK
<1>2. ASSUME NEW p \in PageId PROVE Restored(disk', wal', p) = disk[p]
    <2>1. Redos(Durable, p) = {}
        BY <1>1, DurablePrefix DEF Redos, StoreInv
    <2>2. disk'[p] = disk[p]
        BY <2>1, CrashLeaves
    <2>3. Replayed(stale, p) = disk[p]
        BY <1>1 DEF FileAgrees
    <2>. QED
        BY <2>2, <2>3 DEF Restored, Replayed
<1>3. disk = [p \in PageId |-> disk[p]]
    BY <1>1
<1>. QED
    BY <1>1, <1>2, <1>3, CrashLeaves

\* A crash is the abstract one.
LEMMA CrashRefines ==
    ASSUME StoreInv, StoreInv', Crash
    PROVE  Store!Crash
<1>1. LockInv /\ LockInv' /\ DurInv /\ FileInv
    BY DEF StoreInv
<1>2. CASE mode = "commitSync"
    <2>1. Status = "committing"
        BY <1>1, <1>2, AbstractTransaction DEF AbstractView
    <2>. QED
        BY <1>2, <2>1, CommittingCrash, CrashLeaves DEF Store!Crash
<1>3. CASE stale # <<>> /\ wal' = stale
    BY <1>3, StaleCrash, CrashLeaves DEF Store!Crash
<1>4. CASE mode # "commitSync" /\ (stale = <<>> \/ wal' # stale)
    <2>1. ASSUME NEW p \in PageId PROVE SameForPage(wal', Durable, p)
        <3>1. CASE Up
            BY <1>1, <1>4, <3>1, CrashLeaves, SurvivorRedoesTheSame DEF DurInv
        <3>2. CASE ~ Up
            <4>1. synced = Len(wal) /\ stale = <<>> /\ Durable = wal
                BY <1>1, <3>2, DurablePrefix, SubSeqFull DEF FileInv, DurInv, LogShape, Up, Durable
            <4>2. Len(wal) \in Nat /\ wal' \in Survivors
                BY <1>1, DurablePrefix, CrashLeaves
            <4>3. wal' = wal
                BY <4>1, <4>2 DEF Survivors, Durable
            <4>. QED
                BY <4>1, <4>3 DEF SameForPage
        <3>. QED
            BY <3>1, <3>2
    <2>2. Committed' = Committed
        BY <1>1, <2>1, CrashLeaves, StoreKept
    <2>. QED
        BY <2>2, CrashLeaves DEF Store!Crash
<1>. QED
    BY <1>2, <1>3, <1>4

\* Recovery does not show: it brings the file up to what the store already is.
LEMMA RecoveryRefines ==
    ASSUME StoreInv, StoreInv', Open \/ OpenFails \/ Redo \/ RecoverFlush \/ RecoverTruncate
    PROVE  UNCHANGED Store!storeVars
<1>1. /\ ~ Up /\ indexPages' = indexPages /\ txState' = txState
      /\ LockInv /\ LockInv' /\ DurInv /\ FileInv /\ Coherent
    BY DEF Open, OpenFails, Redo, RecoverFlush, RecoverTruncate, Up, txVars, StoreInv, DurInv
<1>2. Active = {} /\ Active' = {}
    BY <1>1 DEF DurInv, LogShape, Active
<1>3. Status' = Status /\ Workspace' = Workspace
    <2>1. Status = "none" /\ Workspace = Store!NoWork
        BY <1>1, <1>2, AbstractTransaction DEF AbstractView
    <2>2. Status' = "none" /\ Workspace' = Store!NoWork
        BY <1>2, AbstractTransactionNext DEF AbstractView, StoreInv
    <2>. QED
        BY <2>1, <2>2
<1>4. CASE Open \/ OpenFails \/ RecoverFlush
    <2>1. disk' = disk /\ Durable' = Durable
        BY <1>1, <1>4, PagerCoherent
        DEF Open, OpenFails, RecoverFlush, PagerOpen, pagerVars, walVars, Durable, LockInv, TypeOK
    <2>2. Committed' = Committed
        BY <2>1 DEF Committed, Replayed
    <2>. QED
        BY <1>1, <1>3, <2>2 DEF Store!storeVars
<1>5. CASE Redo
    <2>1. /\ mode = "redo" /\ Durable' = Durable /\ cursor \in DOMAIN records
          /\ \/ UNCHANGED disk
             \/ /\ Redoable(records, cursor)
                /\ PagerWrite(records[cursor].page, records[cursor].data)
        BY <1>1, <1>5, LenProperties DEF Redo, walVars, Durable, pagerVars, LockInv, TypeOK
    <2>2. ASSUME NEW p \in PageId
          PROVE  SameForPage(Durable', Durable, p) /\ (disk'[p] = disk[p] \/ Redos(Durable, p) # {})
        <3>1. SameForPage(Durable', Durable, p)
            BY <2>1 DEF SameForPage
        <3>2. Redoable(records, cursor) => Redos(Durable, records[cursor].page) # {}
            BY <2>1, RedoIsDurable, StoreInvSteals
        <3>. QED
            BY <1>1, <2>1, <3>1, <3>2 DEF PagerWrite, LockInv, TypeOK, PagerTypeOK
    <2>3. Committed' = Committed
        BY <1>1, <2>2, StoreKept
    <2>. QED
        BY <1>1, <1>3, <2>3 DEF Store!storeVars
<1>6. CASE RecoverTruncate
    <2>1. mode = "truncate" /\ mode' = "idle" /\ disk' = disk /\ disk \in [PageId -> Data]
        BY <1>1, <1>6 DEF RecoverTruncate, PagerFetch, LockInv, TypeOK, PagerTypeOK
    <2>2. Durable = wal
        BY <1>1, DurablePrefix, SubSeqFull DEF FileInv, Durable
    <2>3. \A p \in PageId : Replayed(wal, p) = disk[p]
        BY <1>1, <2>1 DEF DurInv, RedoProgress
    <2>4. Committed = disk
        BY <2>1, <2>2, <2>3 DEF Committed
    <2>5. Committed' = disk'
        BY <2>1, IdleStoreNext DEF StoreInv
    <2>. QED
        BY <1>1, <1>3, <2>1, <2>4, <2>5 DEF Store!storeVars
<1>. QED
    BY <1>4, <1>5, <1>6

\* A new database is an empty store.
LEMMA InitRefines == Init => Store!Init
<1>. SUFFICES ASSUME Init PROVE Store!Init
    OBVIOUS
<1>1. LockInv /\ DurInv /\ mode = "idle" /\ disk = [p \in PageId |-> Zero] /\ indexPages = {}
    BY LockInvInit, DurInvInit DEF Init
<1>2. Active = {}
    BY DEF Init, Active
<1>3. Status = "none" /\ Workspace = Store!NoWork /\ Committed = disk
    BY <1>1, <1>2, AbstractTransaction, IdleStore DEF AbstractView
<1>. QED
    BY <1>1, <1>3 DEF Store!Init, Store!PageId, PageId

\* Nothing shows of a step that changes nothing.
LEMMA StutterRefines == UNCHANGED vars => UNCHANGED Store!storeVars
BY DEF vars, pagerVars, walVars, commitVars, txVars, Store!storeVars, Committed, Replayed, Durable,
       Status, Workspace, Active

\* Every step is a step of the abstract store, or does not show.
LEMMA StepRefines ==
    ASSUME Faults = {}, StoreInv, StoreInv', [Next]_vars
    PROVE  [Store!Next]_(Store!storeVars)
<1>1. ~ BeginFails /\ ~ CommitSyncFails /\ ~ CommitFlushFails
    BY NothingFails DEF BeginFails, CommitSyncFails, CommitFlushFails
<1>2. /\ \A t : ~ CommitLogFails(t) /\ ~ RollbackFails(t) /\ ~ AllocatePageFails(t)
      /\ \A p : ~ CommitWriteFails(p)
      /\ \A t, p, v : ~ WritePageFails(t, p, v)
    BY NothingFails
    DEF CommitLogFails, RollbackFails, AllocatePageFails, CommitWriteFails, WritePageFails
<1>3. CASE Begin \/ \E t \in TxId : CommitLog(t) \/ Rollback(t)
    <2>1. Store!Begin \/ Store!RequestCommit \/ Store!Abort
        BY <1>3, BeginRefines, CommitLogRefines, RollbackRefines
    <2>. QED
        BY <2>1 DEF Store!Next
<1>4. CASE \/ \E t \in TxId : AllocatePage(t)
           \/ \E t \in TxId, p \in PageId, v \in Values : WritePage(t, p, v)
    <2>1. PICK t \in TxId : AllocatePage(t) \/ \E p \in PageId, v \in Values : WritePage(t, p, v)
        BY <1>4
    <2>2. \E p \in Store!PageId, d \in Store!Data : Store!Write(p, d)
        BY <2>1, WritesRefine
    <2>. QED
        BY <2>2 DEF Store!Next
<1>5. CASE CommitSync \/ CommitFlush \/ \E p \in PageId : CommitWrite(p)
    <2>1. Store!Commit \/ Store!EndCommit \/ UNCHANGED Store!storeVars
        BY <1>5, CommitSyncRefines, CommitFlushRefines, CommitWriteRefines
    <2>. QED
        BY <2>1 DEF Store!Next
<1>6. CASE AllocateIndexPage \/ \E p \in PageId, v \in Values : WriteIndexPage(p, v)
    <2>1. \/ \E p \in Store!PageId : Store!Claim(p)
          \/ \E p \in Store!PageId, d \in Store!Data : Store!WriteDirect(p, d)
        BY <1>6, IndexPagesRefine
    <2>. QED
        BY <2>1 DEF Store!Next
<1>7. CASE ReloadCatalogPage \/ \E p \in PageId : FetchPage(p)
    BY <1>7, ReadsRefine
<1>8. CASE Crash
    BY <1>8, CrashRefines DEF Store!Next
<1>9. CASE Open \/ OpenFails \/ Redo \/ RecoverFlush \/ RecoverTruncate
    BY <1>9, RecoveryRefines
<1>10. CASE UNCHANGED vars
    BY <1>10, StutterRefines
<1>. QED
    BY <1>1, <1>2, <1>3, <1>4, <1>5, <1>6, <1>7, <1>8, <1>9, <1>10 DEF Next

\* What docs/MEMORY.md:27 lists for the transaction manager ("transaction
\* lifecycle, ... private dirty page caches (NO-STEAL/FORCE), and WAL crash
\* recovery") adds up to atomicity and durability: when no I/O call fails, log,
\* pager, commit and recovery together implement a store whose transactions
\* take effect at once or, if a crash interrupts Commit, perhaps not at all.
THEOREM StoreIsImplemented == ASSUME Faults = {} PROVE Spec => ImplementsStore
<1>1. Init => Store!Init
    BY InitRefines
<1>2. StoreInv /\ StoreInv' /\ [Next]_vars => [Store!Next]_(Store!storeVars)
    BY StepRefines
<1>. QED
    BY <1>1, <1>2, StoreInvAlways, PTL DEF Spec, ImplementsStore, Store!Spec
=============================================================================
