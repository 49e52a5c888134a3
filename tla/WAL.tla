-------------------------------- MODULE WAL ---------------------------------
(***************************************************************************)
(* The write-ahead log of internal/wal/wal.go: a file of records that is   *)
(* appended to through the file system's cache and made durable by fsync.  *)
(*                                                                         *)
(*   wal     the file as this process sees it                              *)
(*   synced  how many of its records an fsync has covered                  *)
(*   stale   the log an unsynced Truncate removed, which a power loss may  *)
(*           bring back (Truncate does not fsync); <<>> when there is none *)
(*                                                                         *)
(* A record is what DeserializeRecord returns: type, transaction, page,    *)
(* image.  The checksum is modelled by what it tells a reader: the bytes   *)
(* of a short write are a record of type "torn", which no reader accepts.  *)
(***************************************************************************)
EXTENDS Storage, Sequences

CONSTANT MaxLog     \* bound on the records of one log

ASSUME WALAssumption == MaxLog \in Nat

VARIABLES wal, synced, stale

walVars == <<wal, synced, stale>>

RecordType == {"begin", "update", "commit", "abort", "torn"}
LogRecord  == [type : RecordType, tx : TxId, page : PageId, data : Data]

\* Begin, Commit and Abort records carry page 0 and no image.
Record(type, t)    == [type |-> type, tx |-> t, page |-> 0, data |-> Zero]
UpdateRecord(t, p, d) == [type |-> "update", tx |-> t, page |-> p, data |-> d]
TornRecord         == Record("torn", 1)

WALTypeOK ==
    /\ wal \in Seq(LogRecord)
    /\ stale \in Seq(LogRecord)
    /\ synced \in 0 .. Len(wal)

WALInit == wal = <<>> /\ synced = 0 /\ stale = <<>>

-----------------------------------------------------------------------------
(* The calls of the package.                                               *)

\* Append: the record reaches the file; nothing is forced to disk.
WalAppend(r) ==
    /\ Len(wal) < MaxLog
    /\ wal' = Append(wal, r)
    /\ UNCHANGED <<synced, stale>>

\* Append returns an error: the write put nothing, or part of the record,
\* into the file.
WalAppendFails ==
    /\ "append" \in Faults
    /\ Len(wal) < MaxLog
    /\ \/ wal' = wal
       \/ wal' = Append(wal, TornRecord)
    /\ UNCHANGED <<synced, stale>>

\* Sync: everything appended so far, and the length of the file, is durable.
WalSync ==
    /\ synced' = Len(wal)
    /\ stale' = <<>>
    /\ wal' = wal

WalSyncFails ==
    /\ "sync" \in Faults
    /\ UNCHANGED walVars

\* Append followed by Sync, as Begin and Rollback call them.
WalForce(r) ==
    /\ Len(wal) < MaxLog
    /\ wal' = Append(wal, r)
    /\ synced' = Len(wal) + 1
    /\ stale' = <<>>

WalForceFails(r) ==
    \/ WalAppendFails
    \/ "sync" \in Faults /\ WalAppend(r)

\* Truncate: the file is empty, but no fsync says so to the disk.
WalTruncate ==
    /\ wal' = <<>>
    /\ synced' = 0
    /\ stale' = wal

-----------------------------------------------------------------------------
(* What a restart finds, and what recovery makes of it.                    *)

\* The records a reader is sure to find on the disk.
Durable == SubSeq(wal, 1, synced)

\* The logs a crash may leave: the durable records with any part of the
\* unsynced tail, its last record perhaps cut short, or the log that an
\* unsynced Truncate removed.
Survivors ==
    {SubSeq(wal, 1, k) : k \in synced .. Len(wal)}
    \cup {Append(SubSeq(wal, 1, k), TornRecord) : k \in synced .. Len(wal) - 1}
    \cup (IF stale = <<>> THEN {} ELSE {stale})

\* ReadAllRecords stops without an error at a record cut short by the end of
\* the file, and returns what came before it.
TornAt(log) == {i \in DOMAIN log : log[i].type = "torn"}
FirstTorn(log) == CHOOSE i \in TornAt(log) : \A j \in TornAt(log) : i <= j
Readable(log) == IF TornAt(log) = {} THEN log ELSE SubSeq(log, 1, FirstTorn(log) - 1)

\* When records follow the torn one, its missing bytes are taken from them:
\* a checksum (or a magic byte) is wrong, or the end of the file comes first,
\* depending on the sizes.
ReadMayFail(log) == \E i \in TornAt(log) : i < Len(log)

\* Phase 1 of Recover: a transaction is committed if its COMMIT is in the log.
CommittedIn(log) ==
    {t \in TxId : \E i \in DOMAIN log : log[i].type = "commit" /\ log[i].tx = t}

\* Phase 2 of Recover: the updates of committed transactions are redone.
Redoable(log, i) == log[i].type = "update" /\ log[i].tx \in CommittedIn(log)

\* The updates of page p that Recover redoes; the last of them wins.
Redos(log, p) == {i \in DOMAIN log : Redoable(log, i) /\ log[i].page = p}
LastRedo(log, p) == CHOOSE i \in Redos(log, p) : \A j \in Redos(log, p) : j <= i
=============================================================================
