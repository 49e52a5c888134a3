------------------------------- MODULE Catalog -------------------------------
(***************************************************************************)
(* The catalog that sessions share: internal/storage/catalog/catalog.go    *)
(* and what table_manager.go does with it.  The catalog is a map in memory *)
(* with a lock of its own, and an image of it on page 0.  A statement that *)
(* changes it does so in memory at once and in a transaction's private     *)
(* page 0; an AUTO_INCREMENT counter is drawn without any lock, and when   *)
(* the INSERT has no transaction its page 0 is written past the log.       *)
(*                                                                         *)
(* A catalog maps a name to the first page of its table and to its         *)
(* counter.  Columns and indexes change with the same calls and are left   *)
(* out, but for the room they take: what is serialized grows with every    *)
(* table and with every counter that has been drawn from.  Of rows only    *)
(* the ids are kept.                                                       *)
(***************************************************************************)
EXTENDS Integers, FiniteSets, Bags

CONSTANTS
    Sessions, Names,
    GivenIds,       \* the ids that an INSERT may name itself
    PageRoom,       \* how large a catalog page 0 can hold
    BufferRoom,     \* how large a catalog the buffer of serialize can hold
    MaxStatements,  \* how many statements are begun
    MaxCrashes      \* how often the process is killed

None == "none"

ASSUME CatalogAssumption ==
    /\ None \notin Sessions \cup Names
    /\ GivenIds \subseteq Int \ {0}
    /\ PageRoom \in Nat /\ BufferRoom \in Nat
    /\ MaxStatements \in Nat /\ MaxCrashes \in Nat

VARIABLES
    memory,     \* Catalog.tables
    page0,      \* the catalog on page 0, or Cut
    private,    \* page 0 in the workspace of the open transaction, or <<>>
    appended,   \* the last page 0 that it has appended to the log, or <<>>
    logged,     \* the last page 0 that is in the log and committed, or <<>>
    owner,      \* the session that holds globalLock, or None
    explicit,   \* whether its transaction was begun by BEGIN
    pc,         \* what each session does
    next,       \* the next page number
    rows,       \* the committed rows, a bag of <<first page, id>>
    mine,       \* the rows that the open transaction has added, a bag
    begun, crashes,
    committed,  \* history: the tables that the last commit left
    overlapped, \* history: two sessions worked on the catalog at once
    replayed,   \* history: a restart set page 0 back
    refused,    \* history: a change by the open transaction was refused halfway
    marred,     \* history: page 0 and the map have come apart
    given       \* history: the rows whose INSERT named its id

vars == <<memory, page0, private, appended, logged, owner, explicit, pc, next, rows, mine,
          begun, crashes, committed, overlapped, replayed, refused, marred, given>>
history == <<committed, overlapped, replayed, refused, marred, given>>
workspace == <<private, appended, refused>>

\* What serialize makes of a catalog: a fixed buffer, beyond which it panics,
\* and of which CopyData puts in the page what the page can hold.  When it
\* holds less than the catalog, deserializeCatalog runs off its end and fails.
Size(c) == Cardinality(DOMAIN c) + Cardinality({n \in DOMAIN c : c[n].seq # 0})
Panics(c) == Size(c) > BufferRoom
Cut == [n \in {None} |-> n]
Bytes(c) == IF Size(c) <= PageRoom THEN c ELSE Cut

\* A page 0 that there is, as a sequence; <<>> when there is none.
Image(c) == <<Bytes(c)>>

Idle == [step |-> "idle", name |-> None, id |-> 0, orphan |-> FALSE, image |-> <<>>]
Released == [Idle EXCEPT !.step = "reload"]
Down     == [Idle EXCEPT !.step = "down"]
At(s, step) == pc[s].step = step
Goto(s, step) == pc' = [pc EXCEPT ![s].step = step]
InTx(s) == owner = s /\ explicit

Tables(c) == [n \in DOMAIN c |-> c[n].first]

\* A catalog with one more table.
With(c, n, table) == [x \in DOMAIN c \cup {n} |-> IF x = n THEN table ELSE c[x]]

\* A session whose work on the catalog is half done: in memory and not in
\* page 0, in a private page 0, rolled back and still in memory, or a value
\* that is drawn and not yet used.
Busy(s) == \/ pc[s].step \in {"write", "serialize", "store", "insert", "reload"}
           \/ owner = s /\ (private # <<>> \/ refused)
Touch(s) ==
    /\ overlapped' = (overlapped \/ \E o \in Sessions \ {s} : Busy(o))
    /\ UNCHANGED <<committed, replayed, marred, given>>

-----------------------------------------------------------------------------
(* Transactions.                                                           *)

\* TableManager.Begin, for a BEGIN of the session.
BeginTx(s) ==
    /\ At(s, "idle") /\ owner = None
    /\ owner' = s /\ explicit' = TRUE
    /\ UNCHANGED <<memory, page0, workspace, logged, pc, next, rows, mine, begun, crashes,
                   committed, overlapped, replayed, marred, given>>

\* The transaction has ended: its workspace is gone and the lock is free.
End ==
    /\ private' = <<>> /\ appended' = <<>> /\ refused' = FALSE /\ mine' = EmptyBag
    /\ owner' = None /\ explicit' = FALSE

\* Commit writes the private page 0, if there is one, to the file; recovery
\* will have the one that was appended to the log.
CommitOf(s) ==
    /\ page0' = IF private = <<>> THEN page0 ELSE private[1]
    /\ logged' = IF appended = <<>> THEN logged ELSE appended
    /\ committed' = IF private \in {<<>>, <<Cut>>} THEN committed ELSE Tables(private[1])
    /\ marred' = (marred \/ refused \/ page0' = Cut)
    /\ rows' = rows (+) mine
    /\ End
    /\ UNCHANGED <<memory, next, begun, crashes, overlapped, replayed, given>>

\* TransactionManager.Rollback frees the lock; TableManager.Rollback goes on
\* to reload the catalog.
RollbackOf(s) ==
    /\ End
    /\ pc' = [pc EXCEPT ![s] = Released]
    /\ UNCHANGED <<memory, page0, logged, next, rows, begun, crashes,
                   committed, overlapped, replayed, marred, given>>

CommitTx(s)   == At(s, "idle") /\ InTx(s) /\ CommitOf(s) /\ UNCHANGED pc
RollbackTx(s) == At(s, "idle") /\ InTx(s) /\ RollbackOf(s)

\* A pointer to a table's metadata outlives the table in the map: what is
\* written through it is lost.
Orphans(names, other) ==
    [s \in Sessions |->
        [other[s] EXCEPT !.orphan = @ \/ (other[s].step = "write" /\ other[s].name \in names)]]

\* Mutant: the catalog in memory stays as it is.
KeepMemory(s) ==
    /\ UNCHANGED memory
    /\ pc' = [pc EXCEPT ![s] = Idle]

\* Catalog.Reload, by a session, from a page 0 that can be read.
ReloadBy(s) ==
    /\ memory' = page0
    /\ pc' = Orphans(Names, [pc EXCEPT ![s] = Idle])

Reload(s) ==
    /\ At(s, "reload") /\ page0 # Cut
    /\ ReloadBy(s)
    /\ Touch(s)
    /\ UNCHANGED <<page0, workspace, logged, owner, explicit, next, rows, mine, begun, crashes>>

\* It cannot be read from the file, or it is cut: the map stays as it is.
ReloadFails(s) ==
    /\ At(s, "reload")
    /\ pc' = [pc EXCEPT ![s] = Idle]
    /\ marred' = TRUE
    /\ UNCHANGED <<memory, page0, workspace, logged, owner, explicit, next, rows, mine, begun,
                   crashes, committed, overlapped, replayed, given>>

\* CallModel reloads the catalog after the model's tools have run.
ReloadCatalog(s) ==
    /\ At(s, "idle") /\ page0 # Cut /\ memory # page0
    /\ ReloadBy(s)
    /\ overlapped' = (overlapped \/ \E o \in Sessions : Busy(o))
    /\ UNCHANGED <<page0, workspace, logged, owner, explicit, next, rows, mine, begun, crashes,
                   committed, replayed, marred, given>>

\* The process has ended and starts again: recovery redoes the page 0 of the
\* log, the log is truncated, and New reads page 0.  When it cannot, nothing
\* starts.
Recovered == IF logged = <<>> THEN page0 ELSE logged[1]

StartUp ==
    /\ End
    /\ page0' = Recovered /\ logged' = <<>>
    /\ memory' = IF Recovered = Cut THEN <<>> ELSE Recovered
    /\ pc' = [s \in Sessions |-> IF Recovered = Cut THEN Down ELSE Idle]
    /\ replayed' = (replayed \/ Recovered # page0)
    /\ UNCHANGED <<rows, committed, overlapped, marred, given>>

-----------------------------------------------------------------------------
(* CREATE TABLE and DROP TABLE.                                            *)

\* A statement without a transaction begins one.
StartDdl(s, kind, n) ==
    /\ At(s, "idle") /\ begun < MaxStatements
    /\ owner = None \/ InTx(s)
    /\ owner' = s /\ begun' = begun + 1
    /\ pc' = [pc EXCEPT ![s] = [Idle EXCEPT !.step = kind, !.name = n]]
    /\ UNCHANGED <<memory, page0, workspace, logged, explicit, next, rows, mine, crashes,
                   committed, overlapped, replayed, marred, given>>

\* The statement has failed: its own transaction is rolled back, that of the
\* session goes on without it.
Failed == IF explicit THEN Idle ELSE Released
FailDdl(s) ==
    /\ IF explicit THEN UNCHANGED <<workspace, owner, explicit, mine>> ELSE End
    /\ pc' = [pc EXCEPT ![s] = Failed]

\* A statement without a transaction goes on to commit its own.
Changed == IF explicit THEN Idle ELSE [Idle EXCEPT !.step = "commit"]

\* Catalog.persist(tx) fails: page 0 cannot be fetched, or it enters the
\* workspace and the log refuses its record.
Refused(c) ==
    /\ private' = private \/ (~Panics(c) /\ private' = Image(c))
    /\ refused' = TRUE
    /\ UNCHANGED <<appended, owner, explicit, mine>>

\* The map is changed to c, without the tables gone, and persist(tx) puts it
\* in the workspace and in the log, fails, or ends the process.
Change(s, c, gone) ==
    \/ /\ ~Panics(c)
       /\ memory' = c /\ private' = Image(c) /\ appended' = Image(c)
       /\ pc' = Orphans(gone, [pc EXCEPT ![s] = Changed])
       /\ Touch(s)
       /\ UNCHANGED <<page0, logged, owner, explicit, rows, mine, refused>>
    \/ /\ memory' = c
       /\ IF explicit THEN Refused(c) ELSE End
       /\ pc' = Orphans(gone, [pc EXCEPT ![s] = Failed])
       /\ Touch(s)
       /\ UNCHANGED <<page0, logged, rows>>
    \/ Panics(c) /\ StartUp

\* The first page is allocated before the name is looked up.
CreateTable(s) ==
    LET n == pc[s].name IN
    /\ At(s, "create")
    /\ next' = next + 1
    /\ \/ /\ n \in DOMAIN memory
          /\ FailDdl(s)
          /\ UNCHANGED <<memory, page0, logged, rows, committed, overlapped, replayed, marred, given>>
       \/ /\ n \notin DOMAIN memory
          /\ Change(s, With(memory, n, [first |-> next, seq |-> 0]), {})
    /\ UNCHANGED <<begun, crashes>>

DropTable(s) ==
    LET n == pc[s].name IN
    /\ At(s, "drop")
    /\ \/ /\ n \notin DOMAIN memory
          /\ FailDdl(s)
          /\ UNCHANGED <<memory, page0, logged, rows, committed, overlapped, replayed, marred, given>>
       \/ /\ n \in DOMAIN memory
          /\ Change(s, [x \in DOMAIN memory \ {n} |-> memory[x]], {n})
    /\ UNCHANGED <<next, begun, crashes>>

CommitDdl(s) == At(s, "commit") /\ CommitOf(s) /\ pc' = [pc EXCEPT ![s] = Idle]

-----------------------------------------------------------------------------
(* INSERT with an AUTO_INCREMENT column: NextSequenceValue, which holds no *)
(* lock, and then InsertRecord.                                            *)

\* The next value is computed from the metadata in the map.
StartInsert(s, n) ==
    /\ At(s, "idle") /\ begun < MaxStatements /\ n \in DOMAIN memory
    /\ begun' = begun + 1
    /\ pc' = [pc EXCEPT ![s] = [Idle EXCEPT !.step = "write", !.name = n, !.id = memory[n].seq + 1]]
    /\ Touch(s)
    /\ UNCHANGED <<memory, page0, workspace, logged, owner, explicit, next, rows, mine, crashes>>

\* An id that is named is kept, and the counter stays as it is.
StartGiven(s, n, id) ==
    /\ At(s, "idle") /\ begun < MaxStatements /\ n \in DOMAIN memory
    /\ begun' = begun + 1
    /\ pc' = [pc EXCEPT ![s] = [Idle EXCEPT !.step = "given", !.name = n, !.id = id]]
    /\ UNCHANGED <<memory, page0, private, appended, logged, owner, explicit, next, rows, mine,
                   crashes, history>>

\* Mutant: the counter in the map does not count the value that is drawn.
CountsLate(n, drawn) == [memory EXCEPT ![n].seq = drawn - 1]

\* meta.Sequences, after a value was drawn.
Counted(n, drawn) == [memory EXCEPT ![n].seq = drawn]

WriteCounter(s) ==
    /\ At(s, "write")
    /\ memory' = IF pc[s].orphan THEN memory ELSE Counted(pc[s].name, pc[s].id)
    /\ Goto(s, "serialize")
    /\ Touch(s)
    /\ UNCHANGED <<page0, workspace, logged, owner, explicit, next, rows, mine, begun, crashes>>

\* persist(nil) serializes the catalog and writes page 0 past the log;
\* persist(tx) puts it in the workspace and in the log.
Serialize(s) ==
    /\ At(s, "serialize") /\ ~Panics(memory)
    /\ IF InTx(s)
       THEN private' = Image(memory) /\ appended' = Image(memory) /\ Goto(s, "insert")
       ELSE /\ pc' = [pc EXCEPT ![s].step = "store", ![s].image = Image(memory)]
            /\ UNCHANGED <<private, appended>>
    /\ Touch(s)
    /\ UNCHANGED <<memory, page0, logged, owner, explicit, next, rows, mine, begun, crashes, refused>>

SerializePanics(s) ==
    /\ At(s, "serialize") /\ Panics(memory)
    /\ StartUp
    /\ UNCHANGED <<next, begun, crashes>>

Store(s) ==
    /\ At(s, "store")
    /\ page0' = pc[s].image[1]
    /\ marred' = (marred \/ page0' = Cut)
    /\ pc' = [pc EXCEPT ![s].step = "insert", ![s].image = <<>>]
    /\ overlapped' = (overlapped \/ \E o \in Sessions \ {s} : Busy(o))
    /\ UNCHANGED <<memory, workspace, logged, owner, explicit, next, rows, mine, begun, crashes,
                   committed, replayed, given>>

\* persist fails: the counter in the map has moved and no row is added.
DrawFails(s) ==
    /\ pc[s].step \in {"serialize", "store"}
    /\ pc' = [pc EXCEPT ![s] = Idle]
    /\ IF InTx(s) THEN Refused(memory) ELSE UNCHANGED <<workspace, owner, explicit, mine>>
    /\ Touch(s)
    /\ UNCHANGED <<memory, page0, logged, next, rows, begun, crashes>>

\* Mutant: the ids of the rows that are there are not looked at.
NoDuplicate(first, id) == FALSE

\* InsertRecord reads the rows before it adds one.
Duplicate(first, id) == BagIn(<<first, id>>, rows (+) mine)

\* InsertRecord, in the transaction of the session or in one of its own.
InsertRecord(s) ==
    LET row == <<memory[pc[s].name].first, pc[s].id>>
        refusal == pc[s].name \notin DOMAIN memory \/ Duplicate(row[1], row[2])
    IN
    /\ At(s, "insert") \/ At(s, "given")
    /\ owner = None \/ InTx(s)
    /\ pc' = [pc EXCEPT ![s] = IF refusal /\ owner = None THEN Released ELSE Idle]
    /\ rows' = IF refusal \/ InTx(s) THEN rows ELSE rows (+) SetToBag({row})
    /\ mine' = IF refusal \/ ~InTx(s) THEN mine ELSE mine (+) SetToBag({row})
    /\ given' = IF refusal THEN given
                ELSE IF At(s, "given") THEN given \cup {row} ELSE given \ {row}
    /\ UNCHANGED <<memory, page0, workspace, logged, owner, explicit, next, begun, crashes,
                   committed, overlapped, replayed, marred>>

-----------------------------------------------------------------------------
\* The process is killed.
Restart ==
    /\ crashes < MaxCrashes /\ crashes' = crashes + 1
    /\ StartUp
    /\ UNCHANGED <<next, begun>>

\* New on an empty file: page 0 is allocated, and holds no table.
Init ==
    /\ memory = <<>> /\ page0 = <<>> /\ private = <<>> /\ appended = <<>> /\ logged = <<>>
    /\ owner = None /\ explicit = FALSE
    /\ pc = [s \in Sessions |-> Idle]
    /\ next = 1 /\ rows = EmptyBag /\ mine = EmptyBag /\ begun = 0 /\ crashes = 0
    /\ committed = <<>> /\ overlapped = FALSE /\ replayed = FALSE
    /\ refused = FALSE /\ marred = FALSE /\ given = {}

Next ==
    \/ Restart
    \/ \E s \in Sessions :
          \/ BeginTx(s) \/ CommitTx(s) \/ RollbackTx(s)
          \/ Reload(s) \/ ReloadFails(s) \/ ReloadCatalog(s)
          \/ \E n \in Names : \/ StartDdl(s, "create", n) \/ StartDdl(s, "drop", n)
                              \/ StartInsert(s, n)
                              \/ \E id \in GivenIds : StartGiven(s, n, id)
          \/ CreateTable(s) \/ DropTable(s) \/ CommitDdl(s)
          \/ WriteCounter(s) \/ Serialize(s) \/ SerializePanics(s) \/ Store(s) \/ DrawFails(s)
          \/ InsertRecord(s)

Spec == Init /\ [][Next]_vars

-----------------------------------------------------------------------------
(* Properties.                                                             *)

\* No two rows of a table have one id, although sessions draw the same value
\* when they draw at once, INSERTs name ids of their own, a rollback, a
\* reload or a restart sets counters back, and a drawn value may belong to a
\* table that is no longer there.
IdsAreUnique == \A r \in BagToSet(rows (+) mine) : (rows (+) mine)[r] = 1

\* As long as no two sessions work on the catalog at once, it is as
\* transactional as the tables are: memory has what the open transaction has
\* written, or else what is on page 0; page 0 has the tables that the last
\* commit left, and so has a restart, whatever was rolled back, had failed or
\* was cut short, and whatever page 0 was written past the log.  That ends
\* when page 0 is written with a catalog that does not fit, when a reload
\* fails, or when a transaction is committed although persist had failed for
\* one of its statements; until it is rolled back, memory may be ahead of it.
CatalogIsTransactional ==
    ~overlapped /\ ~marred =>
        /\ page0 # Cut /\ Recovered # Cut
        /\ Tables(page0) = committed
        /\ Tables(Recovered) = committed
        /\ ~refused /\ private # <<Cut>> /\ (\A s \in Sessions : ~At(s, "reload")) =>
              Tables(memory) = IF private = <<>> THEN committed ELSE Tables(private[1])

\* A counter is not behind the ids that were drawn for its table's rows,
\* unless sessions drew at once or a restart replayed a page 0 that is older
\* than the one on disk.  Ids that an INSERT names are not counted: the next
\* INSERT that draws may be refused because of one.
CountersRunAhead ==
    ~overlapped /\ ~replayed =>
        \A n \in DOMAIN memory : \A r \in BagToSet(rows (+) mine) \ given :
            r[1] = memory[n].first => r[2] <= memory[n].seq
=============================================================================
