---------------------------- MODULE CatalogProofs ----------------------------
(***************************************************************************)
(* No two rows of a table have one id; while no two sessions work on it at *)
(* once the catalog is as transactional as the tables, until page 0 has no *)
(* room for it or persist or Reload fails, and its counters run ahead of   *)
(* the ids drawn for the rows: for every number of sessions, names,        *)
(* statements and crashes, and whatever room there is.                     *)
(***************************************************************************)
EXTENDS Catalog, SequenceTheorems, TLAPS

-----------------------------------------------------------------------------
(* The inductive invariant.                                                *)

Catalogs == UNION {[N -> [first : Nat, seq : Nat]] : N \in SUBSET Names}

\* What page 0 can hold.
Page0s == Catalogs \cup {Cut}

DdlSteps  == {"create", "drop", "commit"}
DrawSteps == {"write", "serialize", "store", "insert"}
Positions ==
    [step : {"idle", "reload", "given", "down"} \cup DdlSteps \cup DrawSteps, name : Names \cup {None},
     id : Int, orphan : BOOLEAN, image : Seq(Page0s)]

TypeInv ==
    /\ memory \in Catalogs /\ page0 \in Page0s
    /\ private \in Seq(Page0s) /\ appended \in Seq(Page0s) /\ logged \in Seq(Page0s)
    /\ owner \in Sessions \cup {None}
    /\ pc \in [Sessions -> Positions]
    /\ next \in Nat

\* Who has the lock, and what only its owner can have.
OwnerInv ==
    /\ owner = None => ~ explicit /\ private = <<>> /\ ~ refused /\ mine = EmptyBag
    /\ private = <<>> => DOMAIN mine \subseteq given
    /\ ~ refused => appended = private
    /\ \A s \in Sessions :
          /\ owner = s /\ ~ explicit => pc[s].step \in DdlSteps
          /\ pc[s].step \in DdlSteps => owner = s
          /\ pc[s].step \in DrawSteps \cup {"create", "drop", "given"} => pc[s].name \in Names
          /\ pc[s].step \in DrawSteps => pc[s].id \in Nat
          /\ At(s, "commit") => ~ explicit
          /\ At(s, "reload") => owner # s
          /\ At(s, "store") => ~ InTx(s) /\ pc[s].image # <<>>
          /\ At(s, "insert") /\ InTx(s) => private # <<>>

\* Rows are a set: each is there once, committed or not.
RowsInv ==
    /\ rows = SetToBag(DOMAIN rows) /\ mine = SetToBag(DOMAIN mine)
    /\ DOMAIN rows \cap DOMAIN mine = {}

\* No other session is between two steps on the catalog.
AtWork(s) == pc[s].step \in DrawSteps \/ (owner = s /\ (private # <<>> \/ refused))

\* The page 0 that an INSERT has written its counter to.
Written(s) == IF InTx(s) THEN private[1] ELSE page0

\* What an INSERT can rely on between its steps.
Drawing(s) ==
    LET n == pc[s].name IN
    /\ At(s, "write") => ~ pc[s].orphan /\ n \in DOMAIN memory /\ pc[s].id = memory[n].seq + 1
    /\ pc[s].step \in {"serialize", "store", "insert"} =>
          n \in DOMAIN memory /\ memory[n].seq = pc[s].id
    /\ At(s, "store") => pc[s].image[1] = Bytes(memory)
    /\ At(s, "insert") => Written(s) = Bytes(memory)

\* What holds as long as no two sessions were at work at once.
AloneInv ==
    /\ \A s, o \in Sessions : AtWork(s) /\ AtWork(o) => s = o
    /\ \A s \in Sessions : At(s, "reload") => private = <<>>
    /\ \A s \in Sessions : Drawing(s)

\* The tables that memory shows when it is what the open transaction has
\* written, or what is committed.
Current == IF private = <<>> THEN committed ELSE Tables(private[1])
Settled == ~ refused /\ private # <<Cut>> /\ \A s \in Sessions : ~ At(s, "reload")

TablesInv ==
    /\ page0 # Cut /\ Recovered # Cut
    /\ Tables(page0) = committed
    /\ Tables(Recovered) = committed
    /\ Settled => Tables(memory) = Current

\* A catalog whose tables have different first pages below k, and a page 0
\* that holds no other.
Sound(c, k) ==
    /\ \A n \in DOMAIN c : c[n].first < k
    /\ \A n, m \in DOMAIN c : c[n].first = c[m].first => n = m
SoundPage(p, k) == p # Cut => Sound(p, k)

SoundInv ==
    /\ Sound(memory, next) /\ SoundPage(page0, next)
    /\ private # <<>> => SoundPage(private[1], next)
    /\ appended # <<>> => SoundPage(appended[1], next)
    /\ logged # <<>> => SoundPage(logged[1], next)
    /\ \A s \in Sessions : pc[s].image # <<>> => SoundPage(pc[s].image[1], next)
    /\ \A r \in DOMAIN rows \cup DOMAIN mine : r[1] \in Nat /\ r[2] \in Int /\ r[1] < next

\* The counters of c are not behind the rows of R.
Ahead(c, R) == \A n \in DOMAIN c : \A r \in R : r[1] = c[n].first => r[2] <= c[n].seq
AheadPage(p, R) == p # Cut => Ahead(p, R)

\* The rows whose ids were drawn.
Drawn == (DOMAIN rows \cup DOMAIN mine) \ given

AheadInv ==
    /\ Ahead(memory, Drawn)
    /\ AheadPage(page0, DOMAIN rows \ given)
    /\ private # <<>> => AheadPage(private[1], Drawn)

CatalogInv ==
    /\ TypeInv /\ OwnerInv /\ RowsInv /\ SoundInv
    /\ ~ overlapped => AloneInv
    /\ ~ overlapped /\ ~ marred => TablesInv
    /\ ~ overlapped /\ ~ replayed => AheadInv

-----------------------------------------------------------------------------
(* Catalogs, positions and bags.                                           *)

\* What a catalog is.
LEMMA CatalogFacts ==
    /\ <<>> \in Catalogs /\ DOMAIN (<<>>) = {}
    /\ \A c \in Catalogs :
          /\ DOMAIN c \subseteq Names /\ c = [n \in DOMAIN c |-> c[n]]
          /\ \A n \in DOMAIN c : c[n] \in [first : Nat, seq : Nat]
<1>1. <<>> \in [{} -> [first : Nat, seq : Nat]]
    OBVIOUS
<1>. QED
    BY <1>1, ZenonT(60) DEF Catalogs

\* A table more, a table less, and a counter that has moved.
LEMMA WithFacts ==
    ASSUME NEW c \in Catalogs, NEW n \in Names, NEW m \in [first : Nat, seq : Nat]
    PROVE  /\ With(c, n, m) \in Catalogs /\ DOMAIN With(c, n, m) = DOMAIN c \cup {n}
           /\ With(c, n, m)[n] = m
           /\ \A x \in DOMAIN c \ {n} : With(c, n, m)[x] = c[x]
<1>1. With(c, n, m) \in [DOMAIN c \cup {n} -> [first : Nat, seq : Nat]]
    BY CatalogFacts DEF With
<1>2. DOMAIN c \cup {n} \in SUBSET Names
    BY CatalogFacts
<1>. QED
    BY <1>1, <1>2 DEF Catalogs, With

LEMMA DroppedFacts ==
    ASSUME NEW c \in Catalogs, NEW n
    PROVE  [x \in DOMAIN c \ {n} |-> c[x]] \in Catalogs
<1>. DEFINE N == DOMAIN c \ {n}
<1>1. [x \in N |-> c[x]] \in [N -> [first : Nat, seq : Nat]]
    BY CatalogFacts
<1>2. N \in SUBSET Names
    BY CatalogFacts
<1>. QED
    BY <1>1, <1>2 DEF Catalogs

LEMMA CountedFacts ==
    ASSUME memory \in Catalogs, NEW n, NEW d \in Nat
    PROVE  /\ Counted(n, d) \in Catalogs /\ DOMAIN Counted(n, d) = DOMAIN memory
           /\ \A x \in DOMAIN memory :
                 /\ Counted(n, d)[x].first = memory[x].first
                 /\ x # n => Counted(n, d)[x] = memory[x]
           /\ n \in DOMAIN memory => Counted(n, d)[n].seq = d
           /\ Tables(Counted(n, d)) = Tables(memory)
<1>1. \A x \in DOMAIN memory : memory[x] \in [first : Nat, seq : Nat]
    BY CatalogFacts
<1>2. Counted(n, d) \in [DOMAIN memory -> [first : Nat, seq : Nat]]
    BY <1>1 DEF Counted
<1>3. DOMAIN memory \in SUBSET Names
    BY CatalogFacts
<1>4. \A x \in DOMAIN memory :
                 /\ Counted(n, d)[x].first = memory[x].first
                 /\ x # n => Counted(n, d)[x] = memory[x]
    BY <1>1 DEF Counted
<1>5. n \in DOMAIN memory => Counted(n, d)[n].seq = d
    BY <1>1 DEF Counted
<1>. QED
    BY <1>2, <1>3, <1>4, <1>5 DEF Catalogs, Tables

\* An orphaned pointer changes nothing else of where a session is.
LEMMA OrphansFacts ==
    ASSUME NEW names, NEW other \in [Sessions -> Positions]
    PROVE  /\ Orphans(names, other) \in [Sessions -> Positions]
           /\ \A o \in Sessions :
                 /\ Orphans(names, other)[o].step = other[o].step
                 /\ Orphans(names, other)[o].name = other[o].name
                 /\ Orphans(names, other)[o].id = other[o].id
                 /\ Orphans(names, other)[o].image = other[o].image
                 /\ other[o].step = "write" /\ other[o].name \notin names =>
                       Orphans(names, other)[o].orphan = other[o].orphan
<1>1. \A o \in Sessions : Orphans(names, other)[o] =
         [other[o] EXCEPT !.orphan = @ \/ (other[o].step = "write" /\ other[o].name \in names)]
    BY DEF Orphans
<1>2. \A o \in Sessions : other[o] \in Positions
    OBVIOUS
<1>. QED
    BY <1>1, <1>2 DEF Orphans, Positions

\* Sets as bags.
LEMMA BagFacts ==
    /\ EmptyBag = SetToBag({})
    /\ \A S : DOMAIN SetToBag(S) = S
    /\ \A S, T : S \cap T = {} => SetToBag(S) (+) SetToBag(T) = SetToBag(S \cup T)
BY DEF EmptyBag, SetToBag, (+)

-----------------------------------------------------------------------------
(* Types.                                                                  *)

\* The positions that actions put a session at.
LEMMA PositionFacts ==
    /\ None \notin Sessions
    /\ Idle \in Positions /\ Idle.step = "idle" /\ Idle.image = <<>>
    /\ Released \in Positions /\ Released.step = "reload" /\ Released.image = <<>>
    /\ Down \in Positions /\ Down.step = "down" /\ Down.image = <<>>
    /\ Changed \in Positions /\ Changed.image = <<>>
    /\ Changed.step = IF explicit THEN "idle" ELSE "commit"
    /\ Failed \in Positions /\ Failed.image = <<>>
    /\ Failed.step = IF explicit THEN "idle" ELSE "reload"
<1>1. <<>> \in Seq(Page0s)
    OBVIOUS
<1>2. Idle \in Positions /\ Idle.step = "idle" /\ Idle.image = <<>>
    BY <1>1 DEF Idle, Positions
<1>3. \A p \in Positions : \A step \in {"commit", "reload", "down"} :
          LET q == [p EXCEPT !.step = step]
          IN  q \in Positions /\ q.step = step /\ q.image = p.image
    BY DEF Positions, DdlSteps
<1>4. /\ Released \in Positions /\ Released.step = "reload" /\ Released.image = <<>>
      /\ Down \in Positions /\ Down.step = "down" /\ Down.image = <<>>
    BY <1>2, <1>3 DEF Released, Down
<1>5. /\ Changed \in Positions /\ Changed.image = <<>>
      /\ Changed.step = IF explicit THEN "idle" ELSE "commit"
    BY <1>2, <1>3 DEF Changed
<1>6. /\ Failed \in Positions /\ Failed.image = <<>>
      /\ Failed.step = IF explicit THEN "idle" ELSE "reload"
    BY <1>2, <1>4 DEF Failed
<1>. QED
    BY <1>2, <1>4, <1>5, <1>6, CatalogAssumption

\* Where a statement begins.
LEMMA StartFacts ==
    ASSUME NEW n \in Names
    PROVE  /\ \A kind \in {"create", "drop"} : [Idle EXCEPT !.step = kind, !.name = n] \in Positions
           /\ \A kind \in {"write", "given"}, v \in Int :
                 [Idle EXCEPT !.step = kind, !.name = n, !.id = v] \in Positions
<1>1. Idle \in Positions
    BY PositionFacts
<1>2. \A p \in Positions : \A kind \in {"create", "drop"} :
          [p EXCEPT !.step = kind, !.name = n] \in Positions
    BY DEF Positions, DdlSteps
<1>3. \A p \in Positions : \A kind \in {"write", "given"}, v \in Int :
          [p EXCEPT !.step = kind, !.name = n, !.id = v] \in Positions
    BY DEF Positions, DrawSteps
<1>. QED
    BY <1>1, <1>2, <1>3

\* One session moves.
LEMMA MoveFacts ==
    ASSUME TypeInv, NEW s \in Sessions, NEW p \in Positions
    PROVE  /\ [pc EXCEPT ![s] = p] \in [Sessions -> Positions]
           /\ [pc EXCEPT ![s] = p][s] = p
           /\ \A o \in Sessions \ {s} : [pc EXCEPT ![s] = p][o] = pc[o]
BY DEF TypeInv

\* A page 0 that there is.
LEMMA ImageFacts ==
    /\ \A c \in Catalogs :
          /\ Image(c) \in Seq(Page0s) /\ Image(c)[1] = Bytes(c) /\ Image(c) # <<>>
          /\ Bytes(c) \in Page0s /\ (Bytes(c) # Cut => Bytes(c) = c)
    /\ \A p \in Seq(Page0s) : p # <<>> => p[1] \in Page0s
    /\ \A p \in Page0s : p # Cut => p \in Catalogs
<1>1. ASSUME NEW p \in Seq(Page0s), p # <<>> PROVE p[1] \in Page0s
    <2>1. 1 \in 1 .. Len(p)
        BY <1>1, EmptySeq
    <2>. QED
        BY <2>1, ElementOfSeq
<1>2. ASSUME NEW c \in Catalogs
      PROVE  /\ Image(c) \in Seq(Page0s) /\ Image(c)[1] = Bytes(c) /\ Image(c) # <<>>
             /\ Bytes(c) \in Page0s /\ (Bytes(c) # Cut => Bytes(c) = c)
    <2>1. Bytes(c) \in Page0s /\ (Bytes(c) # Cut => Bytes(c) = c)
        BY DEF Bytes, Page0s
    <2>. QED
        BY <2>1 DEF Image
<1>. QED
    BY <1>1, <1>2 DEF Page0s

\* What a session does.
StepOf(s) ==
    \/ BeginTx(s) \/ CommitTx(s) \/ RollbackTx(s)
    \/ Reload(s) \/ ReloadFails(s) \/ ReloadCatalog(s)
    \/ \E n \in Names : \/ \E kind \in {"create", "drop"} : StartDdl(s, kind, n)
                       \/ StartInsert(s, n)
                       \/ \E id \in GivenIds : StartGiven(s, n, id)
    \/ CreateTable(s) \/ DropTable(s) \/ CommitDdl(s)
    \/ WriteCounter(s) \/ Serialize(s) \/ Store(s) \/ DrawFails(s)
    \/ InsertRecord(s)

LEMMA NextCases == Next => (StartUp /\ next' = next) \/ \E s \in Sessions : StepOf(s)
BY DEF Next, StepOf, Restart, SerializePanics

-----------------------------------------------------------------------------
(* Where sessions are after a step.                                        *)

\* A session that another one's step leaves alone, but for its pointer to a
\* table's metadata.
Stays(o) ==
    /\ pc'[o].step = pc[o].step /\ pc'[o].name = pc[o].name
    /\ pc'[o].id = pc[o].id /\ pc'[o].image = pc[o].image

Moves(s, step) == pc'[s].step = step /\ \A o \in Sessions \ {s} : Stays(o)

\* The same, with every pointer valid that was.
MovesAlone(s, step) == Moves(s, step) /\ \A o \in Sessions \ {s} : pc'[o].orphan = pc[o].orphan

\* Sessions that move to a position that has no image.
LEMMA MovesTo ==
    ASSUME TypeInv, NEW s \in Sessions, NEW p \in Positions, pc' = [pc EXCEPT ![s] = p]
    PROVE  MovesAlone(s, p.step) /\ pc'[s] = p /\ pc' \in [Sessions -> Positions]
BY MoveFacts DEF MovesAlone, Moves, Stays

\* They may leave other pointers invalid.
LEMMA MovesOrphaning ==
    ASSUME TypeInv, NEW s \in Sessions, NEW p \in Positions, NEW names,
           pc' = Orphans(names, [pc EXCEPT ![s] = p])
    PROVE  Moves(s, p.step) /\ pc'[s].image = p.image /\ pc' \in [Sessions -> Positions]
<1>. DEFINE other == [pc EXCEPT ![s] = p]
<1>1. other \in [Sessions -> Positions] /\ other[s] = p /\ \A o \in Sessions \ {s} : other[o] = pc[o]
    BY MoveFacts
<1>2. pc' = Orphans(names, other)
    OBVIOUS
<1>. HIDE DEF other
<1>3. pc' \in [Sessions -> Positions]
    <2>1. other \in [Sessions -> Positions]
        BY <1>1
    <2>2. Orphans(names, other) \in [Sessions -> Positions]
        BY <2>1, OrphansFacts
    <2>. QED
        BY <1>2, <2>2
<1>4. pc'[s].step = p.step /\ pc'[s].image = p.image
    BY <1>1, <1>2, OrphansFacts
<1>5. \A o \in Sessions \ {s} : Stays(o)
    BY <1>1, <1>2, OrphansFacts DEF Stays
<1>. QED
    BY <1>3, <1>4, <1>5 DEF Moves

\* Steps that go on with a statement.
LEMMA Goes ==
    ASSUME TypeInv, NEW s \in Sessions, NEW step \in DrawSteps, Goto(s, step)
    PROVE  /\ MovesAlone(s, step) /\ pc' \in [Sessions -> Positions]
           /\ pc'[s].name = pc[s].name /\ pc'[s].id = pc[s].id /\ pc'[s].image = pc[s].image
           /\ pc'[s].orphan = pc[s].orphan
<1>1. pc' \in [Sessions -> Positions]
    BY ZenonT(60) DEF TypeInv, Positions, Goto
<1>. QED
    BY <1>1 DEF TypeInv, Positions, Goto, MovesAlone, Moves, Stays

\* Every step of a session ends as one of these.
LEMMA EffectOfStartUp ==
    ASSUME TypeInv, StartUp
    PROVE  /\ pc' \in [Sessions -> Positions]
           /\ \A s \in Sessions : pc'[s].step \in {"idle", "down"} /\ pc'[s].image = <<>>
           /\ page0' = Recovered /\ page0' \in Page0s /\ logged' = <<>> /\ End
           /\ memory' = IF Recovered = Cut THEN <<>> ELSE Recovered
           /\ memory' \in Catalogs
           /\ replayed' = (replayed \/ Recovered # page0)
           /\ UNCHANGED <<rows, committed, overlapped, marred, given>>
<1>1. Recovered \in Page0s
    BY ImageFacts DEF Recovered, TypeInv
<1>2. memory' \in Catalogs
    BY <1>1, CatalogFacts, ImageFacts DEF StartUp
<1>3. /\ pc' \in [Sessions -> Positions]
      /\ \A s \in Sessions : pc'[s].step \in {"idle", "down"} /\ pc'[s].image = <<>>
    BY PositionFacts DEF StartUp
<1>. QED
    BY <1>1, <1>2, <1>3 DEF StartUp

LEMMA EffectOfReload ==
    ASSUME TypeInv, NEW s \in Sessions, ReloadBy(s), page0 # Cut
    PROVE  /\ Moves(s, "idle") /\ pc'[s].image = <<>> /\ pc' \in [Sessions -> Positions]
           /\ memory' = page0 /\ memory' \in Catalogs
<1>1. Moves(s, "idle") /\ pc'[s].image = <<>> /\ pc' \in [Sessions -> Positions]
    BY MovesOrphaning, PositionFacts DEF ReloadBy
<1>. QED
    BY <1>1, ImageFacts DEF ReloadBy, TypeInv

LEMMA EffectOfFailure ==
    ASSUME TypeInv, NEW s \in Sessions, FailDdl(s)
    PROVE  /\ pc'[s].image = <<>> /\ pc' \in [Sessions -> Positions]
           /\ IF explicit
              THEN MovesAlone(s, "idle") /\ UNCHANGED <<workspace, owner, explicit, mine>>
              ELSE MovesAlone(s, "reload") /\ End
<1>1. /\ MovesAlone(s, Failed.step) /\ pc'[s].image = <<>> /\ pc' \in [Sessions -> Positions]
    BY MovesTo, PositionFacts DEF FailDdl
<1>. QED
    BY <1>1, PositionFacts DEF FailDdl

\* A changed catalog that is in the workspace and in the log.
Persisted(s, c) ==
    /\ memory' = c /\ private' = Image(c) /\ appended' = Image(c)
    /\ Moves(s, IF explicit THEN "idle" ELSE "commit")
    /\ Touch(s)
    /\ UNCHANGED <<page0, logged, owner, explicit, rows, mine, refused>>

\* One whose statement has failed.
Denied(s, c) ==
    /\ memory' = c
    /\ IF explicit THEN Moves(s, "idle") /\ Refused(c) ELSE Moves(s, "reload") /\ End
    /\ Touch(s)
    /\ UNCHANGED <<page0, logged, rows>>

\* A catalog that keeps what memory has of first pages and counters.
Sane(c) ==
    /\ c \in Catalogs
    /\ SoundInv => Sound(c, next')
    /\ SoundInv /\ Ahead(memory, Drawn) => Ahead(c, Drawn)

Unchanged(s) ==
    FailDdl(s) /\ UNCHANGED <<memory, page0, logged, rows, committed, overlapped, replayed, marred, given>>

LEMMA EffectOfChange ==
    ASSUME TypeInv, NEW s \in Sessions, NEW c, NEW gone, Change(s, c, gone)
    PROVE  \/ StartUp
           \/ /\ Persisted(s, c) \/ Denied(s, c)
              /\ pc'[s].image = <<>> /\ pc' \in [Sessions -> Positions]
<1>1. CASE StartUp
    BY <1>1
<1>2. CASE /\ memory' = c /\ private' = Image(c) /\ appended' = Image(c)
           /\ pc' = Orphans(gone, [pc EXCEPT ![s] = Changed])
           /\ Touch(s)
           /\ UNCHANGED <<page0, logged, owner, explicit, rows, mine, refused>>
    <2>1. Moves(s, Changed.step) /\ pc'[s].image = <<>> /\ pc' \in [Sessions -> Positions]
        BY <1>2, MovesOrphaning, PositionFacts
    <2>. QED
        BY <1>2, <2>1, PositionFacts DEF Persisted
<1>3. CASE /\ memory' = c
           /\ IF explicit THEN Refused(c) ELSE End
           /\ pc' = Orphans(gone, [pc EXCEPT ![s] = Failed])
           /\ Touch(s)
           /\ UNCHANGED <<page0, logged, rows>>
    <2>1. Moves(s, Failed.step) /\ pc'[s].image = <<>> /\ pc' \in [Sessions -> Positions]
        BY <1>3, MovesOrphaning, PositionFacts
    <2>. QED
        BY <1>3, <2>1, PositionFacts DEF Denied
<1>. QED
    BY <1>1, <1>2, <1>3 DEF Change

LEMMA SoundCatalogs ==
    ASSUME NEW c \in Catalogs, NEW k \in Nat, Sound(c, k)
    PROVE  /\ Sound(c, k + 1)
           /\ \A n \in Names \ DOMAIN c : Sound(With(c, n, [first |-> k, seq |-> 0]), k + 1)
           /\ \A n : Sound([x \in DOMAIN c \ {n} |-> c[x]], k)
<1>1. \A n \in DOMAIN c : c[n].first \in Nat /\ c[n].first < k
    BY CatalogFacts DEF Sound
<1>2. ASSUME NEW n \in Names \ DOMAIN c
      PROVE  Sound(With(c, n, [first |-> k, seq |-> 0]), k + 1)
    <2>. DEFINE t == [first |-> k, seq |-> 0]
                d == With(c, n, t)
    <2>1. t \in [first : Nat, seq : Nat] /\ t.first = k
        OBVIOUS
    <2>. HIDE DEF t
    <2>2. /\ DOMAIN d = DOMAIN c \cup {n} /\ d[n].first = k
          /\ \A x \in DOMAIN c : d[x] = c[x]
        BY <1>2, <2>1 DEF With
    <2>3. Sound(d, k + 1)
        <3>. HIDE DEF d
        <3>. QED
            BY <1>1, <2>2 DEF Sound
    <2>. QED
        BY <2>3 DEF t
<1>. QED
    BY <1>1, <1>2 DEF Sound

\* What CREATE TABLE and DROP TABLE do to the map.
LEMMA SaneCreate ==
    ASSUME TypeInv, NEW n \in Names \ DOMAIN memory, next' = next + 1
    PROVE  Sane(With(memory, n, [first |-> next, seq |-> 0]))
<1>. DEFINE t == [first |-> next, seq |-> 0]
            c == With(memory, n, t)
<1>1. t \in [first : Nat, seq : Nat] /\ t.first = next
    BY DEF TypeInv
<1>2. SoundInv => Sound(c, next')
    BY SoundCatalogs DEF TypeInv, SoundInv
<1>. HIDE DEF t
<1>3. c \in Catalogs
    BY <1>1, WithFacts DEF TypeInv
<1>4. /\ DOMAIN c = DOMAIN memory \cup {n} /\ c[n].first = next
      /\ \A x \in DOMAIN memory : c[x] = memory[x]
    BY <1>1 DEF With
<1>. HIDE DEF c
<1>5. ASSUME SoundInv, Ahead(memory, Drawn) PROVE Ahead(c, Drawn)
    <2>1. \A r \in Drawn : r[1] # next
        <3>1. \A r \in Drawn : r[1] \in Nat /\ r[1] < next
            BY <1>5 DEF SoundInv, Drawn
        <3>. QED
            BY <3>1 DEF TypeInv
    <2>. QED
        BY <1>4, <1>5, <2>1 DEF Ahead
<1>. QED
    BY <1>2, <1>3, <1>5 DEF Sane, c, t

LEMMA SaneDrop ==
    ASSUME TypeInv, NEW n, next' = next
    PROVE  Sane([x \in DOMAIN memory \ {n} |-> memory[x]])
<1>1. SoundInv => Sound([x \in DOMAIN memory \ {n} |-> memory[x]], next')
    BY SoundCatalogs DEF TypeInv, SoundInv
<1>2. [x \in DOMAIN memory \ {n} |-> memory[x]] \in Catalogs
    BY DroppedFacts DEF TypeInv
<1>3. Ahead(memory, Drawn) => Ahead([x \in DOMAIN memory \ {n} |-> memory[x]], Drawn)
    BY DEF Ahead
<1>. QED
    BY <1>1, <1>2, <1>3 DEF Sane

LEMMA EffectOfDdl ==
    ASSUME TypeInv, OwnerInv, NEW s \in Sessions, CreateTable(s) \/ DropTable(s)
    PROVE  /\ owner = s /\ pc[s].step \in {"create", "drop"} /\ next' \in {next, next + 1}
           /\ \/ Unchanged(s)
              \/ StartUp
              \/ \E c : /\ Sane(c) /\ (Persisted(s, c) \/ Denied(s, c))
                        /\ pc'[s].image = <<>> /\ pc' \in [Sessions -> Positions]
<1>1. owner = s /\ pc[s].step \in {"create", "drop"} /\ pc[s].name \in Names
    BY DEF CreateTable, DropTable, OwnerInv, At, DdlSteps
<1>2. CASE CreateTable(s)
    <2>1. next' = next + 1
        BY <1>2 DEF CreateTable
    <2>2. CASE pc[s].name \in DOMAIN memory
        BY <1>1, <1>2, <2>1, <2>2 DEF CreateTable, Unchanged
    <2>3. CASE pc[s].name \notin DOMAIN memory
        <3>. DEFINE c == With(memory, pc[s].name, [first |-> next, seq |-> 0])
        <3>1. Change(s, c, {})
            BY <1>2, <2>3 DEF CreateTable
        <3>2. Sane(c)
            BY <1>1, <2>1, <2>3, SaneCreate
        <3>. HIDE DEF c
        <3>. QED
            BY <1>1, <2>1, <3>1, <3>2, EffectOfChange
    <2>. QED
        BY <2>2, <2>3
<1>3. CASE DropTable(s)
    <2>1. next' = next
        BY <1>3 DEF DropTable
    <2>2. CASE pc[s].name \notin DOMAIN memory
        BY <1>1, <1>3, <2>1, <2>2 DEF DropTable, Unchanged
    <2>3. CASE pc[s].name \in DOMAIN memory
        <3>. DEFINE c == [x \in DOMAIN memory \ {pc[s].name} |-> memory[x]]
        <3>1. Change(s, c, {pc[s].name})
            BY <1>3, <2>3 DEF DropTable
        <3>2. Sane(c)
            BY <2>1, SaneDrop
        <3>. HIDE DEF c
        <3>. QED
            BY <1>1, <2>1, <3>1, <3>2, EffectOfChange
    <2>. QED
        BY <2>2, <2>3
<1>. QED
    BY <1>2, <1>3

LEMMA EffectOfStart ==
    ASSUME TypeInv, NEW s \in Sessions, NEW n \in Names, StartInsert(s, n)
    PROVE  /\ MovesAlone(s, "write") /\ pc'[s].name = n /\ pc'[s].id = memory[n].seq + 1
           /\ memory[n].seq + 1 \in Nat
           /\ ~ pc'[s].orphan /\ pc'[s].image = <<>> /\ pc' \in [Sessions -> Positions]
           /\ At(s, "idle") /\ n \in DOMAIN memory
<1>. DEFINE v == memory[n].seq + 1
            p == [Idle EXCEPT !.step = "write", !.name = n, !.id = v]
<1>1. memory[n].seq \in Nat
    BY CatalogFacts DEF StartInsert, TypeInv
<1>2. v \in Nat /\ v \in Int
    BY <1>1
<1>3. pc' = [pc EXCEPT ![s] = p] /\ At(s, "idle") /\ n \in DOMAIN memory
    BY DEF StartInsert
<1>. HIDE DEF v
<1>4. /\ p \in Positions /\ p.step = "write" /\ p.name = n /\ p.id = v
      /\ ~ p.orphan /\ p.image = <<>>
    BY <1>2, StartFacts DEF Idle
<1>. HIDE DEF p
<1>5. MovesAlone(s, p.step) /\ pc'[s] = p /\ pc' \in [Sessions -> Positions]
    BY <1>3, <1>4, MovesTo
<1>. QED
    BY <1>2, <1>3, <1>4, <1>5 DEF v

LEMMA EffectOfGiven ==
    ASSUME TypeInv, NEW s \in Sessions, NEW n \in Names, NEW id \in GivenIds, StartGiven(s, n, id)
    PROVE  /\ MovesAlone(s, "given") /\ pc'[s].name = n /\ pc'[s].image = <<>>
           /\ pc' \in [Sessions -> Positions] /\ At(s, "idle")
           /\ UNCHANGED <<memory, page0, private, appended, logged, owner, explicit, next, rows, mine, history>>
<1>. DEFINE p == [Idle EXCEPT !.step = "given", !.name = n, !.id = id]
<1>1. id \in Int
    BY CatalogAssumption
<1>2. p \in Positions /\ p.step = "given" /\ p.name = n /\ p.image = <<>>
    BY <1>1, StartFacts DEF Idle
<1>3. pc' = [pc EXCEPT ![s] = p]
    BY DEF StartGiven
<1>. HIDE DEF p
<1>4. MovesAlone(s, p.step) /\ pc'[s] = p /\ pc' \in [Sessions -> Positions]
    BY <1>2, <1>3, MovesTo
<1>. QED
    BY <1>2, <1>4 DEF StartGiven

LEMMA EffectOfStartDdl ==
    ASSUME TypeInv, NEW s \in Sessions, NEW n \in Names, NEW kind \in {"create", "drop"}, StartDdl(s, kind, n)
    PROVE  /\ MovesAlone(s, kind) /\ pc'[s].name = n /\ pc'[s].image = <<>>
           /\ pc' \in [Sessions -> Positions]
           /\ At(s, "idle") /\ owner' = s /\ (owner = None \/ InTx(s))
           /\ UNCHANGED <<memory, page0, workspace, logged, explicit, next, rows, mine,
                          committed, overlapped, replayed, marred, given>>
<1>. DEFINE p == [Idle EXCEPT !.step = kind, !.name = n]
<1>2. p \in Positions /\ p.step = kind /\ p.name = n /\ p.image = <<>>
    BY StartFacts DEF Idle
<1>3. pc' = [pc EXCEPT ![s] = p]
    BY DEF StartDdl
<1>. HIDE DEF p
<1>4. MovesAlone(s, p.step) /\ pc'[s] = p /\ pc' \in [Sessions -> Positions]
    BY <1>2, <1>3, MovesTo
<1>. QED
    BY <1>2, <1>4 DEF StartDdl

LEMMA EffectOfSerialize ==
    ASSUME TypeInv, NEW s \in Sessions, Serialize(s)
    PROVE  /\ MovesAlone(s, IF InTx(s) THEN "insert" ELSE "store") /\ pc' \in [Sessions -> Positions]
           /\ pc'[s].name = pc[s].name /\ pc'[s].id = pc[s].id
           /\ InTx(s) => /\ private' = Image(memory) /\ appended' = Image(memory)
                         /\ pc'[s].image = pc[s].image
           /\ ~ InTx(s) => /\ private' = private /\ appended' = appended
                           /\ pc'[s].image = Image(memory)
<1>1. CASE InTx(s)
    <2>1. private' = Image(memory) /\ appended' = Image(memory) /\ Goto(s, "insert")
        BY <1>1 DEF Serialize
    <2>. QED
        BY <1>1, <2>1, Goes DEF DrawSteps
<1>2. CASE ~ InTx(s)
    <2>1. /\ pc' = [pc EXCEPT ![s].step = "store", ![s].image = Image(memory)]
          /\ private' = private /\ appended' = appended
        BY <1>2 DEF Serialize
    <2>2. Image(memory) \in Seq(Page0s)
        BY ImageFacts DEF TypeInv
    <2>3. pc' \in [Sessions -> Positions]
        BY <2>1, <2>2, ZenonT(60) DEF TypeInv, Positions, DrawSteps
    <2>. QED
        BY <1>2, <2>1, <2>3 DEF TypeInv, Positions, MovesAlone, Moves, Stays
<1>. QED
    BY <1>1, <1>2

LEMMA EffectOfStore ==
    ASSUME TypeInv, OwnerInv, NEW s \in Sessions, Store(s)
    PROVE  /\ MovesAlone(s, "insert") /\ pc' \in [Sessions -> Positions]
           /\ pc'[s].name = pc[s].name /\ pc'[s].id = pc[s].id /\ pc'[s].image = <<>>
           /\ page0' = pc[s].image[1] /\ page0' \in Page0s
<1>1. pc' = [pc EXCEPT ![s].step = "insert", ![s].image = <<>>] /\ page0' = pc[s].image[1]
    BY DEF Store
<1>2. <<>> \in Seq(Page0s)
    OBVIOUS
<1>3. pc' \in [Sessions -> Positions]
    BY <1>1, <1>2, ZenonT(60) DEF TypeInv, Positions, DrawSteps
<1>4. pc[s].image \in Seq(Page0s) /\ pc[s].image # <<>>
    BY DEF Store, TypeInv, OwnerInv, Positions
<1>5. page0' \in Page0s
    BY <1>1, <1>4, ImageFacts
<1>. QED
    BY <1>1, <1>3, <1>5 DEF TypeInv, Positions, MovesAlone, Moves, Stays

LEMMA EffectOfDrawFails ==
    ASSUME TypeInv, NEW s \in Sessions, DrawFails(s)
    PROVE  /\ MovesAlone(s, "idle") /\ pc'[s].image = <<>> /\ pc' \in [Sessions -> Positions]
           /\ pc[s].step \in DrawSteps
           /\ private' = private \/ (InTx(s) /\ private' = Image(memory))
           /\ UNCHANGED <<memory, page0, appended, logged, owner, explicit, next, rows, mine>>
           /\ IF InTx(s) THEN refused' ELSE refused' = refused
           /\ Touch(s)
<1>1. MovesAlone(s, "idle") /\ pc'[s].image = <<>> /\ pc' \in [Sessions -> Positions]
    BY MovesTo, PositionFacts DEF DrawFails
<1>2. CASE InTx(s)
    BY <1>1, <1>2 DEF DrawFails, Refused, DrawSteps
<1>3. CASE ~ InTx(s)
    BY <1>1, <1>3 DEF DrawFails, workspace, DrawSteps
<1>. QED
    BY <1>2, <1>3

LEMMA EffectOfInsert ==
    ASSUME TypeInv, NEW s \in Sessions, InsertRecord(s)
    PROVE  /\ pc'[s].image = <<>> /\ pc' \in [Sessions -> Positions]
           /\ MovesAlone(s, "idle") \/ (MovesAlone(s, "reload") /\ owner = None)
<1>1. \/ pc' = [pc EXCEPT ![s] = Idle]
      \/ pc' = [pc EXCEPT ![s] = Released] /\ owner = None
    BY DEF InsertRecord
<1>. QED
    BY <1>1, MovesTo, PositionFacts

-----------------------------------------------------------------------------
(* Types.                                                                  *)

LEMMA TypeInit == Init => TypeInv
BY CatalogFacts, PositionFacts DEF Init, TypeInv, Page0s

\* The end of a transaction.
LEMMA EndTypes ==
    ASSUME End
    PROVE  /\ private' \in Seq(Page0s) /\ appended' \in Seq(Page0s) /\ owner' \in Sessions \cup {None}
           /\ private' = <<>> /\ appended' = <<>> /\ ~ refused' /\ mine' = EmptyBag
           /\ owner' = None /\ ~ explicit'
<1>1. <<>> \in Seq(Page0s)
    OBVIOUS
<1>. QED
    BY <1>1 DEF End

LEMMA TypeStep == TypeInv /\ OwnerInv /\ [Next]_vars => TypeInv'
<1>. SUFFICES ASSUME TypeInv, OwnerInv, [Next]_vars PROVE TypeInv'
    OBVIOUS
<1>1. CASE UNCHANGED vars
    BY <1>1 DEF vars, TypeInv
<1>2. ASSUME StartUp, next' \in Nat PROVE TypeInv'
    <2>1. <<>> \in Seq(Page0s)
        OBVIOUS
    <2>. QED
        BY <1>2, <2>1, EffectOfStartUp, EndTypes DEF TypeInv
<1>3. next \in Nat /\ next + 1 \in Nat
    BY DEF TypeInv
<1>. SUFFICES ASSUME NEW s \in Sessions, StepOf(s) PROVE TypeInv'
    BY <1>1, <1>2, <1>3, NextCases
<1>4. CASE BeginTx(s)
    BY <1>4 DEF BeginTx, workspace, TypeInv
<1>5. ASSUME CommitOf(s), pc' \in [Sessions -> Positions] PROVE TypeInv'
    <2>1. page0' \in Page0s /\ logged' \in Seq(Page0s)
        BY <1>5, ImageFacts DEF CommitOf, TypeInv
    <2>2. UNCHANGED <<memory, next>> /\ End
        BY <1>5 DEF CommitOf
    <2>. QED
        BY <1>5, <2>1, <2>2, EndTypes DEF TypeInv
<1>6. CASE CommitTx(s) \/ CommitDdl(s)
    <2>1. pc' \in [Sessions -> Positions]
        BY <1>6, MovesTo, PositionFacts DEF CommitTx, CommitDdl, TypeInv
    <2>. QED
        BY <1>5, <1>6, <2>1 DEF CommitTx, CommitDdl
<1>7. CASE RollbackTx(s)
    <2>1. pc' \in [Sessions -> Positions]
        BY <1>7, MovesTo, PositionFacts DEF RollbackTx, RollbackOf
    <2>. QED
        BY <1>7, <2>1, EndTypes DEF RollbackTx, RollbackOf, TypeInv
<1>8. CASE Reload(s) \/ ReloadCatalog(s)
    <2>1. memory' \in Catalogs /\ pc' \in [Sessions -> Positions]
        BY <1>8, EffectOfReload DEF Reload, ReloadCatalog
    <2>. QED
        BY <1>8, <2>1 DEF Reload, ReloadCatalog, workspace, TypeInv
<1>9. CASE ReloadFails(s)
    <2>1. pc' \in [Sessions -> Positions]
        BY <1>9, MovesTo, PositionFacts DEF ReloadFails
    <2>. QED
        BY <1>9, <2>1 DEF ReloadFails, workspace, TypeInv
<1>10. ASSUME NEW n \in Names, NEW kind \in {"create", "drop"}, StartDdl(s, kind, n) PROVE TypeInv'
    BY <1>10, EffectOfStartDdl DEF workspace, TypeInv
<1>11. ASSUME NEW n \in Names, StartInsert(s, n) PROVE TypeInv'
    BY <1>11, EffectOfStart DEF StartInsert, workspace, TypeInv
<1>12. ASSUME NEW n \in Names, NEW id \in GivenIds, StartGiven(s, n, id) PROVE TypeInv'
    BY <1>12, EffectOfGiven DEF TypeInv
<1>13. CASE CreateTable(s) \/ DropTable(s)
    <2>1. next' \in Nat /\ owner \in Sessions \cup {None}
        BY <1>3, <1>13, EffectOfDdl DEF TypeInv
    <2>2. CASE Unchanged(s)
        <3>1. pc' \in [Sessions -> Positions]
            BY <2>2, EffectOfFailure DEF Unchanged
        <3>2. \/ UNCHANGED <<private, appended, owner>>
              \/ End
            BY <2>2 DEF Unchanged, FailDdl, workspace
        <3>. QED
            BY <2>1, <2>2, <3>1, <3>2, EndTypes DEF Unchanged, TypeInv
    <2>3. ASSUME NEW c, Sane(c), Persisted(s, c) \/ Denied(s, c), pc' \in [Sessions -> Positions]
          PROVE  TypeInv'
        <3>1. c \in Catalogs /\ Image(c) \in Seq(Page0s)
            BY <2>3, ImageFacts DEF Sane
        <3>2. \/ private' \in {private, Image(c)} /\ appended' \in {appended, Image(c)} /\ owner' = owner
              \/ End
            BY <2>3 DEF Persisted, Denied, Refused
        <3>3. memory' = c /\ UNCHANGED <<page0, logged>>
            BY <2>3 DEF Persisted, Denied
        <3>. QED
            BY <2>1, <2>3, <3>1, <3>2, <3>3, EndTypes DEF TypeInv
    <2>. QED
        BY <1>2, <1>13, <2>1, <2>2, <2>3, EffectOfDdl
<1>14. CASE WriteCounter(s)
    <2>1. pc[s].id \in Nat
        BY <1>14 DEF WriteCounter, OwnerInv, At, DrawSteps
    <2>2. memory' \in Catalogs
        BY <1>14, <2>1, CountedFacts DEF WriteCounter, TypeInv
    <2>3. pc' \in [Sessions -> Positions]
        BY <1>14, Goes DEF WriteCounter, DrawSteps
    <2>. QED
        BY <1>14, <2>2, <2>3 DEF WriteCounter, workspace, TypeInv
<1>15. CASE Serialize(s)
    <2>1. Image(memory) \in Seq(Page0s)
        BY ImageFacts DEF TypeInv
    <2>2. /\ pc' \in [Sessions -> Positions]
          /\ private' \in {private, Image(memory)} /\ appended' \in {appended, Image(memory)}
        BY <1>15, EffectOfSerialize
    <2>. QED
        BY <1>15, <2>1, <2>2 DEF Serialize, TypeInv
<1>16. CASE Store(s)
    BY <1>16, EffectOfStore DEF Store, workspace, TypeInv
<1>17. CASE DrawFails(s)
    <2>1. Image(memory) \in Seq(Page0s)
        BY ImageFacts DEF TypeInv
    <2>. QED
        BY <1>17, <2>1, EffectOfDrawFails DEF TypeInv
<1>18. CASE InsertRecord(s)
    BY <1>18, EffectOfInsert DEF InsertRecord, workspace, TypeInv
<1>. QED
    BY <1>4, <1>6, <1>7, <1>8, <1>9, <1>10, <1>11, <1>12, <1>13, <1>14, <1>15, <1>16, <1>17, <1>18
       DEF StepOf

-----------------------------------------------------------------------------
(* The lock and what its owner has.                                        *)

LEMMA OwnerInit == Init => OwnerInv
BY PositionFacts, BagFacts DEF Init, OwnerInv, At, InTx, DdlSteps, DrawSteps

\* A transaction ends and its session moves on.
LEMMA OwnerAtEnd ==
    ASSUME OwnerInv, End, NEW s \in Sessions, Moves(s, "idle") \/ Moves(s, "reload"), owner = s
    PROVE  OwnerInv'
<1>1. DOMAIN mine' = {}
    BY BagFacts DEF End
<1>2. None \notin Sessions
    BY PositionFacts
<1>3. \A o \in Sessions \ {s} : pc[o].step \notin DdlSteps
    BY DEF OwnerInv
<1>. QED
    BY <1>1, <1>2, <1>3 DEF OwnerInv, End, Moves, Stays, At, InTx, DdlSteps, DrawSteps

LEMMA OwnerAtStartUp ==
    ASSUME TypeInv, StartUp
    PROVE  OwnerInv'
<1>1. DOMAIN mine' = {}
    BY BagFacts DEF StartUp, End
<1>. QED
    BY <1>1, EffectOfStartUp, EndTypes, PositionFacts DEF OwnerInv, At, InTx, DdlSteps, DrawSteps

LEMMA OwnerStep == TypeInv /\ OwnerInv /\ RowsInv /\ [Next]_vars => OwnerInv'
<1>. SUFFICES ASSUME TypeInv, OwnerInv, RowsInv, [Next]_vars PROVE OwnerInv'
    OBVIOUS
<1>1. CASE UNCHANGED vars
    BY <1>1 DEF vars, OwnerInv, At, InTx
<1>2. CASE StartUp
    BY <1>2, OwnerAtStartUp
<1>. SUFFICES ASSUME NEW s \in Sessions, StepOf(s) PROVE OwnerInv'
    BY <1>1, <1>2, NextCases
<1>3. CASE BeginTx(s)
    BY <1>3, PositionFacts DEF BeginTx, workspace, OwnerInv, At, InTx, DdlSteps, DrawSteps
<1>4. CASE CommitTx(s)
    <2>1. Moves(s, "idle") /\ End /\ owner = s
        BY <1>4 DEF CommitTx, CommitOf, InTx, Moves, Stays, At
    <2>. QED
        BY <2>1, OwnerAtEnd
<1>5. CASE CommitDdl(s)
    <2>. MovesAlone(s, "idle")
        BY <1>5, MovesTo, PositionFacts DEF CommitDdl
    <2>1. Moves(s, "idle")
        BY DEF MovesAlone
    <2>2. End /\ owner = s
        BY <1>5 DEF CommitDdl, CommitOf, OwnerInv, At, DdlSteps
    <2>. QED
        BY <2>1, <2>2, OwnerAtEnd
<1>6. CASE RollbackTx(s)
    <2>. MovesAlone(s, "reload")
        BY <1>6, MovesTo, PositionFacts DEF RollbackTx, RollbackOf
    <2>1. Moves(s, "reload")
        BY DEF MovesAlone
    <2>2. End /\ owner = s
        BY <1>6 DEF RollbackTx, RollbackOf, InTx
    <2>. QED
        BY <2>1, <2>2, OwnerAtEnd
\* A step that moves one session that is not in a transaction of its own, or
\* stays in it.
<1>7. ASSUME NEW step, step \notin DdlSteps, step # "reload", Moves(s, step),
             owner = s => explicit,
             UNCHANGED <<private, appended, refused, owner, explicit, mine, given>>,
             step \in DrawSteps \cup {"given"} => pc'[s].name \in Names,
             step \in DrawSteps => pc'[s].id \in Nat,
             step = "store" => ~ InTx(s) /\ pc'[s].image # <<>>,
             step = "insert" /\ InTx(s) => private # <<>>
      PROVE  OwnerInv'
    BY <1>7 DEF OwnerInv, At, InTx, Moves, Stays, DdlSteps, DrawSteps
<1>8. pc[s].step \notin DdlSteps /\ owner = s => explicit
    BY DEF OwnerInv
<1>9. CASE Reload(s) \/ ReloadCatalog(s)
    <2>1. Moves(s, "idle") /\ pc[s].step \in {"idle", "reload"}
        BY <1>9, EffectOfReload DEF Reload, ReloadCatalog, At
    <2>2. UNCHANGED <<private, appended, refused, owner, explicit, mine, given>>
        BY <1>9 DEF Reload, ReloadCatalog, Touch, workspace
    <2>. QED
        BY <1>7, <1>8, <2>1, <2>2 DEF DdlSteps, DrawSteps
<1>10. CASE ReloadFails(s)
    <2>. MovesAlone(s, "idle")
        BY <1>10, MovesTo, PositionFacts DEF ReloadFails
    <2>1. Moves(s, "idle")
        BY DEF MovesAlone
    <2>2. UNCHANGED <<private, appended, refused, owner, explicit, mine, given>> /\ pc[s].step = "reload"
        BY <1>10 DEF ReloadFails, workspace, At
    <2>. QED
        BY <1>7, <1>8, <2>1, <2>2 DEF DdlSteps, DrawSteps
<1>11. ASSUME NEW n \in Names, NEW kind \in {"create", "drop"}, StartDdl(s, kind, n) PROVE OwnerInv'
    <2>1. /\ Moves(s, kind) /\ pc'[s].name = n /\ owner' = s /\ (owner = None \/ InTx(s))
          /\ UNCHANGED <<private, appended, refused, explicit, mine, given>>
        BY <1>11, EffectOfStartDdl DEF MovesAlone, workspace
    <2>. QED
        BY <2>1, PositionFacts DEF OwnerInv, At, InTx, Moves, Stays, DdlSteps, DrawSteps
<1>12. ASSUME NEW n \in Names, StartInsert(s, n) PROVE OwnerInv'
    <2>1. /\ Moves(s, "write") /\ pc'[s].name = n /\ pc'[s].id \in Nat /\ pc[s].step = "idle"
        BY <1>12, EffectOfStart DEF MovesAlone, At
    <2>2. UNCHANGED <<private, appended, refused, owner, explicit, mine, given>>
        BY <1>12 DEF StartInsert, Touch, workspace
    <2>. QED
        BY <1>7, <1>8, <2>1, <2>2 DEF DdlSteps, DrawSteps
<1>13. ASSUME NEW n \in Names, NEW id \in GivenIds, StartGiven(s, n, id) PROVE OwnerInv'
    <2>1. /\ Moves(s, "given") /\ pc'[s].name = n /\ pc[s].step = "idle"
          /\ UNCHANGED <<private, appended, refused, owner, explicit, mine, given>>
        BY <1>13, EffectOfGiven DEF MovesAlone, At, history
    <2>. QED
        BY <1>7, <1>8, <2>1 DEF DdlSteps, DrawSteps
<1>14. CASE CreateTable(s) \/ DropTable(s)
    <2>1. owner = s /\ pc[s].step \in {"create", "drop"}
        BY <1>14, EffectOfDdl
    <2>2. None \notin Sessions /\ \A o \in Sessions \ {s} : pc[o].step \notin DdlSteps
        BY <2>1, PositionFacts DEF OwnerInv
    \* In an explicit transaction that goes on.
    <2>3. ASSUME Moves(s, "idle"), explicit, UNCHANGED <<owner, explicit, mine, given>>,
                 private' # <<>> \/ private' = private,
                 ~ refused' => appended' = private'
          PROVE  OwnerInv'
        BY <2>1, <2>2, <2>3 DEF OwnerInv, At, InTx, Moves, Stays, DdlSteps, DrawSteps
    <2>4. CASE Unchanged(s)
        <3>1. CASE explicit
            <4>1. Moves(s, "idle") /\ UNCHANGED <<private, appended, refused, owner, explicit, mine, given>>
                BY <2>4, <3>1, EffectOfFailure DEF Unchanged, MovesAlone, workspace
            <4>. QED
                BY <2>3, <3>1, <4>1 DEF OwnerInv
        <3>2. CASE ~ explicit
            BY <2>1, <2>4, <3>2, EffectOfFailure, OwnerAtEnd DEF Unchanged, MovesAlone
        <3>. QED
            BY <3>1, <3>2
    <2>5. ASSUME NEW c, Sane(c), Persisted(s, c) PROVE OwnerInv'
        <3>1. private' # <<>> /\ appended' = private' /\ UNCHANGED <<owner, explicit, mine, given>>
            BY <2>5, ImageFacts DEF Persisted, Sane, Touch
        <3>2. CASE explicit
            BY <2>3, <2>5, <3>1, <3>2 DEF Persisted
        <3>3. CASE ~ explicit
            <4>1. Moves(s, "commit")
                BY <2>5, <3>3 DEF Persisted
            <4>. QED
                BY <2>1, <2>2, <3>1, <3>3, <4>1 DEF OwnerInv, At, InTx, Moves, Stays, DdlSteps, DrawSteps
        <3>. QED
            BY <3>2, <3>3
    <2>6. ASSUME NEW c, Sane(c), Denied(s, c) PROVE OwnerInv'
        <3>1. CASE explicit
            <4>1. /\ Moves(s, "idle") /\ UNCHANGED <<owner, explicit, mine, given>> /\ refused'
                  /\ private' = private \/ private' = Image(c)
                BY <2>6, <3>1 DEF Denied, Refused, Touch
            <4>2. Image(c) # <<>>
                BY <2>6, ImageFacts DEF Sane
            <4>. QED
                BY <2>3, <3>1, <4>1, <4>2
        <3>2. CASE ~ explicit
            BY <2>1, <2>6, <3>2, OwnerAtEnd DEF Denied
        <3>. QED
            BY <3>1, <3>2
    <2>. QED
        BY <1>2, <1>14, <2>4, <2>5, <2>6, EffectOfDdl
<1>15. CASE WriteCounter(s)
    <2>1. /\ Moves(s, "serialize") /\ pc'[s].name = pc[s].name /\ pc'[s].id = pc[s].id
          /\ pc[s].step = "write"
        BY <1>15, Goes DEF WriteCounter, MovesAlone, At, DrawSteps
    <2>2. UNCHANGED <<private, appended, refused, owner, explicit, mine, given>>
        BY <1>15 DEF WriteCounter, Touch, workspace
    <2>3. pc[s].name \in Names /\ pc[s].id \in Nat
        BY <2>1 DEF OwnerInv, DrawSteps
    <2>. QED
        BY <1>7, <1>8, <2>1, <2>2, <2>3 DEF DdlSteps, DrawSteps
<1>16. CASE Serialize(s)
    <2>1. /\ Moves(s, IF InTx(s) THEN "insert" ELSE "store")
          /\ pc'[s].name = pc[s].name /\ pc'[s].id = pc[s].id /\ pc[s].step = "serialize"
        BY <1>16, EffectOfSerialize DEF Serialize, MovesAlone, At
    <2>2. UNCHANGED <<refused, owner, explicit, mine, given>>
        BY <1>16 DEF Serialize, Touch
    <2>3. pc[s].name \in Names /\ pc[s].id \in Nat
        BY <2>1 DEF OwnerInv, DrawSteps
    <2>4. Image(memory) # <<>>
        BY ImageFacts DEF TypeInv
    <2>5. CASE InTx(s)
        <3>1. private' = Image(memory) /\ appended' = Image(memory)
            BY <1>16, <2>5, EffectOfSerialize
        <3>. QED
            BY <2>1, <2>2, <2>3, <2>4, <2>5, <3>1
               DEF OwnerInv, At, InTx, Moves, Stays, DdlSteps, DrawSteps
    <2>6. CASE ~ InTx(s)
        <3>1. UNCHANGED <<private, appended>> /\ pc'[s].image # <<>>
            BY <1>16, <2>4, <2>6, EffectOfSerialize
        <3>. QED
            BY <1>7, <1>8, <2>1, <2>2, <2>3, <2>6, <3>1 DEF DdlSteps, DrawSteps
    <2>. QED
        BY <2>5, <2>6
<1>17. CASE Store(s)
    <2>1. /\ Moves(s, "insert") /\ pc'[s].name = pc[s].name /\ pc'[s].id = pc[s].id
          /\ pc[s].step = "store"
        BY <1>17, EffectOfStore DEF Store, MovesAlone, At
    <2>2. UNCHANGED <<private, appended, refused, owner, explicit, mine, given>>
        BY <1>17 DEF Store, workspace
    <2>3. pc[s].name \in Names /\ pc[s].id \in Nat /\ ~ InTx(s)
        BY <2>1 DEF OwnerInv, At, DrawSteps
    <2>. QED
        BY <1>7, <1>8, <2>1, <2>2, <2>3 DEF DdlSteps, DrawSteps
<1>18. CASE DrawFails(s)
    <2>1. /\ Moves(s, "idle") /\ pc[s].step \in DrawSteps
          /\ UNCHANGED <<appended, owner, explicit, mine>>
        BY <1>18, EffectOfDrawFails DEF MovesAlone
    <2>2. UNCHANGED given
        BY <1>18 DEF DrawFails, Touch
    <2>3. CASE InTx(s)
        <3>1. refused' /\ (private' = private \/ private' = Image(memory))
            BY <1>18, <2>3, EffectOfDrawFails
        <3>2. Image(memory) # <<>>
            BY ImageFacts DEF TypeInv
        <3>. QED
            BY <2>1, <2>2, <2>3, <3>1, <3>2, PositionFacts
               DEF OwnerInv, At, InTx, Moves, Stays, DdlSteps, DrawSteps
    <2>4. CASE ~ InTx(s)
        <3>1. UNCHANGED <<private, refused>>
            BY <1>18, <2>4, EffectOfDrawFails
        <3>2. owner = s => explicit
            BY <1>8, <2>1 DEF DdlSteps, DrawSteps
        <3>. QED
            BY <1>7, <2>1, <2>2, <3>1, <3>2 DEF DdlSteps, DrawSteps
    <2>. QED
        BY <2>3, <2>4
<1>19. CASE InsertRecord(s)
    <2>. DEFINE row == <<memory[pc[s].name].first, pc[s].id>>
    <2>1. /\ pc[s].step \in {"insert", "given"} /\ (owner = None \/ InTx(s))
          /\ UNCHANGED <<private, appended, refused, owner, explicit>>
        BY <1>19 DEF InsertRecord, workspace, At
    <2>2. Moves(s, "idle") \/ (Moves(s, "reload") /\ owner = None)
        BY <1>19, EffectOfInsert DEF MovesAlone
    <2>3. owner = None => mine' = mine /\ mine = EmptyBag
        <3>1. owner = None => ~ InTx(s)
            BY PositionFacts DEF InTx
        <3>. QED
            BY <1>19, <3>1 DEF InsertRecord, OwnerInv
    <2>4. private' = <<>> => DOMAIN mine' \subseteq given'
        <3>1. CASE owner = None
            BY <2>3, <3>1, BagFacts
        <3>2. CASE InTx(s) /\ private = <<>>
            <4>1. pc[s].step = "given"
                BY <2>1, <3>2 DEF OwnerInv, At
            <4>2. \/ UNCHANGED <<mine, given>>
                  \/ mine' = mine (+) SetToBag({row}) /\ given' = given \cup {row}
                BY <1>19, <3>2, <4>1 DEF InsertRecord, At
            <4>3. DOMAIN (mine (+) SetToBag({row})) = DOMAIN mine \cup {row}
                BY BagFacts DEF (+)
            <4>4. DOMAIN mine \subseteq given
                BY <3>2 DEF OwnerInv
            <4>. QED
                BY <4>2, <4>3, <4>4
        <3>. QED
            BY <2>1, <3>1, <3>2
    <2>. HIDE DEF row
    <2>5. /\ owner' = None => ~ explicit' /\ private' = <<>> /\ ~ refused' /\ mine' = EmptyBag
          /\ ~ refused' => appended' = private'
        BY <2>1, <2>3 DEF OwnerInv
    <2>6. \A o \in Sessions :
              /\ owner' = o /\ ~ explicit' => pc'[o].step \in DdlSteps
              /\ pc'[o].step \in DdlSteps => owner' = o
              /\ pc'[o].step \in DrawSteps \cup {"create", "drop", "given"} => pc'[o].name \in Names
              /\ pc'[o].step \in DrawSteps => pc'[o].id \in Nat
              /\ At(o, "commit")' => ~ explicit'
              /\ At(o, "reload")' => owner' # o
              /\ At(o, "store")' => ~ InTx(o)' /\ pc'[o].image # <<>>
              /\ At(o, "insert")' /\ InTx(o)' => private' # <<>>
        BY <2>1, <2>2, PositionFacts DEF OwnerInv, At, InTx, Moves, Stays, DdlSteps, DrawSteps
    <2>. QED
        BY <2>4, <2>5, <2>6 DEF OwnerInv
<1>. QED
    BY <1>3, <1>4, <1>5, <1>6, <1>9, <1>10, <1>11, <1>12, <1>13, <1>14, <1>15, <1>16, <1>17, <1>18, <1>19
       DEF StepOf

-----------------------------------------------------------------------------
(* Rows.                                                                   *)

LEMMA RowsInit == Init => RowsInv
BY BagFacts DEF Init, RowsInv

\* Sets of rows that stay or become one.
LEMMA RowsKept ==
    ASSUME RowsInv, rows' \in {rows, rows (+) mine}, mine' = EmptyBag
    PROVE  RowsInv'
<1>1. /\ rows = SetToBag(DOMAIN rows) /\ mine = SetToBag(DOMAIN mine)
      /\ DOMAIN rows \cap DOMAIN mine = {}
    BY DEF RowsInv
<1>2. rows (+) mine = SetToBag(DOMAIN rows \cup DOMAIN mine)
    BY <1>1, BagFacts
<1>3. rows' = SetToBag(DOMAIN rows')
    BY <1>1, <1>2, BagFacts
<1>4. mine' = SetToBag(DOMAIN mine') /\ DOMAIN mine' = {}
    BY BagFacts
<1>. QED
    BY <1>3, <1>4 DEF RowsInv

\* What InsertRecord does to the rows.
Row(s) == <<memory[pc[s].name].first, pc[s].id>>
Adds(s) ==
    /\ pc[s].name \in DOMAIN memory
    /\ Row(s) \notin DOMAIN rows \cup DOMAIN mine
    /\ IF InTx(s) THEN rows' = rows /\ mine' = mine (+) SetToBag({Row(s)})
                  ELSE rows' = rows (+) SetToBag({Row(s)}) /\ mine' = mine
    /\ given' = IF At(s, "given") THEN given \cup {Row(s)} ELSE given \ {Row(s)}

LEMMA EffectOnRows ==
    ASSUME NEW s, InsertRecord(s)
    PROVE  UNCHANGED <<rows, mine, given>> \/ Adds(s)
<1>1. CASE pc[s].name \notin DOMAIN memory \/ Duplicate(memory[pc[s].name].first, pc[s].id)
    <2>1. UNCHANGED <<rows, mine, given>>
        BY <1>1 DEF InsertRecord
    <2>. QED
        BY <2>1
<1>2. CASE ~ (pc[s].name \notin DOMAIN memory \/ Duplicate(memory[pc[s].name].first, pc[s].id))
    <2>1. Row(s) \notin DOMAIN rows \cup DOMAIN mine
        BY <1>2 DEF Row, Duplicate, BagIn, BagToSet, (+)
    <2>. QED
        BY <1>2, <2>1 DEF InsertRecord, Adds, Row
<1>. QED
    BY <1>1, <1>2

LEMMA RowsStep == TypeInv /\ OwnerInv /\ RowsInv /\ [Next]_vars => RowsInv'
<1>. SUFFICES ASSUME TypeInv, OwnerInv, RowsInv, [Next]_vars PROVE RowsInv'
    OBVIOUS
<1>1. ASSUME UNCHANGED <<rows, mine>> PROVE RowsInv'
    BY <1>1 DEF RowsInv
<1>2. CASE UNCHANGED vars
    BY <1>1, <1>2 DEF vars
<1>3. CASE StartUp
    BY <1>3, RowsKept DEF StartUp, End
<1>. SUFFICES ASSUME NEW s \in Sessions, StepOf(s) PROVE RowsInv'
    BY <1>2, <1>3, NextCases
<1>4. CASE CommitTx(s) \/ CommitDdl(s)
    BY <1>4, RowsKept DEF CommitTx, CommitDdl, CommitOf, End
<1>5. CASE RollbackTx(s)
    BY <1>5, RowsKept DEF RollbackTx, RollbackOf, End
<1>6. CASE CreateTable(s) \/ DropTable(s)
    <2>1. CASE Unchanged(s)
        BY <1>1, <2>1, RowsKept DEF Unchanged, FailDdl, End
    <2>2. ASSUME NEW c, Persisted(s, c) \/ Denied(s, c) PROVE RowsInv'
        BY <1>1, <2>2, RowsKept DEF Persisted, Denied, Refused, End
    <2>. QED
        BY <1>3, <1>6, <2>1, <2>2, EffectOfDdl
<1>7. CASE InsertRecord(s)
    <2>1. CASE UNCHANGED <<rows, mine>>
        BY <2>1, <1>1
    <2>2. CASE Adds(s)
        <3>. DEFINE row == Row(s)
        <3>1. /\ \/ rows' = rows (+) SetToBag({row}) /\ mine' = mine
                 \/ rows' = rows /\ mine' = mine (+) SetToBag({row})
              /\ row \notin DOMAIN rows \cup DOMAIN mine
            BY <2>2 DEF Adds
        <3>. HIDE DEF row
        <3>3. /\ rows = SetToBag(DOMAIN rows) /\ mine = SetToBag(DOMAIN mine)
              /\ DOMAIN rows \cap {row} = {} /\ DOMAIN mine \cap {row} = {}
              /\ DOMAIN rows \cap DOMAIN mine = {}
            BY <3>1 DEF RowsInv
        <3>4. /\ rows (+) SetToBag({row}) = SetToBag(DOMAIN rows \cup {row})
              /\ mine (+) SetToBag({row}) = SetToBag(DOMAIN mine \cup {row})
            BY <3>3, BagFacts
        <3>5. \A S : DOMAIN SetToBag(S) = S
            BY BagFacts
        <3>6. CASE rows' = rows (+) SetToBag({row}) /\ mine' = mine
            BY <3>3, <3>4, <3>5, <3>6 DEF RowsInv
        <3>7. CASE rows' = rows /\ mine' = mine (+) SetToBag({row})
            BY <3>3, <3>4, <3>5, <3>7 DEF RowsInv
        <3>. QED
            BY <3>1, <3>6, <3>7
    <2>. QED
        BY <1>7, <2>1, <2>2, EffectOnRows
<1>8. CASE DrawFails(s)
    BY <1>1, <1>8, EffectOfDrawFails
<1>. QED
    BY <1>1, <1>4, <1>5, <1>6, <1>7, <1>8
       DEF StepOf, BeginTx, Reload, ReloadFails, ReloadCatalog, StartDdl, StartInsert, StartGiven,
           WriteCounter, Serialize, Store

-----------------------------------------------------------------------------
(* First pages.                                                            *)

\* What a step needs to keep SoundInv.
LEMMA SoundKept ==
    ASSUME TypeInv, SoundInv, next' \in {next, next + 1},
           Sound(memory', next'), page0' # page0 => SoundPage(page0', next'),
           private' \notin {private, <<>>} => SoundPage(private'[1], next'),
           appended' \notin {appended, <<>>} => SoundPage(appended'[1], next'),
           logged' \notin {logged, <<>>} => SoundPage(logged'[1], next'),
           \A s \in Sessions : pc'[s].image \notin {pc[s].image, <<>>} => SoundPage(pc'[s].image[1], next'),
           \A r \in (DOMAIN rows \cup DOMAIN mine)' \ (DOMAIN rows \cup DOMAIN mine) :
               r[1] \in Nat /\ r[2] \in Int /\ r[1] < next
    PROVE  SoundInv'
<1>1. \A p \in Page0s : SoundPage(p, next) => SoundPage(p, next')
    BY SoundCatalogs, ImageFacts DEF TypeInv, SoundPage
<1>2. /\ page0 \in Page0s
      /\ private # <<>> => private[1] \in Page0s
      /\ appended # <<>> => appended[1] \in Page0s
      /\ logged # <<>> => logged[1] \in Page0s
      /\ \A s \in Sessions : pc[s].image # <<>> => pc[s].image[1] \in Page0s
    BY ImageFacts DEF TypeInv, Positions
<1>3. SoundPage(page0', next')
    BY <1>1, <1>2 DEF SoundInv
<1>4. private' # <<>> => SoundPage(private'[1], next')
    BY <1>1, <1>2 DEF SoundInv
<1>5. appended' # <<>> => SoundPage(appended'[1], next')
    BY <1>1, <1>2 DEF SoundInv
<1>6. logged' # <<>> => SoundPage(logged'[1], next')
    BY <1>1, <1>2 DEF SoundInv
<1>7. \A s \in Sessions : pc'[s].image # <<>> => SoundPage(pc'[s].image[1], next')
    BY <1>1, <1>2 DEF SoundInv
<1>8. \A r \in (DOMAIN rows \cup DOMAIN mine)' : r[1] \in Nat /\ r[2] \in Int /\ r[1] < next'
    BY DEF SoundInv, TypeInv
<1>. QED
    BY <1>3, <1>4, <1>5, <1>6, <1>7, <1>8 DEF SoundInv

\* The image of a catalog is as sound as it is.
LEMMA SoundImage ==
    ASSUME NEW c \in Catalogs, NEW k, Sound(c, k)
    PROVE  SoundPage(Image(c)[1], k) /\ SoundPage(Bytes(c), k)
BY ImageFacts DEF SoundPage

LEMMA SoundInit == Init => SoundInv
BY CatalogFacts, PositionFacts, BagFacts DEF Init, SoundInv, Sound, SoundPage

LEMMA SoundStep == TypeInv /\ OwnerInv /\ SoundInv /\ [Next]_vars => SoundInv'
<1>. SUFFICES ASSUME TypeInv, OwnerInv, SoundInv, [Next]_vars PROVE SoundInv'
    OBVIOUS
<1>1. Sound(memory, next) /\ SoundPage(page0, next)
    BY DEF SoundInv
<1>2. CASE UNCHANGED vars
    BY <1>1, <1>2, SoundKept DEF vars
\* A step that leaves everything but memory and the positions alone.
<1>a. DOMAIN EmptyBag = {}
    BY BagFacts
<1>3. ASSUME StartUp, next' \in {next, next + 1} PROVE SoundInv'
    <2>1. SoundPage(Recovered, next)
        BY DEF Recovered, SoundInv
    <2>2. UNCHANGED rows /\ mine' = EmptyBag /\ private' = <<>> /\ appended' = <<>>
        BY <1>3 DEF StartUp, End
    <2>3. /\ memory' = IF Recovered = Cut THEN <<>> ELSE Recovered
          /\ memory' \in Catalogs /\ page0' = Recovered /\ page0' \in Page0s /\ logged' = <<>>
          /\ \A o \in Sessions : pc'[o].image = <<>>
        BY <1>3, EffectOfStartUp
    <2>4. Sound(<<>>, next)
        BY CatalogFacts DEF Sound
    <2>5. Sound(memory', next)
        BY <2>1, <2>3, <2>4 DEF SoundPage
    <2>6. Sound(memory', next')
        BY <1>3, <2>3, <2>5, SoundCatalogs DEF TypeInv
    <2>7. SoundPage(page0', next')
        BY <1>3, <2>1, <2>3, SoundCatalogs, ImageFacts DEF SoundPage, TypeInv
    <2>. HIDE DEF Recovered
    <2>. QED
        BY <1>3, <1>a, <2>2, <2>3, <2>6, <2>7, SoundKept
<1>. SUFFICES ASSUME NEW s \in Sessions, StepOf(s) PROVE SoundInv'
    BY <1>2, <1>3, NextCases
<1>4. CASE BeginTx(s)
    BY <1>1, <1>4, SoundKept DEF BeginTx, workspace
<1>5. CASE CommitTx(s) \/ CommitDdl(s)
    <2>1. \A o \in Sessions : pc'[o].image \in {pc[o].image, <<>>}
        BY <1>5, MovesTo, PositionFacts DEF CommitTx, CommitDdl, MovesAlone, Moves, Stays
    <2>2. DOMAIN (rows (+) mine) = DOMAIN rows \cup DOMAIN mine
        BY BagFacts DEF (+)
    <2>3. /\ page0' = IF private = <<>> THEN page0 ELSE private[1]
          /\ logged' = IF appended = <<>> THEN logged ELSE appended
          /\ private' = <<>> /\ appended' = <<>> /\ mine' = EmptyBag
          /\ rows' = rows (+) mine /\ UNCHANGED <<memory, next>>
        BY <1>5 DEF CommitTx, CommitDdl, CommitOf, End
    <2>4. page0' # page0 => SoundPage(page0', next')
        BY <2>3 DEF SoundInv
    <2>5. logged' # logged => SoundPage(logged'[1], next')
        BY <2>3 DEF SoundInv
    <2>. QED
        BY <1>1, <1>a, <2>1, <2>2, <2>3, <2>4, <2>5, SoundKept
<1>6. CASE RollbackTx(s)
    <2>1. \A o \in Sessions : pc'[o].image \in {pc[o].image, <<>>}
        BY <1>6, MovesTo, PositionFacts DEF RollbackTx, RollbackOf, MovesAlone, Moves, Stays
    <2>. QED
        BY <1>1, <1>6, <1>a, <2>1, SoundKept DEF RollbackTx, RollbackOf, End
<1>7. CASE Reload(s) \/ ReloadCatalog(s)
    <2>1. /\ ReloadBy(s) /\ page0 # Cut
          /\ UNCHANGED <<page0, private, appended, logged, next, rows, mine>>
        BY <1>7 DEF Reload, ReloadCatalog, workspace
    <2>2. memory' = page0 /\ \A o \in Sessions : pc'[o].image \in {pc[o].image, <<>>}
        BY <2>1, EffectOfReload DEF Moves, Stays
    <2>. QED
        BY <1>1, <2>1, <2>2, SoundKept DEF SoundPage
<1>8. CASE ReloadFails(s)
    <2>1. \A o \in Sessions : pc'[o].image \in {pc[o].image, <<>>}
        BY <1>8, MovesTo, PositionFacts DEF ReloadFails, MovesAlone, Moves, Stays
    <2>. QED
        BY <1>1, <1>8, <2>1, SoundKept DEF ReloadFails, workspace
<1>9. ASSUME NEW n \in Names, NEW kind \in {"create", "drop"}, StartDdl(s, kind, n) PROVE SoundInv'
    <2>1. \A o \in Sessions : pc'[o].image \in {pc[o].image, <<>>}
        BY <1>9, EffectOfStartDdl DEF MovesAlone, Moves, Stays
    <2>. QED
        BY <1>1, <1>9, <2>1, SoundKept DEF StartDdl, workspace
<1>10. ASSUME NEW n \in Names, StartInsert(s, n) PROVE SoundInv'
    <2>1. \A o \in Sessions : pc'[o].image \in {pc[o].image, <<>>}
        BY <1>10, EffectOfStart DEF MovesAlone, Moves, Stays
    <2>. QED
        BY <1>1, <1>10, <2>1, SoundKept DEF StartInsert, workspace
<1>11. ASSUME NEW n \in Names, NEW id \in GivenIds, StartGiven(s, n, id) PROVE SoundInv'
    <2>1. \A o \in Sessions : pc'[o].image \in {pc[o].image, <<>>}
        BY <1>11, EffectOfGiven DEF MovesAlone, Moves, Stays
    <2>. QED
        BY <1>1, <1>11, <2>1, EffectOfGiven, SoundKept
<1>12. CASE CreateTable(s) \/ DropTable(s)
    <2>1. next' \in {next, next + 1}
        BY <1>12, EffectOfDdl
    <2>2. CASE Unchanged(s)
        <3>1. /\ \A o \in Sessions : pc'[o].image \in {pc[o].image, <<>>}
              /\ private' \in {private, <<>>} /\ appended' \in {appended, <<>>} /\ mine' \in {mine, EmptyBag}
            BY <2>2, EffectOfFailure DEF Unchanged, MovesAlone, Moves, Stays, End, workspace
        <3>2. UNCHANGED <<memory, page0, logged, rows>>
            BY <2>2 DEF Unchanged
        <3>3. Sound(memory', next')
            BY <1>1, <2>1, <3>2, SoundCatalogs DEF TypeInv
        <3>. QED
            BY <1>a, <2>1, <3>1, <3>2, <3>3, SoundKept
    <2>3. ASSUME NEW c, Sane(c), Persisted(s, c) \/ Denied(s, c), pc'[s].image = <<>>
          PROVE  SoundInv'
        <3>1. c \in Catalogs /\ Sound(c, next')
            BY <2>3 DEF Sane
        <3>2. SoundPage(Image(c)[1], next')
            BY <3>1, SoundImage
        <3>3. /\ private' \in {private, Image(c), <<>>} /\ appended' \in {appended, Image(c), <<>>}
              /\ mine' \in {mine, EmptyBag} /\ memory' = c /\ UNCHANGED <<page0, logged, rows>>
              /\ \A o \in Sessions : pc'[o].image \in {pc[o].image, <<>>}
            BY <2>3 DEF Persisted, Denied, Refused, End, Moves, Stays
        <3>. QED
            BY <1>a, <2>1, <3>1, <3>2, <3>3, SoundKept
    <2>. QED
        BY <1>3, <1>12, <2>1, <2>2, <2>3, EffectOfDdl
<1>13. CASE WriteCounter(s)
    <2>1. pc[s].id \in Nat
        BY <1>13 DEF WriteCounter, OwnerInv, At, DrawSteps
    <2>2. /\ DOMAIN Counted(pc[s].name, pc[s].id) = DOMAIN memory
          /\ \A x \in DOMAIN memory : Counted(pc[s].name, pc[s].id)[x].first = memory[x].first
        BY <2>1, CountedFacts DEF TypeInv
    <2>3. memory' \in {memory, Counted(pc[s].name, pc[s].id)}
        BY <1>13 DEF WriteCounter
    <2>4. Sound(memory', next)
        BY <1>1, <2>2, <2>3 DEF Sound
    <2>5. \A o \in Sessions : pc'[o].image \in {pc[o].image, <<>>}
        BY <1>13, Goes DEF WriteCounter, MovesAlone, Moves, Stays, DrawSteps
    <2>6. UNCHANGED <<page0, private, appended, logged, next, rows, mine>>
        BY <1>13 DEF WriteCounter, workspace
    <2>. QED
        BY <2>4, <2>5, <2>6, SoundKept
<1>14. CASE Serialize(s)
    <2>1. /\ \A o \in Sessions : pc'[o].image \in {pc[o].image, Image(memory)}
          /\ private' \in {private, Image(memory)} /\ appended' \in {appended, Image(memory)}
        BY <1>14, EffectOfSerialize DEF MovesAlone, Moves, Stays
    <2>2. UNCHANGED <<memory, page0, logged, next, rows, mine>>
        BY <1>14 DEF Serialize
    <2>3. SoundPage(Image(memory)[1], next)
        BY <1>1, SoundImage DEF TypeInv
    <2>. QED
        BY <1>1, <2>1, <2>2, <2>3, SoundKept
<1>15. CASE Store(s)
    <2>1. \A o \in Sessions : pc'[o].image \in {pc[o].image, <<>>}
        BY <1>15, EffectOfStore DEF MovesAlone, Moves, Stays
    <2>2. /\ UNCHANGED <<memory, private, appended, logged, next, rows, mine>>
          /\ page0' = pc[s].image[1]
        BY <1>15 DEF Store, workspace
    <2>3. SoundPage(page0', next)
        BY <1>15, <2>2 DEF Store, OwnerInv, SoundInv
    <2>. QED
        BY <1>1, <2>1, <2>2, <2>3, SoundKept
<1>16. CASE DrawFails(s)
    <2>1. \A o \in Sessions : pc'[o].image \in {pc[o].image, <<>>}
        BY <1>16, EffectOfDrawFails DEF MovesAlone, Moves, Stays
    <2>2. private' \in {private, Image(memory)} /\ UNCHANGED <<memory, page0, appended, logged, next, rows, mine>>
        BY <1>16, EffectOfDrawFails
    <2>3. SoundPage(Image(memory)[1], next)
        BY <1>1, SoundImage DEF TypeInv
    <2>. QED
        BY <1>1, <2>1, <2>2, <2>3, SoundKept
<1>17. CASE InsertRecord(s)
    <2>. DEFINE row == Row(s)
    <2>1. \A o \in Sessions : pc'[o].image \in {pc[o].image, <<>>}
        BY <1>17, EffectOfInsert DEF MovesAlone, Moves, Stays
    <2>2. UNCHANGED <<memory, page0, private, appended, logged, next>>
        BY <1>17 DEF InsertRecord, workspace
    <2>3. \/ UNCHANGED <<rows, mine>>
          \/ /\ pc[s].name \in DOMAIN memory
             /\ rows' \in {rows, rows (+) SetToBag({row})} /\ mine' \in {mine, mine (+) SetToBag({row})}
        BY <1>17, EffectOnRows DEF Adds
    <2>4. pc[s].name \in DOMAIN memory => row[1] \in Nat /\ row[2] \in Int /\ row[1] < next
        BY <1>1, CatalogFacts DEF Row, Sound, TypeInv, Positions
    <2>. HIDE DEF row
    <2>5. \A B : DOMAIN (B (+) SetToBag({row})) = DOMAIN B \cup {row}
        BY BagFacts DEF (+)
    <2>6. \A r \in (DOMAIN rows \cup DOMAIN mine)' \ (DOMAIN rows \cup DOMAIN mine) :
              r = row /\ pc[s].name \in DOMAIN memory
        BY <2>3, <2>5
    <2>. QED
        BY <1>1, <2>1, <2>2, <2>4, <2>6, SoundKept
<1>. QED
    BY <1>4, <1>5, <1>6, <1>7, <1>8, <1>9, <1>10, <1>11, <1>12, <1>13, <1>14, <1>15, <1>16, <1>17 DEF StepOf

-----------------------------------------------------------------------------
(* No two sessions at work at once.                                        *)

\* What it means that a step of s did not overlap the work of another session.
LEMMA NoOverlap ==
    ASSUME NEW s \in Sessions, Touch(s), ~ overlapped'
    PROVE  /\ ~ overlapped /\ UNCHANGED committed /\ UNCHANGED marred
           /\ \A o \in Sessions \ {s} :
                 /\ pc[o].step \notin DrawSteps /\ pc[o].step # "reload"
                 /\ ~ (owner = o /\ (private # <<>> \/ refused))
<1>1. ~ overlapped /\ ~ \E o \in Sessions \ {s} : Busy(o)
    BY DEF Touch
<1>2. \A o \in Sessions \ {s} : ~ Busy(o)
    BY <1>1
<1>. QED
    BY <1>1, <1>2 DEF Busy, Touch, DrawSteps

\* A step of s that leaves the catalogs of the others alone.
LEMMA OthersUndisturbed ==
    ASSUME TypeInv, OwnerInv, AloneInv, NEW s \in Sessions,
           UNCHANGED memory,
           \A o \in Sessions \ {s} :
               /\ Stays(o) /\ pc'[o].orphan = pc[o].orphan
               /\ (owner' = o <=> owner = o)
               /\ owner = o => explicit' = explicit,
           pc'[s].step \notin DrawSteps,
           UNCHANGED <<private, refused>> \/ (private' = <<>> /\ ~ refused' /\ owner = s),
           page0' = page0 \/ (private # <<>> /\ owner = s),
           pc'[s].step = "reload" => private' = <<>>
    PROVE  AloneInv'
<1>1. \A o \in Sessions : AtWork(o)' => AtWork(o)
    <2>1. private' # <<>> \/ refused' => UNCHANGED <<private, refused>> /\ owner \in Sessions
        BY DEF OwnerInv, TypeInv
    <2>2. AtWork(s)' => AtWork(s)
        BY <2>1 DEF AtWork
    <2>3. \A o \in Sessions \ {s} : AtWork(o)' => AtWork(o)
        BY <2>1 DEF AtWork, Stays
    <2>. QED
        BY <2>2, <2>3
<1>2. \A o \in Sessions : At(o, "reload")' => private' = <<>>
    BY DEF AloneInv, At, Stays
<1>3. ASSUME NEW o \in Sessions PROVE Drawing(o)'
    <2>1. CASE o = s
        BY <2>1 DEF Drawing, At, DrawSteps
    <2>2. CASE o # s /\ pc[o].step \in DrawSteps
        <3>1. ~ (private # <<>> /\ owner = s)
            BY <2>2 DEF AloneInv, AtWork
        <3>2. page0' = page0 /\ (owner # s => private' = private)
            BY <3>1
        <3>3. (InTx(o))' <=> InTx(o)
            BY <2>2 DEF InTx
        <3>4. At(o, "insert") => Written(o)' = Written(o)
            BY <2>2, <3>2, <3>3 DEF Written, InTx
        <3>. QED
            BY <2>2, <3>4 DEF Drawing, At, Stays, AloneInv, Bytes, Size
    <2>3. CASE o # s /\ pc[o].step \notin DrawSteps
        BY <2>3 DEF Drawing, At, DrawSteps, Stays
    <2>. QED
        BY <2>1, <2>2, <2>3
<1>. QED
    BY <1>1, <1>2, <1>3 DEF AloneInv

\* A step of s while no other session is at work.
LEMMA OthersIdle ==
    ASSUME OwnerInv, NEW s \in Sessions, Touch(s), ~ overlapped', NEW step, Moves(s, step),
           step = "reload" => private' = <<>>,
           UNCHANGED owner \/ owner' = None, UNCHANGED <<private, refused>> \/ owner = s, Drawing(s)'
    PROVE  AloneInv'
<1>0. None \notin Sessions
    BY PositionFacts
<1>1. \A o \in Sessions \ {s} :
          /\ pc'[o].step \notin DrawSteps /\ pc'[o].step # "reload"
          /\ ~ (owner' = o /\ (private' # <<>> \/ refused'))
    BY <1>0, NoOverlap DEF Moves, Stays
<1>2. \A o \in Sessions \ {s} : Drawing(o)'
    BY <1>1 DEF Drawing, At, DrawSteps
<1>. QED
    BY <1>1, <1>2 DEF AloneInv, AtWork, At, Moves

LEMMA AloneInit == Init => AloneInv
<1>. SUFFICES ASSUME Init PROVE AloneInv
    OBVIOUS
<1>1. \A s \in Sessions : pc[s].step = "idle"
    BY PositionFacts DEF Init
<1>. QED
    BY <1>1, PositionFacts DEF AloneInv, Drawing, AtWork, At, Init, DrawSteps

LEMMA AloneStep ==
    ASSUME TypeInv, OwnerInv, AloneInv, Next, ~ overlapped'
    PROVE  AloneInv'
<1>1. CASE StartUp
    <2>1. \A s \in Sessions : pc'[s].step \in {"idle", "down"}
        BY <1>1, EffectOfStartUp
    <2>2. private' = <<>> /\ ~ refused'
        BY <1>1 DEF StartUp, End
    <2>. QED
        BY <2>1, <2>2 DEF AloneInv, Drawing, AtWork, At, DrawSteps
<1>. SUFFICES ASSUME NEW s \in Sessions, StepOf(s) PROVE AloneInv'
    BY <1>1, NextCases
<1>2. CASE BeginTx(s)
    <2>1. \A o \in Sessions \ {s} : Stays(o) /\ pc'[o].orphan = pc[o].orphan
        BY <1>2 DEF BeginTx, Stays
    <2>. QED
        BY <1>2, <2>1, PositionFacts, OthersUndisturbed DEF BeginTx, workspace, At, DrawSteps
<1>3. ASSUME CommitOf(s), owner = s, pc'[s].step = "idle",
             \A o \in Sessions \ {s} : Stays(o) /\ pc'[o].orphan = pc[o].orphan
      PROVE  AloneInv'
    BY <1>3, PositionFacts, OthersUndisturbed DEF CommitOf, End, DrawSteps
<1>4. CASE CommitTx(s)
    BY <1>3, <1>4 DEF CommitTx, InTx, At, Stays
<1>5. CASE CommitDdl(s)
    <2>1. MovesAlone(s, "idle") /\ owner = s
        BY <1>5, MovesTo, PositionFacts, ZenonT(60) DEF CommitDdl, OwnerInv, At, DdlSteps
    <2>. QED
        BY <1>3, <1>5, <2>1 DEF CommitDdl, MovesAlone, Moves
<1>6. CASE RollbackTx(s)
    <2>1. MovesAlone(s, "reload")
        BY <1>6, MovesTo, PositionFacts DEF RollbackTx, RollbackOf
    <2>. QED
        BY <1>6, <2>1, PositionFacts, OthersUndisturbed
           DEF RollbackTx, RollbackOf, End, InTx, MovesAlone, Moves, DrawSteps
<1>7. CASE Reload(s)
    <2>1. Moves(s, "idle")
        BY <1>7, EffectOfReload DEF Reload
    <2>2. Drawing(s)'
        BY <2>1 DEF Drawing, At, Moves
    <2>. QED
        BY <1>7, <2>1, <2>2, OthersIdle DEF Reload, workspace
<1>8. CASE ReloadFails(s)
    <2>1. MovesAlone(s, "idle")
        BY <1>8, MovesTo, PositionFacts DEF ReloadFails
    <2>. QED
        BY <1>8, <2>1, OthersUndisturbed DEF ReloadFails, workspace, MovesAlone, Moves, DrawSteps
<1>9. CASE ReloadCatalog(s)
    <2>1. Moves(s, "idle")
        BY <1>9, EffectOfReload DEF ReloadCatalog
    <2>2. Drawing(s)'
        BY <2>1 DEF Drawing, At, Moves
    <2>3. \A o \in Sessions : ~ Busy(o)
        BY <1>9 DEF ReloadCatalog
    <2>4. \A o \in Sessions : pc'[o].step \notin DrawSteps \cup {"reload"}
        BY <2>1, <2>3 DEF Busy, Moves, Stays, DrawSteps
    <2>5. \A o \in Sessions : Drawing(o)'
        BY <2>4 DEF Drawing, At, DrawSteps
    <2>6. \A o \in Sessions : ~ AtWork(o)'
        BY <1>9, <2>3, <2>4 DEF ReloadCatalog, workspace, AtWork, Busy
    <2>. QED
        BY <2>4, <2>5, <2>6 DEF AloneInv, At
<1>10. ASSUME NEW n \in Names, NEW kind \in {"create", "drop"}, StartDdl(s, kind, n) PROVE AloneInv'
    <2>1. /\ MovesAlone(s, kind) /\ owner' = s /\ (owner = None \/ owner = s)
          /\ UNCHANGED <<memory, page0, private, refused, explicit>>
        BY <1>10, EffectOfStartDdl DEF InTx, workspace
    <2>2. \A o \in Sessions \ {s} : owner # o
        BY <2>1, PositionFacts
    <2>. QED
        BY <2>1, <2>2, OthersUndisturbed DEF MovesAlone, Moves, DrawSteps
<1>11. ASSUME NEW n \in Names, StartInsert(s, n) PROVE AloneInv'
    <2>1. /\ MovesAlone(s, "write") /\ pc'[s].name = n /\ pc'[s].id = memory[n].seq + 1
          /\ ~ pc'[s].orphan /\ n \in DOMAIN memory
        BY <1>11, EffectOfStart
    <2>2. UNCHANGED <<memory, owner, private, refused>> /\ Touch(s)
        BY <1>11 DEF StartInsert, workspace
    <2>3. Drawing(s)'
        BY <2>1, <2>2 DEF Drawing, At, MovesAlone, Moves
    <2>. QED
        BY <2>1, <2>2, <2>3, OthersIdle DEF MovesAlone
<1>12. ASSUME NEW n \in Names, NEW id \in GivenIds, StartGiven(s, n, id) PROVE AloneInv'
    <2>1. MovesAlone(s, "given") /\ UNCHANGED <<memory, page0, private, refused, owner, explicit>>
        BY <1>12, EffectOfGiven DEF history
    <2>. QED
        BY <2>1, OthersUndisturbed DEF MovesAlone, Moves, DrawSteps
<1>13. CASE CreateTable(s) \/ DropTable(s)
    <2>1. owner = s
        BY <1>13, EffectOfDdl
    <2>2. CASE Unchanged(s)
        <3>1. CASE explicit
            BY <2>1, <2>2, <3>1, EffectOfFailure, OthersUndisturbed
               DEF Unchanged, workspace, MovesAlone, Moves, DrawSteps
        <3>2. CASE ~ explicit
            BY <2>1, <2>2, <3>2, EffectOfFailure, OthersUndisturbed, PositionFacts
               DEF Unchanged, End, MovesAlone, Moves, DrawSteps
        <3>. QED
            BY <3>1, <3>2
    <2>3. ASSUME NEW c, Persisted(s, c) \/ Denied(s, c) PROVE AloneInv'
        <3>1. Touch(s) /\ (UNCHANGED owner \/ owner' = None)
            BY <2>3 DEF Persisted, Denied, Refused, End
        <3>2. PICK step \in {"idle", "commit", "reload"} : Moves(s, step) /\ (step = "reload" => private' = <<>>)
            BY <2>3 DEF Persisted, Denied, End
        <3>3. Drawing(s)'
            BY <3>2 DEF Drawing, At, Moves
        <3>. QED
            BY <2>1, <3>1, <3>2, <3>3, OthersIdle
    <2>. QED
        BY <1>1, <1>13, <2>2, <2>3, EffectOfDdl
<1>14. CASE WriteCounter(s)
    <2>1. /\ Touch(s) /\ Goto(s, "serialize") /\ UNCHANGED <<private, refused, owner>>
          /\ memory' = IF pc[s].orphan THEN memory ELSE Counted(pc[s].name, pc[s].id)
          /\ pc[s].step = "write"
        BY <1>14 DEF WriteCounter, workspace, At
    <2>2. ~ pc[s].orphan /\ pc[s].name \in DOMAIN memory
        BY <2>1 DEF AloneInv, Drawing, At
    <2>3. pc[s].id \in Nat
        BY <2>1 DEF OwnerInv, DrawSteps
    <2>4. pc[s].name \in DOMAIN memory' /\ memory'[pc[s].name].seq = pc[s].id
        BY <2>1, <2>2, <2>3, CountedFacts DEF TypeInv
    <2>5. MovesAlone(s, "serialize") /\ pc'[s].name = pc[s].name /\ pc'[s].id = pc[s].id
        BY <2>1, Goes DEF DrawSteps
    <2>6. Drawing(s)'
        BY <2>4, <2>5 DEF Drawing, At, MovesAlone, Moves
    <2>. QED
        BY <2>1, <2>5, <2>6, OthersIdle DEF MovesAlone
<1>15. CASE Serialize(s)
    <2>1. Touch(s) /\ UNCHANGED <<memory, page0, owner, explicit, refused>> /\ pc[s].step = "serialize"
        BY <1>15 DEF Serialize, At
    <2>2. /\ Moves(s, IF InTx(s) THEN "insert" ELSE "store")
          /\ pc'[s].name = pc[s].name /\ pc'[s].id = pc[s].id
          /\ InTx(s) => private' = Image(memory) /\ owner = s
          /\ ~ InTx(s) => private' = private /\ pc'[s].image = Image(memory)
        BY <1>15, EffectOfSerialize DEF MovesAlone, InTx
    <2>3. pc[s].name \in DOMAIN memory /\ memory[pc[s].name].seq = pc[s].id
        BY <2>1 DEF AloneInv, Drawing
    <2>4. InTx(s)' <=> InTx(s)
        BY <2>1 DEF InTx
    <2>5. Image(memory)[1] = Bytes(memory) /\ Bytes(memory)' = Bytes(memory)
        BY <2>1 DEF Image, Bytes, Size
    <2>6. Drawing(s)'
        BY <2>1, <2>2, <2>3, <2>4, <2>5 DEF Drawing, At, Moves, Written
    <2>. QED
        BY <2>1, <2>2, <2>6, OthersIdle
<1>16. CASE Store(s)
    <2>1. /\ UNCHANGED <<memory, private, refused, owner, explicit, committed, replayed, given>>
          /\ pc[s].step = "store" /\ page0' = pc[s].image[1]
          /\ overlapped' = (overlapped \/ \E o \in Sessions \ {s} : Busy(o))
        BY <1>16 DEF Store, workspace, At
    <2>2. MovesAlone(s, "insert") /\ pc'[s].name = pc[s].name /\ pc'[s].id = pc[s].id
        BY <1>16, EffectOfStore
    <2>3. /\ pc[s].name \in DOMAIN memory /\ memory[pc[s].name].seq = pc[s].id
          /\ pc[s].image[1] = Bytes(memory)
        BY <2>1 DEF AloneInv, Drawing, At
    <2>4. ~ InTx(s)' /\ Bytes(memory)' = Bytes(memory)
        BY <2>1 DEF InTx, OwnerInv, At, Bytes, Size
    <2>5. Drawing(s)'
        BY <2>1, <2>2, <2>3, <2>4 DEF Drawing, At, MovesAlone, Moves, Written
    <2>6. \A o \in Sessions \ {s} : ~ Busy(o)
        BY <2>1
    <2>7. \A o \in Sessions \ {s} :
              /\ pc'[o].step \notin DrawSteps /\ pc'[o].step # "reload"
              /\ ~ (owner' = o /\ (private' # <<>> \/ refused'))
        BY <2>1, <2>2, <2>6 DEF Busy, DrawSteps, MovesAlone, Moves, Stays
    <2>8. \A o \in Sessions \ {s} : Drawing(o)'
        BY <2>7 DEF Drawing, At, DrawSteps
    <2>. QED
        BY <2>2, <2>5, <2>7, <2>8 DEF AloneInv, AtWork, At, MovesAlone, Moves
<1>17. CASE DrawFails(s)
    <2>1. /\ Moves(s, "idle") /\ Touch(s) /\ UNCHANGED owner
          /\ UNCHANGED <<private, refused>> \/ owner = s
        BY <1>17, EffectOfDrawFails DEF MovesAlone, InTx
    <2>2. Drawing(s)'
        BY <2>1 DEF Drawing, At, Moves
    <2>. QED
        BY <2>1, <2>2, OthersIdle
<1>18. CASE InsertRecord(s)
    <2>1. UNCHANGED <<memory, page0, private, refused, owner, explicit>>
        BY <1>18 DEF InsertRecord, workspace
    <2>2. MovesAlone(s, "idle") \/ (MovesAlone(s, "reload") /\ owner = None)
        BY <1>18, EffectOfInsert
    <2>. QED
        BY <2>1, <2>2, OthersUndisturbed DEF MovesAlone, Moves, DrawSteps, OwnerInv
<1>. QED
    BY <1>2, <1>4, <1>5, <1>6, <1>7, <1>8, <1>9, <1>10, <1>11, <1>12, <1>13, <1>14, <1>15, <1>16, <1>17, <1>18
       DEF StepOf

-----------------------------------------------------------------------------
(* Tables.                                                                 *)

LEMMA TablesInit == Init => TablesInv
<1>1. Tables(<<>>) = <<>>
    BY CatalogFacts DEF Tables
<1>2. Cut # <<>>
    BY CatalogFacts DEF Cut
<1>. QED
    BY <1>1, <1>2 DEF TablesInv, Recovered, Current, Init

\* A step of s that changes no catalog and lets go of what it has written,
\* if anything, only to reload.
LEMMA TablesUndisturbed ==
    ASSUME TablesInv, NEW s \in Sessions, pc[s].step # "reload",
           UNCHANGED <<memory, page0, logged, committed>>,
           \A o \in Sessions \ {s} : Stays(o),
           pc'[s].step = "reload" \/ UNCHANGED <<private, refused>>
    PROVE  TablesInv'
<1>1. Settled' => UNCHANGED <<private, refused>> /\ Settled
    BY DEF Settled, At, Stays
<1>. QED
    BY <1>1 DEF TablesInv, Recovered, Current

LEMMA TablesStep ==
    ASSUME TypeInv, OwnerInv, AloneInv, TablesInv, Next, ~ overlapped', ~ marred'
    PROVE  TablesInv'
<1>0. Tables(<<>>) = <<>>
    BY CatalogFacts DEF Tables
<1>1. CASE StartUp
    <2>1. /\ memory' = Recovered /\ page0' = Recovered /\ private' = <<>> /\ logged' = <<>>
          /\ committed' = committed
        BY <1>1 DEF StartUp, End, TablesInv
    <2>2. Tables(Recovered) = committed /\ Recovered # Cut
        BY DEF TablesInv
    <2>3. Recovered' = page0'
        BY <2>1 DEF Recovered
    <2>. HIDE DEF Recovered
    <2>. QED
        BY <2>1, <2>2, <2>3 DEF TablesInv, Current
<1>. SUFFICES ASSUME NEW s \in Sessions, StepOf(s) PROVE TablesInv'
    BY <1>1, NextCases
<1>2. CASE BeginTx(s)
    BY <1>2, TablesUndisturbed DEF BeginTx, workspace, At, Stays
<1>3. ASSUME CommitOf(s), pc[s].step # "reload", \A o \in Sessions \ {s} : Stays(o) PROVE TablesInv'
    <2>1. /\ page0' = IF private = <<>> THEN page0 ELSE private[1]
          /\ logged' = IF appended = <<>> THEN logged ELSE appended
          /\ committed' = IF private \in {<<>>, <<Cut>>} THEN committed ELSE Tables(private[1])
          /\ marred' = (marred \/ refused \/ page0' = Cut)
          /\ private' = <<>> /\ ~ refused' /\ memory' = memory
        BY <1>3 DEF CommitOf, End
    <2>2. page0' # Cut /\ ~ refused
        BY <2>1
    <2>3. appended = private
        BY <2>2 DEF OwnerInv
    <2>4. private # <<Cut>>
        BY <2>1, <2>2
    <2>5. /\ page0' # Cut /\ Recovered' # Cut
          /\ Tables(page0') = committed' /\ Tables(Recovered)' = committed'
        BY <2>1, <2>2, <2>3, <2>4 DEF TablesInv, Recovered
    <2>6. Settled' => Settled
        BY <1>3, <2>2, <2>4 DEF Settled, At, Stays
    <2>7. Current' = Current
        BY <2>1, <2>4 DEF Current
    <2>. QED
        BY <2>1, <2>5, <2>6, <2>7 DEF TablesInv
<1>4. CASE CommitTx(s)
    BY <1>3, <1>4 DEF CommitTx, At, Stays
<1>5. CASE CommitDdl(s)
    <2>1. MovesAlone(s, "idle")
        BY <1>5, MovesTo, PositionFacts DEF CommitDdl
    <2>. QED
        BY <1>3, <1>5, <2>1 DEF CommitDdl, MovesAlone, Moves, At
<1>6. CASE RollbackTx(s)
    <2>1. MovesAlone(s, "reload")
        BY <1>6, MovesTo, PositionFacts DEF RollbackTx, RollbackOf
    <2>. QED
        BY <1>6, <2>1, TablesUndisturbed DEF RollbackTx, RollbackOf, MovesAlone, Moves, At
<1>7. CASE Reload(s)
    <2>1. memory' = page0 /\ UNCHANGED <<page0, logged, private, committed>>
        BY <1>7, EffectOfReload DEF Reload, Touch, workspace
    <2>2. private = <<>>
        BY <1>7 DEF Reload, AloneInv
    <2>. QED
        BY <2>1, <2>2 DEF TablesInv, Recovered, Current
<1>8. CASE ReloadFails(s)
    BY <1>8 DEF ReloadFails
<1>9. CASE ReloadCatalog(s)
    <2>1. memory' = page0 /\ UNCHANGED <<page0, logged, private, committed>>
        BY <1>9, EffectOfReload DEF ReloadCatalog, workspace
    <2>2. \A o \in Sessions : ~ (owner = o /\ private # <<>>)
        BY <1>9 DEF ReloadCatalog, Busy
    <2>3. private = <<>>
        BY <2>2 DEF OwnerInv, TypeInv
    <2>. QED
        BY <2>1, <2>3 DEF TablesInv, Recovered, Current
<1>10. ASSUME NEW n \in Names, NEW kind \in {"create", "drop"}, StartDdl(s, kind, n) PROVE TablesInv'
    BY <1>10, EffectOfStartDdl, TablesUndisturbed DEF MovesAlone, Moves, At, workspace
<1>11. ASSUME NEW n \in Names, StartInsert(s, n) PROVE TablesInv'
    <2>1. Moves(s, "write")
        BY <1>11, EffectOfStart DEF MovesAlone
    <2>2. UNCHANGED <<memory, page0, logged, private, refused, committed>> /\ pc[s].step = "idle"
        BY <1>11 DEF StartInsert, Touch, At, workspace
    <2>. QED
        BY <2>1, <2>2, TablesUndisturbed DEF Moves
<1>12. ASSUME NEW n \in Names, NEW id \in GivenIds, StartGiven(s, n, id) PROVE TablesInv'
    <2>1. /\ Moves(s, "given") /\ pc[s].step = "idle"
          /\ UNCHANGED <<memory, page0, logged, private, refused, committed>>
        BY <1>12, EffectOfGiven DEF MovesAlone, history, At
    <2>. QED
        BY <2>1, TablesUndisturbed DEF Moves
<1>13. CASE CreateTable(s) \/ DropTable(s)
    <2>1. owner = s /\ pc[s].step # "reload"
        BY <1>13, EffectOfDdl
    <2>2. CASE Unchanged(s)
        <3>1. /\ \A o \in Sessions \ {s} : Stays(o)
              /\ pc'[s].step = "reload" \/ UNCHANGED <<private, refused>>
              /\ UNCHANGED <<memory, page0, logged, committed>>
            BY <2>2, EffectOfFailure DEF Unchanged, MovesAlone, Moves, workspace
        <3>. QED
            BY <2>1, <3>1, TablesUndisturbed
    <2>3. ASSUME NEW c, Sane(c), Persisted(s, c) \/ Denied(s, c) PROVE TablesInv'
        <3>1. Touch(s) /\ UNCHANGED <<page0, logged>> /\ memory' = c
            BY <2>3 DEF Persisted, Denied
        <3>2. UNCHANGED committed
            BY <3>1 DEF Touch
        <3>3. Settled' => Tables(memory') = Current'
            <4>1. CASE Persisted(s, c)
                <5>1. private' = <<Bytes(c)>> /\ (Bytes(c) # Cut => Bytes(c) = c)
                    BY <2>3, <4>1, ImageFacts DEF Persisted, Image, Sane
                <5>. QED
                    BY <3>1, <5>1 DEF Settled, Current
            <4>2. CASE Denied(s, c)
                <5>1. refused' \/ At(s, "reload")'
                    BY <4>2 DEF Denied, Refused, Moves, At
                <5>. QED
                    BY <5>1 DEF Settled
            <4>. QED
                BY <2>3, <4>1, <4>2
        <3>. QED
            BY <3>1, <3>2, <3>3 DEF TablesInv, Recovered
    <2>. QED
        BY <1>1, <1>13, <2>2, <2>3, EffectOfDdl
\* A step of an INSERT that leaves the tables as they are.
<1>14. ASSUME Tables(memory') = Tables(memory), UNCHANGED <<page0, logged, committed>>,
              \A o \in Sessions \ {s} : Stays(o), pc[s].step \in DrawSteps, refused' \/ UNCHANGED <<private, refused>>
       PROVE  TablesInv'
    <2>1. Settled' => Settled /\ private' = private
        BY <1>14 DEF Settled, At, Stays, DrawSteps
    <2>. QED
        BY <1>14, <2>1 DEF TablesInv, Recovered, Current
<1>15. CASE WriteCounter(s)
    <2>1. /\ UNCHANGED <<private, refused, page0, logged, committed>> /\ pc[s].step \in DrawSteps
        BY <1>15 DEF WriteCounter, workspace, Touch, At, DrawSteps
    <2>2. pc[s].id \in Nat
        BY <2>1 DEF OwnerInv
    <2>3. Tables(memory') = Tables(memory)
        BY <1>15, <2>2, CountedFacts DEF WriteCounter, TypeInv
    <2>4. \A o \in Sessions \ {s} : Stays(o)
        BY <1>15, Goes DEF WriteCounter, MovesAlone, Moves, DrawSteps
    <2>. QED
        BY <1>14, <2>1, <2>3, <2>4
<1>16. CASE DrawFails(s)
    <2>1. /\ UNCHANGED <<memory, page0, logged>> /\ pc[s].step \in DrawSteps /\ Touch(s)
          /\ refused' \/ UNCHANGED <<private, refused>>
          /\ \A o \in Sessions \ {s} : Stays(o)
        BY <1>16, EffectOfDrawFails DEF MovesAlone, Moves
    <2>. QED
        BY <1>14, <2>1 DEF Touch
<1>17. CASE Serialize(s)
    <2>1. UNCHANGED <<memory, page0, logged, refused, committed>> /\ pc[s].step \in DrawSteps
        BY <1>17 DEF Serialize, At, DrawSteps, Touch
    <2>2. \A o \in Sessions \ {s} : Stays(o)
        BY <1>17, EffectOfSerialize DEF MovesAlone, Moves
    <2>3. CASE ~ InTx(s)
        BY <1>14, <1>17, <2>1, <2>2, <2>3, EffectOfSerialize
    <2>4. CASE InTx(s)
        <3>1. private' = <<Bytes(memory)>> /\ (Bytes(memory) # Cut => Bytes(memory) = memory)
            BY <1>17, <2>4, EffectOfSerialize, ImageFacts DEF Image, TypeInv
        <3>2. Settled' => Tables(memory') = Current'
            BY <2>1, <3>1 DEF Settled, Current
        <3>. QED
            BY <2>1, <3>2 DEF TablesInv, Recovered
    <2>. QED
        BY <2>3, <2>4
\* Page 0 is written past the log when no session has yet to reload and no
\* transaction has written anything.
<1>18. CASE Store(s)
    <2>1. /\ UNCHANGED <<memory, private, refused, logged, committed>> /\ pc[s].step = "store"
          /\ page0' = pc[s].image[1] /\ marred' = (marred \/ page0' = Cut)
          /\ overlapped' = (overlapped \/ \E o \in Sessions \ {s} : Busy(o))
        BY <1>18 DEF Store, workspace, At
    <2>2. page0' # Cut /\ page0' = Bytes(memory)
        BY <2>1 DEF AloneInv, Drawing, At
    <2>3. page0' = memory
        BY <2>2, ImageFacts DEF TypeInv
    <2>4. owner # s
        BY <2>1 DEF OwnerInv, InTx, At, DdlSteps
    <2>5. \A o \in Sessions \ {s} : pc[o].step # "reload" /\ ~ (owner = o /\ (private # <<>> \/ refused))
        BY <2>1 DEF Busy
    <2>6. private = <<>> /\ ~ refused
        BY <2>4, <2>5 DEF OwnerInv, TypeInv
    <2>7. \A o \in Sessions : ~ At(o, "reload")
        BY <2>1, <2>5 DEF At
    <2>8. Tables(memory) = committed
        BY <2>6, <2>7 DEF TablesInv, Settled, Current
    <2>. QED
        BY <2>1, <2>2, <2>3, <2>6, <2>8 DEF TablesInv, Recovered, Current
<1>19. CASE InsertRecord(s)
    <2>1. UNCHANGED <<memory, page0, logged, private, refused, committed>> /\ pc[s].step # "reload"
        BY <1>19 DEF InsertRecord, workspace, At
    <2>2. \A o \in Sessions \ {s} : Stays(o)
        BY <1>19, EffectOfInsert DEF MovesAlone, Moves
    <2>. QED
        BY <2>1, <2>2, TablesUndisturbed
<1>. QED
    BY <1>2, <1>4, <1>5, <1>6, <1>7, <1>8, <1>9, <1>10, <1>11, <1>12, <1>13, <1>15, <1>16, <1>17, <1>18, <1>19
       DEF StepOf

-----------------------------------------------------------------------------
(* Counters.                                                               *)

LEMMA AheadInit == Init => AheadInv
BY CatalogFacts DEF Init, AheadInv, Ahead, AheadPage

\* A step that leaves no catalog but those there were, and no more rows.
LEMMA AheadKept ==
    ASSUME AheadInv,
           \/ memory' = memory
           \/ memory' = page0 /\ page0 # Cut /\ DOMAIN mine' \subseteq given
           \/ memory' = <<>>,
           UNCHANGED <<page0, rows, given>>, private' \in {private, <<>>},
           DOMAIN mine' \subseteq DOMAIN mine
    PROVE  AheadInv'
<1>1. Drawn' \subseteq Drawn /\ (DOMAIN rows \ given)' = DOMAIN rows \ given
    BY DEF Drawn
<1>2. Ahead(memory', Drawn')
    <2>1. CASE memory' = memory
        BY <1>1, <2>1 DEF AheadInv, Ahead
    <2>2. CASE memory' = page0 /\ page0 # Cut /\ DOMAIN mine' \subseteq given
        <3>1. Drawn' \subseteq DOMAIN rows \ given
            BY <2>2 DEF Drawn
        <3>. QED
            BY <2>2, <3>1 DEF AheadInv, AheadPage, Ahead
    <2>3. CASE memory' = <<>>
        BY <2>3, CatalogFacts DEF Ahead
    <2>. QED
        BY <2>1, <2>2, <2>3
<1>3. private' # <<>> => AheadPage(private'[1], Drawn')
    BY <1>1 DEF AheadInv, AheadPage, Ahead
<1>. QED
    BY <1>1, <1>2, <1>3 DEF AheadInv, AheadPage

\* The image of a catalog is as far ahead as it is.
LEMMA AheadImage ==
    ASSUME NEW c \in Catalogs, NEW R, Ahead(c, R)
    PROVE  AheadPage(Image(c)[1], R) /\ AheadPage(Bytes(c), R)
BY ImageFacts DEF AheadPage

\* A step that changes memory and, if anything, the private page 0 with it.
LEMMA AheadChanged ==
    ASSUME AheadInv, memory' \in Catalogs, Ahead(memory', Drawn),
           UNCHANGED <<page0, rows, given>>, private' \in {private, Image(memory'), <<>>},
           DOMAIN mine' \subseteq DOMAIN mine
    PROVE  AheadInv'
<1>1. Drawn' \subseteq Drawn
    BY DEF Drawn
<1>2. Ahead(memory', Drawn')
    BY <1>1 DEF Ahead
<1>3. Image(memory') # <<>> /\ AheadPage(Image(memory')[1], Drawn')
    BY <1>2, AheadImage, ImageFacts
<1>4. private # <<>> => AheadPage(private[1], Drawn')
    BY <1>1 DEF AheadInv, AheadPage, Ahead
<1>5. private' # <<>> => AheadPage(private'[1], Drawn')
    BY <1>3, <1>4
<1>. QED
    BY <1>2, <1>5 DEF AheadInv

LEMMA AheadStep ==
    ASSUME TypeInv, OwnerInv, SoundInv, AloneInv, AheadInv, Next, ~ overlapped', ~ replayed'
    PROVE  AheadInv'
<1>0. DOMAIN EmptyBag = {} /\ DOMAIN (rows (+) mine) = DOMAIN rows \cup DOMAIN mine
    BY BagFacts DEF (+)
<1>1. CASE StartUp
    <2>1. /\ memory' = <<>> \/ (memory' = page0 /\ page0 # Cut)
          /\ page0' = page0 /\ private' = <<>> /\ mine' = EmptyBag
          /\ UNCHANGED <<rows, given>>
        BY <1>1 DEF StartUp, End
    <2>. QED
        BY <1>0, <2>1, AheadKept
<1>. SUFFICES ASSUME NEW s \in Sessions, StepOf(s) PROVE AheadInv'
    BY <1>1, NextCases
<1>2. CASE BeginTx(s)
    BY <1>2, AheadKept DEF BeginTx, workspace
<1>3. CASE CommitTx(s) \/ CommitDdl(s)
    <2>1. /\ page0' = IF private = <<>> THEN page0 ELSE private[1]
          /\ rows' = rows (+) mine /\ private' = <<>> /\ mine' = EmptyBag /\ UNCHANGED <<memory, given>>
        BY <1>3 DEF CommitTx, CommitDdl, CommitOf, End
    <2>2. Drawn' = Drawn /\ (DOMAIN rows \ given)' = Drawn
        BY <1>0, <2>1 DEF Drawn
    <2>3. private = <<>> => Drawn = DOMAIN rows \ given
        BY DEF OwnerInv, Drawn
    <2>4. AheadPage(page0', Drawn)
        BY <2>1, <2>3 DEF AheadInv
    <2>. QED
        BY <2>1, <2>2, <2>4 DEF AheadInv
<1>4. CASE RollbackTx(s)
    BY <1>0, <1>4, AheadKept DEF RollbackTx, RollbackOf, End
<1>5. CASE Reload(s) \/ ReloadCatalog(s)
    <2>1. memory' = page0 /\ page0 # Cut /\ UNCHANGED <<page0, private, rows, mine, given>>
        BY <1>5, EffectOfReload DEF Reload, ReloadCatalog, workspace, Touch
    <2>2. private = <<>>
        <3>1. CASE Reload(s)
            BY <3>1 DEF Reload, AloneInv
        <3>2. CASE ReloadCatalog(s)
            <4>1. \A o \in Sessions : ~ (owner = o /\ private # <<>>)
                BY <3>2 DEF ReloadCatalog, Busy
            <4>. QED
                BY <4>1 DEF OwnerInv, TypeInv
        <3>. QED
            BY <1>5, <3>1, <3>2
    <2>3. DOMAIN mine \subseteq given
        BY <2>2 DEF OwnerInv
    <2>. QED
        BY <2>1, <2>3, AheadKept
<1>6. CASE ReloadFails(s)
    BY <1>6, AheadKept DEF ReloadFails, workspace
<1>7. ASSUME NEW n \in Names, NEW kind \in {"create", "drop"}, StartDdl(s, kind, n) PROVE AheadInv'
    BY <1>7, AheadKept DEF StartDdl, workspace
<1>8. ASSUME NEW n \in Names, StartInsert(s, n) PROVE AheadInv'
    BY <1>8, AheadKept DEF StartInsert, workspace, Touch
<1>9. ASSUME NEW n \in Names, NEW id \in GivenIds, StartGiven(s, n, id) PROVE AheadInv'
    BY <1>9, AheadKept DEF StartGiven, history
<1>10. CASE CreateTable(s) \/ DropTable(s)
    <2>1. CASE Unchanged(s)
        <3>1. /\ private' \in {private, <<>>} /\ mine' \in {mine, EmptyBag}
              /\ UNCHANGED <<memory, page0, rows, given>>
            BY <2>1 DEF Unchanged, FailDdl, workspace, End
        <3>. QED
            BY <1>0, <3>1, AheadKept
    <2>2. ASSUME NEW c, Sane(c), Persisted(s, c) \/ Denied(s, c) PROVE AheadInv'
        <3>1. /\ private' \in {private, Image(c), <<>>} /\ mine' \in {mine, EmptyBag}
              /\ memory' = c /\ UNCHANGED <<page0, rows, given>>
            BY <2>2 DEF Persisted, Denied, Refused, End, Touch
        <3>2. c \in Catalogs /\ Ahead(c, Drawn)
            BY <2>2 DEF Sane, AheadInv
        <3>. QED
            BY <1>0, <3>1, <3>2, AheadChanged
    <2>. QED
        BY <1>1, <1>10, <2>1, <2>2, EffectOfDdl
<1>11. CASE WriteCounter(s)
    <2>. DEFINE n == pc[s].name
    <2>1. UNCHANGED <<page0, private, rows, mine, given>> /\ At(s, "write")
        BY <1>11 DEF WriteCounter, workspace, Touch
    <2>2. /\ ~ pc[s].orphan /\ n \in DOMAIN memory /\ pc[s].id = memory[n].seq + 1
          /\ pc[s].id \in Nat
        BY <2>1 DEF AloneInv, Drawing, OwnerInv, At, DrawSteps
    <2>3. memory' = Counted(n, pc[s].id)
        BY <1>11, <2>2 DEF WriteCounter
    <2>4. /\ DOMAIN memory' = DOMAIN memory /\ memory' \in Catalogs
          /\ \A x \in DOMAIN memory : memory'[x].first = memory[x].first /\ (x # n => memory'[x] = memory[x])
          /\ memory'[n].seq = memory[n].seq + 1
        BY <2>2, <2>3, CountedFacts DEF TypeInv
    <2>5. \A x \in DOMAIN memory : memory[x].seq \in Nat
        BY CatalogFacts DEF TypeInv
    <2>6. \A r \in Drawn : r[2] \in Int
        BY DEF SoundInv, Drawn
    <2>. HIDE DEF n
    <2>7. \A x \in DOMAIN memory : memory[x].seq <= memory'[x].seq /\ memory'[x].seq \in Nat
        BY <2>2, <2>4, <2>5
    <2>8. Ahead(memory', Drawn)
        BY <2>4, <2>5, <2>6, <2>7 DEF AheadInv, Ahead
    <2>. QED
        BY <2>1, <2>4, <2>8, AheadChanged
<1>12. CASE Serialize(s) \/ DrawFails(s)
    <2>1. private' \in {private, Image(memory)}
        BY <1>12, EffectOfSerialize, EffectOfDrawFails
    <2>2. UNCHANGED <<memory, page0, rows, mine, given>>
        BY <1>12, EffectOfDrawFails DEF Serialize, Touch
    <2>3. memory \in Catalogs /\ Ahead(memory, Drawn)
        BY DEF TypeInv, AheadInv
    <2>. QED
        BY <2>1, <2>2, <2>3, AheadChanged
<1>13. CASE Store(s)
    <2>1. UNCHANGED <<memory, private, rows, mine, given>> /\ At(s, "store") /\ page0' = pc[s].image[1]
        BY <1>13 DEF Store, workspace
    <2>2. page0' = Bytes(memory)
        BY <2>1 DEF AloneInv, Drawing
    <2>3. Ahead(memory, DOMAIN rows \ given)
        BY DEF AheadInv, Ahead, Drawn
    <2>4. AheadPage(page0', DOMAIN rows \ given)
        BY <2>2, <2>3, AheadImage DEF TypeInv
    <2>. QED
        BY <2>1, <2>4 DEF AheadInv, Drawn
<1>14. CASE InsertRecord(s)
    <2>1. /\ UNCHANGED <<memory, page0, private>> /\ (owner = None \/ InTx(s))
          /\ At(s, "insert") \/ At(s, "given")
        BY <1>14 DEF InsertRecord, workspace
    <2>2. CASE UNCHANGED <<rows, mine, given>>
        BY <2>1, <2>2 DEF AheadInv, Drawn
    <2>. DEFINE row == Row(s)
    <2>3. \A B : DOMAIN (B (+) SetToBag({row})) = DOMAIN B \cup {row}
        BY BagFacts DEF (+)
    <2>4. ASSUME Adds(s)
          PROVE  /\ DOMAIN rows' \cup DOMAIN mine' = DOMAIN rows \cup DOMAIN mine \cup {row}
                 /\ row \notin DOMAIN rows \cup DOMAIN mine
                 /\ IF InTx(s) THEN DOMAIN rows' = DOMAIN rows ELSE DOMAIN rows' = DOMAIN rows \cup {row}
                 /\ given' = IF At(s, "given") THEN given \cup {row} ELSE given \ {row}
        BY <2>3, <2>4 DEF Adds
    <2>. HIDE DEF row
    <2>5. CASE Adds(s) /\ At(s, "given")
        <3>1. Drawn' \subseteq Drawn /\ (DOMAIN rows \ given)' \subseteq DOMAIN rows \ given
            BY <2>4, <2>5 DEF Drawn
        <3>. QED
            BY <2>1, <3>1 DEF AheadInv, AheadPage, Ahead
    <2>6. CASE Adds(s) /\ ~ At(s, "given")
        <3>1. At(s, "insert")
            BY <2>1, <2>6
        <3>2. /\ pc[s].name \in DOMAIN memory /\ memory[pc[s].name].seq = pc[s].id
              /\ Written(s) = Bytes(memory)
            BY <3>1 DEF AloneInv, Drawing, At
        <3>3. Ahead(memory, {row})
            <4>1. /\ \A m \in DOMAIN memory : memory[m].first = memory[pc[s].name].first => m = pc[s].name
                  /\ memory[pc[s].name].seq \in Nat
                BY <3>2, CatalogFacts DEF SoundInv, Sound, TypeInv
            <4>2. row[1] = memory[pc[s].name].first /\ row[2] = memory[pc[s].name].seq
                BY <3>2 DEF row, Row
            <4>. QED
                BY <4>1, <4>2 DEF Ahead
        <3>4. Drawn' \subseteq Drawn \cup {row} /\ (DOMAIN rows \ given)' \subseteq Drawn \cup {row}
            BY <2>4, <2>6 DEF Drawn
        <3>5. Ahead(memory, Drawn \cup {row})
            BY <3>3 DEF AheadInv, Ahead
        <3>6. Ahead(memory, Drawn') /\ Ahead(memory, (DOMAIN rows \ given)')
            BY <3>4, <3>5 DEF Ahead
        <3>7. AheadPage(Bytes(memory), Drawn') /\ AheadPage(Bytes(memory), (DOMAIN rows \ given)')
            BY <3>6, AheadImage DEF TypeInv
        <3>8. CASE InTx(s)
            <4>1. private[1] = Bytes(memory)
                BY <3>2, <3>8 DEF Written
            <4>2. (DOMAIN rows \ given)' \subseteq DOMAIN rows \ given
                BY <2>4, <2>6, <3>8
            <4>3. AheadPage(page0, (DOMAIN rows \ given)')
                BY <4>2 DEF AheadInv, AheadPage, Ahead
            <4>. QED
                BY <2>1, <3>6, <3>7, <4>1, <4>3 DEF AheadInv
        <3>9. CASE ~ InTx(s)
            <4>1. page0 = Bytes(memory) /\ private = <<>>
                BY <2>1, <3>2, <3>9 DEF Written, OwnerInv
            <4>. QED
                BY <2>1, <3>6, <3>7, <4>1 DEF AheadInv
        <3>. QED
            BY <3>8, <3>9
    <2>. QED
        BY <1>14, <2>2, <2>5, <2>6, EffectOnRows
<1>. QED
    BY <1>2, <1>3, <1>4, <1>5, <1>6, <1>7, <1>8, <1>9, <1>10, <1>11, <1>12, <1>13, <1>14 DEF StepOf

-----------------------------------------------------------------------------
(* The theorems.                                                           *)

\* The history only grows.
Grows == (overlapped => overlapped') /\ (replayed => replayed') /\ (marred => marred')

LEMMA HistoryGrows == TypeInv /\ OwnerInv /\ Next => Grows
<1>. SUFFICES ASSUME TypeInv, OwnerInv, Next PROVE Grows
    OBVIOUS
<1>1. CASE StartUp
    BY <1>1 DEF StartUp, Grows
<1>2. ASSUME NEW s \in Sessions, Touch(s) PROVE Grows
    BY <1>2 DEF Touch, Grows
<1>3. ASSUME NEW s \in Sessions, StepOf(s) PROVE Grows
    <2>1. CASE CreateTable(s) \/ DropTable(s)
        <3>1. CASE Unchanged(s)
            BY <3>1 DEF Unchanged, Grows
        <3>2. ASSUME NEW c, Persisted(s, c) \/ Denied(s, c) PROVE Grows
            <4>. Touch(s)
                BY <3>2 DEF Persisted, Denied
            <4>. QED
                BY <1>2
        <3>. QED
            BY <1>1, <2>1, <3>1, <3>2, EffectOfDdl
    <2>2. CASE CommitTx(s) \/ CommitDdl(s)
        <3>1. CommitOf(s)
            BY <2>2 DEF CommitTx, CommitDdl
        <3>. QED
            BY <3>1 DEF CommitOf, Grows
    <2>3. CASE Reload(s) \/ WriteCounter(s) \/ Serialize(s) \/ DrawFails(s)
        <3>1. Touch(s)
            BY <2>3 DEF Reload, WriteCounter, Serialize, DrawFails
        <3>. QED
            BY <1>2, <3>1
    <2>4. ASSUME NEW n \in Names, NEW id \in GivenIds, StartGiven(s, n, id) PROVE Grows
        BY <2>4 DEF StartGiven, history, Grows
    <2>5. ASSUME NEW n \in Names, StartInsert(s, n) PROVE Grows
        <3>1. Touch(s)
            BY <2>5 DEF StartInsert
        <3>. QED
            BY <1>2, <3>1
    <2>6. ASSUME NEW n \in Names, NEW kind \in {"create", "drop"}, StartDdl(s, kind, n) PROVE Grows
        BY <2>6 DEF StartDdl, Grows
    <2>7. CASE BeginTx(s) \/ RollbackTx(s)
        BY <2>7 DEF BeginTx, RollbackTx, RollbackOf, Grows
    <2>8. CASE ReloadFails(s)
        BY <2>8 DEF ReloadFails, Grows
    <2>9. CASE ReloadCatalog(s)
        BY <2>9 DEF ReloadCatalog, Grows
    <2>10. CASE Store(s)
        BY <2>10 DEF Store, Grows
    <2>11. CASE InsertRecord(s)
        BY <2>11 DEF InsertRecord, Grows
    <2>. QED
        BY <1>3, <2>1, <2>2, <2>3, <2>4, <2>5, <2>6, <2>7, <2>8, <2>9, <2>10, <2>11 DEF StepOf
<1>. QED
    BY <1>1, <1>3, NextCases

LEMMA CatalogInvInit == Init => CatalogInv
BY TypeInit, OwnerInit, RowsInit, SoundInit, AloneInit, TablesInit, AheadInit DEF CatalogInv

LEMMA CatalogInvStep == CatalogInv /\ [Next]_vars => CatalogInv'
<1>. SUFFICES ASSUME CatalogInv, [Next]_vars PROVE CatalogInv'
    OBVIOUS
<1>1. (TypeInv /\ OwnerInv /\ RowsInv /\ SoundInv)'
    BY TypeStep, OwnerStep, RowsStep, SoundStep DEF CatalogInv
<1>2. CASE UNCHANGED vars
    <2>1. ~ overlapped' => AloneInv'
        BY <1>2 DEF CatalogInv, vars, AloneInv, AtWork, At, Drawing, Written, InTx, Bytes, Size
    <2>2. ~ overlapped' /\ ~ marred' => TablesInv'
        BY <1>2 DEF CatalogInv, vars, TablesInv, Settled, At, Recovered, Current
    <2>3. ~ overlapped' /\ ~ replayed' => AheadInv'
        BY <1>2 DEF CatalogInv, vars, AheadInv, Drawn
    <2>. QED
        BY <1>1, <2>1, <2>2, <2>3 DEF CatalogInv
<1>3. CASE Next
    <2>0. Grows
        BY <1>3, HistoryGrows DEF CatalogInv
    <2>1. ~ overlapped' => AloneInv'
        BY <1>3, <2>0, AloneStep DEF CatalogInv, Grows
    <2>2. ~ overlapped' /\ ~ marred' => TablesInv'
        BY <1>3, <2>0, TablesStep DEF CatalogInv, Grows
    <2>3. ~ overlapped' /\ ~ replayed' => AheadInv'
        BY <1>3, <2>0, AheadStep DEF CatalogInv, Grows
    <2>. QED
        BY <1>1, <2>1, <2>2, <2>3 DEF CatalogInv
<1>. QED
    BY <1>2, <1>3

\* The inductive invariant holds.
THEOREM CatalogInvAlways == Spec => []CatalogInv
BY CatalogInvInit, CatalogInvStep, PTL DEF Spec

\* Whatever sessions draw at once, whatever ids INSERTs name, and whatever is
\* rolled back, reloaded or restarted in between, InsertRecord adds no id
\* twice to one table.
THEOREM IdsStayUnique == Spec => []IdsAreUnique
<1>1. CatalogInv => IdsAreUnique
    <2>. SUFFICES ASSUME RowsInv PROVE IdsAreUnique
        BY DEF CatalogInv
    <2>1. rows (+) mine = SetToBag(DOMAIN rows \cup DOMAIN mine)
        BY BagFacts DEF RowsInv
    <2>. QED
        BY <2>1 DEF IdsAreUnique, BagToSet, SetToBag
<1>. QED
    BY <1>1, CatalogInvAlways, PTL

\* While no two sessions work on the catalog at once, page 0, what a restart
\* would recover and the map in memory have the tables they should, until
\* page 0 has no room for the catalog, a reload fails, or a transaction is
\* committed for one of whose statements persist had failed.
THEOREM CatalogStaysTransactional == Spec => []CatalogIsTransactional
<1>1. CatalogInv => CatalogIsTransactional
    BY DEF CatalogInv, TablesInv, Settled, Current, CatalogIsTransactional
<1>. QED
    BY <1>1, CatalogInvAlways, PTL

\* While no two sessions work on the catalog at once and no restart has set
\* page 0 back, the next value of a counter has not been drawn for a row.
THEOREM CountersStayAhead == Spec => []CountersRunAhead
<1>1. CatalogInv => CountersRunAhead
    <2>. SUFFICES ASSUME CatalogInv, ~ overlapped, ~ replayed
                  PROVE  \A n \in DOMAIN memory : \A r \in BagToSet(rows (+) mine) \ given :
                             r[1] = memory[n].first => r[2] <= memory[n].seq
        BY DEF CountersRunAhead
    <2>1. BagToSet(rows (+) mine) \ given = Drawn
        BY DEF BagToSet, (+), Drawn
    <2>2. Ahead(memory, Drawn)
        BY DEF CatalogInv, AheadInv
    <2>. QED
        BY <2>1, <2>2 DEF Ahead
<1>. QED
    BY <1>1, CatalogInvAlways, PTL
=============================================================================
