----------------------------- MODULE HeapProofs ------------------------------
(***************************************************************************)
(* The chain of a heap table stays sound whatever records the log refuses  *)
(* and wherever the process stops, rows keep their slots, and a query      *)
(* without a transaction misses no row: for every set of records, page     *)
(* size and number of pages.                                               *)
(***************************************************************************)
EXTENDS HeapTable, FiniteSetTheorems, SequenceTheorems, WellFoundedInduction, TLAPS

-----------------------------------------------------------------------------
(* Least and greatest elements.                                            *)

\* A nonempty set of naturals has a least element.
LEMMA SmallestOf ==
    ASSUME NEW T \in SUBSET Nat, T # {}
    PROVE  \E x \in T : \A y \in T : x <= y
<1>. DEFINE R == {p \in Nat \X Nat : p[1] < p[2]}
<1>1. IsWellFoundedOn(R, Nat)
    BY NatLessThanWellFounded DEF OpToRel
<1>2. PICK x \in T : \A y \in T : <<y, x>> \notin R
    BY <1>1, WFMin
<1>3. ASSUME NEW y \in T, y < x PROVE FALSE
    BY <1>2, <1>3
<1>. QED
    BY <1>3

\* A nonempty set of indices up to l has a greatest element.
LEMMA LargestOf ==
    ASSUME NEW l \in Nat, NEW I \in SUBSET (1 .. l), I # {}
    PROVE  \E x \in I : \A y \in I : y <= x
<1>. DEFINE J == {z \in Nat : l - z \in I}
<1>1. \A y \in I : l - y \in Nat /\ l - (l - y) = y
    OBVIOUS
<1>2. \A y \in I : l - y \in J
    BY <1>1
<1>3. J \in SUBSET Nat /\ J # {}
    BY <1>2
<1>4. PICK z \in J : \A w \in J : z <= w
    BY <1>3, SmallestOf
<1>5. ASSUME NEW y \in I PROVE y <= l - z
    <2>1. z <= l - y /\ y \in Nat /\ z \in Nat
        BY <1>2, <1>4
    <2>. QED
        BY <2>1
<1>. QED
    BY <1>4, <1>5

-----------------------------------------------------------------------------
(* Images.                                                                 *)

\* The constants.
LEMMA Numbers ==
    /\ MaxPages \in Nat /\ PageSize \in Nat /\ PageHeaderSize \in Nat /\ PageSize >= PageHeaderSize
    /\ First \in PageId /\ Catalog \in PageId /\ First # Catalog /\ PageId \subseteq Nat
    /\ NoPage \notin PageId /\ NoImage \notin Image
    /\ \A r \in Records : TotalSize(r) \in Nat
BY HeapAssumption DEF PageId, First, Catalog, TotalSize, FrameSize, PageHeaderSize

\* A page, new or initialised, is an image.
LEMMA NewImages == Zero \in Image /\ Fresh \in Image /\ ~ HasHeader(Zero) /\ HasHeader(Fresh)
BY Numbers DEF Zero, Fresh, Image, HasHeader, PageHeaderSize

\* What Adding does to an image into which the record fits.
LEMMA AddingFacts ==
    ASSUME NEW img \in Image, NEW r \in Records, Fits(img, r)
    PROVE  /\ Adding(img, r) \in Image
           /\ Adding(img, r).next = img.next
           /\ Adding(img, r).free >= img.free
           /\ Adding(img, r).slots = Append(img.slots, [rec |-> r, deleted |-> FALSE])
<1>1. /\ TotalSize(r) \in Nat /\ img.free \in Nat /\ img.live \in Nat /\ img.slots \in Seq(Slot)
      /\ PageSize \in Nat /\ img.free \in 0 .. PageSize
    BY Numbers DEF Image
<1>2. [rec |-> r, deleted |-> FALSE] \in Slot
    BY DEF Slot
<1>3. Append(img.slots, [rec |-> r, deleted |-> FALSE]) \in Seq(Slot)
    BY <1>1, <1>2, AppendProperties
<1>4. img.free + TotalSize(r) \in 0 .. PageSize
    BY <1>1 DEF Fits
<1>5. Adding(img, r) = [next |-> img.next, free |-> img.free + TotalSize(r), live |-> img.live + 1,
                        slots |-> Append(img.slots, [rec |-> r, deleted |-> FALSE])]
    BY DEF Adding
<1>6. /\ Adding(img, r).next = img.next /\ Adding(img, r).free = img.free + TotalSize(r)
      /\ Adding(img, r).slots = Append(img.slots, [rec |-> r, deleted |-> FALSE])
    BY <1>5
<1>7. Adding(img, r) \in Image
    BY <1>1, <1>3, <1>4, <1>5 DEF Image
<1>8. Adding(img, r).free >= img.free
    BY <1>1, <1>6
<1>. QED
    BY <1>6, <1>7, <1>8

\* What Deleting does to an image.
LEMMA DeletingFacts ==
    ASSUME NEW img \in Image, NEW i \in DOMAIN img.slots
    PROVE  /\ Deleting(img, i) \in Image
           /\ Deleting(img, i).next = img.next
           /\ Deleting(img, i).free = img.free
           /\ DOMAIN Deleting(img, i).slots = DOMAIN img.slots
           /\ \A j \in DOMAIN img.slots :
                  /\ Deleting(img, i).slots[j].rec = img.slots[j].rec
                  /\ img.slots[j].deleted => Deleting(img, i).slots[j].deleted
<1>. DEFINE slots == [img.slots EXCEPT ![i].deleted = TRUE]
<1>1. /\ img.live \in Nat /\ img.slots \in Seq(Slot) /\ Len(img.slots) \in Nat
      /\ DOMAIN img.slots = 1 .. Len(img.slots)
      /\ \A j \in DOMAIN img.slots : img.slots[j] \in Slot
    <2>1. img.live \in Nat /\ img.slots \in Seq(Slot)
        BY DEF Image
    <2>. QED
        BY <2>1, LenProperties, ElementOfSeq
<1>2. [img.slots[i] EXCEPT !.deleted = TRUE] \in Slot
    BY <1>1 DEF Slot
<1>3. slots = [img.slots EXCEPT ![i] = [img.slots[i] EXCEPT !.deleted = TRUE]]
    OBVIOUS
<1>4. slots \in Seq(Slot)
    BY <1>1, <1>2, <1>3, ExceptSeq
<1>5. Deleting(img, i) = [next |-> img.next, free |-> img.free,
                          live |-> IF img.live > 0 THEN img.live - 1 ELSE 0, slots |-> slots]
    BY DEF Deleting
<1>6. \A j \in DOMAIN img.slots :
          /\ slots[j].rec = img.slots[j].rec
          /\ img.slots[j].deleted => slots[j].deleted
    BY <1>1 DEF Slot
<1>7. (IF img.live > 0 THEN img.live - 1 ELSE 0) \in Nat
    BY <1>1
<1>. QED
    BY <1>1, <1>4, <1>5, <1>6, <1>7 DEF Image

\* What LinkTo does to an image.
LEMMA LinkToFacts ==
    ASSUME NEW img \in Image, NEW p \in PageId
    PROVE  /\ LinkTo(img, p) \in Image /\ LinkTo(img, p).next = p
           /\ LinkTo(img, p).free = img.free /\ LinkTo(img, p).slots = img.slots
BY DEF LinkTo, Image

\* A record that is not too large fits into a page with nothing but a header.
LEMMA FitsFresh == \A r \in Records : ~ TooLarge(r) => Fits(Fresh, r)
BY Numbers DEF TooLarge, Fits, Fresh

-----------------------------------------------------------------------------
(* The chain.                                                              *)

Views == [PageId -> Image]

\* The pages with a header contain the chain.
LEMMA ChainHasHeaders ==
    ASSUME NEW view \in Views, LinksAreSound(view), NEW p \in Chain(view)
    PROVE  p \in PageId /\ HasHeader(view[p])
<1>. DEFINE Headed == {q \in PageId : HasHeader(view[q])}
<1>1. Headed \in SUBSET PageId /\ First \in Headed
    BY Numbers DEF LinksAreSound
<1>2. Closed(view, Headed)
    <2>1. ASSUME NEW q \in Headed, view[q].next # NoPage PROVE view[q].next \in Headed
        <3>1. q \in PageId /\ HasHeader(view[q]) /\ view[q].next \in PageId
            BY <2>1 DEF Views, Image
        <3>. QED
            BY <2>1, <3>1 DEF LinksAreSound
    <2>. QED
        BY <2>1 DEF Closed
<1>. QED
    BY <1>1, <1>2 DEF Chain, ChainFrom

\* The chain is closed.
LEMMA ChainIsClosed ==
    ASSUME NEW view \in Views, NEW from \in PageId, NEW p \in ChainFrom(view, from), view[p].next # NoPage
    PROVE  view[p].next \in ChainFrom(view, from)
<1>1. p \in PageId /\ view[p].next \in PageId
    BY DEF ChainFrom, Views, Image
<1>. QED
    BY <1>1 DEF ChainFrom, Closed

\* The chain has a last page.
LEMMA LastExists ==
    ASSUME NEW view \in Views, LinksAreSound(view)
    PROVE  /\ LastOf(view) \in Chain(view) /\ LastOf(view) \in PageId
           /\ HasHeader(view[LastOf(view)]) /\ view[LastOf(view)].next = NoPage
<1>1. First \in Chain(view) /\ Chain(view) \subseteq PageId
    BY Numbers DEF Chain, ChainFrom
<1>2. PICK m \in Chain(view) : \A q \in Chain(view) : q <= m
    <2>. DEFINE shifted == {q + 1 : q \in Chain(view)}
    <2>1. shifted \in SUBSET (1 .. MaxPages) /\ shifted # {}
        BY <1>1, Numbers DEF PageId
    <2>2. PICK x \in shifted : \A y \in shifted : y <= x
        BY <2>1, Numbers, LargestOf
    <2>3. PICK m \in Chain(view) : x = m + 1
        BY <2>2
    <2>4. \A q \in Chain(view) : q + 1 <= m + 1
        BY <2>2, <2>3
    <2>. QED
        BY <1>1, <2>3, <2>4, Numbers
<1>3. view[m].next = NoPage
    <2>1. SUFFICES ASSUME view[m].next # NoPage PROVE FALSE
        OBVIOUS
    <2>2. view[m].next \in Chain(view)
        BY <1>2, <2>1, ChainIsClosed, Numbers DEF Chain
    <2>3. m < view[m].next
        BY <1>2, <2>1, ChainHasHeaders DEF LinksAreSound
    <2>4. m \in Nat /\ view[m].next \in Nat /\ view[m].next <= m
        <3>1. m \in PageId /\ view[m].next \in PageId
            BY <1>1, <1>2, <2>2
        <3>2. view[m].next <= m
            BY <1>2, <2>2
        <3>. QED
            BY <3>1, <3>2, Numbers
    <2>. QED
        BY <2>3, <2>4
<1>4. LastOf(view) \in Chain(view) /\ view[LastOf(view)].next = NoPage
    BY <1>2, <1>3 DEF LastOf
<1>. QED
    BY <1>4, ChainHasHeaders

\* Soundness of the links, below a given page number.
SoundBelow(view, n) ==
    /\ HasHeader(view[First])
    /\ \A p \in PageId : HasHeader(view[p]) /\ view[p].next # NoPage =>
           /\ p < view[p].next /\ view[p].next < n
           /\ HasHeader(view[view[p].next])
    /\ \A p, q \in PageId :
           /\ HasHeader(view[p]) /\ HasHeader(view[q])
           /\ view[p].next = view[q].next
           => p = q

\* It depends on the links and headers only.
LEMMA SameLinks ==
    ASSUME NEW view \in Views, NEW view2 \in Views, NEW n \in Nat, NEW m \in Nat, n <= m,
           SoundBelow(view, n),
           \A p \in PageId : /\ view2[p].next = view[p].next
                             /\ HasHeader(view2[p]) <=> HasHeader(view[p])
    PROVE  SoundBelow(view2, m)
<1>1. HasHeader(view2[First])
    BY Numbers DEF SoundBelow
<1>2. ASSUME NEW p \in PageId, HasHeader(view2[p]), view2[p].next # NoPage
      PROVE  /\ p < view2[p].next /\ view2[p].next < m
             /\ HasHeader(view2[view2[p].next])
    <2>1. view[p].next \in PageId /\ view2[p].next = view[p].next
        BY <1>2 DEF Views, Image
    <2>2. /\ p < view[p].next /\ view[p].next < n
          /\ HasHeader(view[view[p].next])
        BY <1>2 DEF SoundBelow
    <2>3. view[p].next < m
        <3>1. view[p].next \in Nat
            BY <2>1, Numbers
        <3>. QED
            BY <2>2, <3>1
    <2>. QED
        BY <2>1, <2>2, <2>3
<1>3. ASSUME NEW p \in PageId, NEW q \in PageId, HasHeader(view2[p]), HasHeader(view2[q]),
             view2[p].next = view2[q].next
      PROVE  p = q
    BY <1>3 DEF SoundBelow
<1>. QED
    BY <1>1, <1>2, <1>3 DEF SoundBelow

\* The view after page n was put behind the last page.
Extended(view, last, n, img) == [view EXCEPT ![last] = LinkTo(view[last], n), ![n] = img]

\* Putting a page with a header behind the last page keeps the links sound.
LEMMA LinkingIsSound ==
    ASSUME NEW view \in Views, NEW n \in PageId, SoundBelow(view, n), ~ HasHeader(view[n]),
           \A p \in PageId : p >= n => ~ HasHeader(view[p]),
           NEW last \in PageId, HasHeader(view[last]), view[last].next = NoPage,
           NEW img \in Image, HasHeader(img), img.next = NoPage
    PROVE  Extended(view, last, n, img) \in Views /\ SoundBelow(Extended(view, last, n, img), n + 1)
<1>. DEFINE view2 == Extended(view, last, n, img)
<1>1. last # n /\ last < n /\ n \in Nat /\ last \in Nat
    BY Numbers
<1>2. /\ LinkTo(view[last], n) \in Image /\ LinkTo(view[last], n).next = n
      /\ HasHeader(LinkTo(view[last], n))
    BY LinkToFacts DEF Views, HasHeader
<1>3. /\ view2 \in Views
      /\ view2[last] = LinkTo(view[last], n) /\ view2[n] = img
      /\ \A p \in PageId : p # last /\ p # n => view2[p] = view[p]
    BY <1>1, <1>2 DEF Extended, Views
<1>4. \A p \in PageId : HasHeader(view2[p]) <=> HasHeader(view[p]) \/ p = n
    BY <1>2, <1>3
<1>5. HasHeader(view2[First])
    BY <1>4, Numbers DEF SoundBelow
<1>6. ASSUME NEW p \in PageId, HasHeader(view2[p]), view2[p].next # NoPage
      PROVE  /\ p < view2[p].next /\ view2[p].next < n + 1
             /\ HasHeader(view2[view2[p].next])
    <2>1. CASE p = last
        BY <1>1, <1>2, <1>3, <1>4, <2>1
    <2>2. CASE p # last
        <3>1. p # n /\ view2[p] = view[p] /\ HasHeader(view[p])
            BY <1>3, <1>4, <1>6, <2>2
        <3>2. /\ p < view[p].next /\ view[p].next < n /\ HasHeader(view[view[p].next])
              /\ view[p].next \in PageId
            BY <1>6, <3>1 DEF SoundBelow, Views, Image
        <3>3. view[p].next \in Nat
            BY <3>2, Numbers
        <3>4. view[p].next < n + 1
            BY <1>1, <3>2, <3>3
        <3>. QED
            BY <1>4, <3>1, <3>2, <3>4
    <2>. QED
        BY <2>1, <2>2
<1>7. ASSUME NEW p \in PageId, NEW q \in PageId, HasHeader(view2[p]), HasHeader(view2[q]),
             view2[p].next = view2[q].next
      PROVE  p = q
    <2>1. \A x \in PageId : HasHeader(view2[x]) /\ x # last /\ x # n =>
              /\ HasHeader(view[x]) /\ view2[x].next = view[x].next
              /\ view[x].next # NoPage /\ view[x].next # n
        <3>. SUFFICES ASSUME NEW x \in PageId, HasHeader(view2[x]), x # last, x # n
                      PROVE  /\ HasHeader(view[x]) /\ view2[x].next = view[x].next
                             /\ view[x].next # NoPage /\ view[x].next # n
            OBVIOUS
        <3>1. HasHeader(view[x]) /\ view2[x].next = view[x].next
            BY <1>3, <1>4
        <3>2. view[x].next # NoPage
            BY <3>1 DEF SoundBelow
        <3>3. view[x].next < n
            BY <3>1, <3>2 DEF SoundBelow
        <3>. QED
            BY <1>1, <3>1, <3>2, <3>3
    <2>2. view2[last].next = n /\ view2[n].next = NoPage /\ n # NoPage
        BY <1>2, <1>3, Numbers
    <2>3. CASE p = last \/ q = last \/ p = n \/ q = n
        BY <1>7, <2>1, <2>2, <2>3
    <2>4. CASE p # last /\ q # last /\ p # n /\ q # n
        BY <1>7, <2>1, <2>4 DEF SoundBelow
    <2>. QED
        BY <2>3, <2>4
<1>. QED
    BY <1>3, <1>5, <1>6, <1>7 DEF SoundBelow

-----------------------------------------------------------------------------
(* The inductive invariant.                                                *)

\* Uncommitted pages are nowhere but in the workspace; a commit under way has
\* copied what it does not owe.
WorkIsPrivate ==
    /\ \A p \in PageId : p = Catalog \/ p >= nextPage => pages[p] = Zero /\ work[p] = NoImage
    /\ status = "none" => work = NoWork
    /\ status # "committing" => todo = {}
    /\ status = "committing" =>
           \A p \in PageId : IF p \in todo THEN work[p] # NoImage
                             ELSE work[p] # NoImage => pages[p] = work[p]

\* A page whose rows a second one keeps, and whose link too unless it ended
\* the table or was of no table.
Extends(img2, img) ==
    /\ img.next \in {NoPage, Catalog, img2.next}
    /\ \A i \in DOMAIN img.slots :
           /\ i \in DOMAIN img2.slots
           /\ img2.slots[i].rec = img.slots[i].rec
           /\ img.slots[i].deleted => img2.slots[i].deleted

WorkExtends == \A p \in PageId : work[p] # NoImage => Extends(work[p], pages[p])

\* The types of everything but the log, and of the log.
PagesOK ==
    /\ pages \in [PageId -> Image]
    /\ nextPage \in First + 1 .. MaxPages
    /\ status \in {"none", "active", "committing"}
    /\ work \in [PageId -> Image \cup {NoImage}]
    /\ todo \in SUBSET PageId
    /\ reader \in [pc : {"idle", "open", "scan", "done", "astray"},
                   at : PageId, owed : SUBSET (PageId \X Nat)]
LogOK ==
    /\ mylog \in [PageId -> Image \cup {NoImage}]
    /\ logged \in [PageId -> Image \cup {NoImage}]
    /\ gaps \in SUBSET {"open", "log", "pages"}

\* The links, in the shared pages and for the transaction.
Sound ==
    /\ status # "committing" => LinksAreSound(pages)
    /\ LinksAreSound(Merged)

HeapInv == PagesOK /\ Sound /\ WorkIsPrivate /\ WorkExtends

\* The pages that a restart should bring back, and those that the log of the
\* transaction makes of the shared ones.
Shown == IF status = "committing" THEN Merged ELSE pages
MyReplay == [p \in PageId |-> IF mylog[p] = NoImage THEN pages[p] ELSE mylog[p]]

\* A log without gaps tells everything.
LogTells ==
    /\ "log" \notin gaps => \A p \in PageId : Replayed[p] = Shown[p]
    /\ status = "active" /\ "open" \notin gaps => \A p \in PageId : MyReplay[p] = Merged[p]
    /\ status # "active" => mylog = NoWork /\ "open" \notin gaps

\* Until a restart redoes a log with a gap; after it nothing moves.
TableInv ==
    /\ PagesOK /\ LogOK
    /\ Intact => HeapInv /\ LogTells
    /\ ~ Intact => status = "none" /\ reader.pc = "idle"

\* The views, with and without primes.
LEMMA ViewsAreViews ==
    ASSUME PagesOK
    PROVE  /\ pages \in Views /\ Merged \in Views /\ nextPage \in Nat
           /\ \A p \in PageId : Merged[p] = IF work[p] = NoImage THEN pages[p] ELSE work[p]
BY Numbers DEF PagesOK, Views, Merged, First

\* Soundness of a view is soundness below nextPage.
LEMMA SoundIsSoundBelow == \A view : LinksAreSound(view) <=> SoundBelow(view, nextPage)
BY DEF LinksAreSound, SoundBelow

\* What the transaction sees beyond the last page of the file.
LEMMA BeyondTheFile ==
    ASSUME PagesOK, WorkIsPrivate, NEW p \in PageId, p = Catalog \/ p >= nextPage
    PROVE  Merged[p] = Zero /\ ~ HasHeader(Merged[p])
BY ViewsAreViews, NewImages DEF WorkIsPrivate

\* Extends is transitive through what the transaction sees.
LEMMA ExtendingMerged ==
    ASSUME PagesOK, WorkExtends, NEW p \in PageId, NEW img,
           img.next = Merged[p].next \/ Merged[p].next \in {NoPage, Catalog},
           \A i \in DOMAIN Merged[p].slots :
               /\ i \in DOMAIN img.slots
               /\ img.slots[i].rec = Merged[p].slots[i].rec
               /\ Merged[p].slots[i].deleted => img.slots[i].deleted
    PROVE  Extends(img, pages[p])
<1>1. Merged[p] = IF work[p] = NoImage THEN pages[p] ELSE work[p]
    BY ViewsAreViews
<1>2. CASE work[p] = NoImage
    BY <1>1, <1>2 DEF Extends
<1>3. CASE work[p] # NoImage
    <2>1. Merged[p] = work[p] /\ Extends(work[p], pages[p])
        BY <1>1, <1>3 DEF WorkExtends
    <2>2. pages[p].next \in {NoPage, Catalog, img.next}
        BY <2>1 DEF Extends
    <2>3. \A i \in DOMAIN pages[p].slots :
              /\ i \in DOMAIN img.slots
              /\ img.slots[i].rec = pages[p].slots[i].rec
              /\ pages[p].slots[i].deleted => img.slots[i].deleted
        BY <2>1 DEF Extends
    <2>. QED
        BY <2>2, <2>3 DEF Extends
<1>. QED
    BY <1>2, <1>3

\* The table as CreateTable leaves it.
LEMMA HeapInit == Init => HeapInv
<1>. SUFFICES ASSUME Init PROVE HeapInv
    OBVIOUS
<1>1. PagesOK
    <2>1. pages \in [PageId -> Image]
        BY NewImages DEF Init
    <2>2. nextPage \in First + 1 .. MaxPages
        BY HeapAssumption DEF Init, First
    <2>3. work \in [PageId -> Image \cup {NoImage}]
        BY DEF Init, NoWork
    <2>4. reader \in [pc : {"idle", "open", "scan", "done", "astray"},
                      at : PageId, owed : SUBSET (PageId \X Nat)]
        BY Numbers DEF Init
    <2>. QED
        BY <2>1, <2>2, <2>3, <2>4 DEF PagesOK, Init
<1>2. Merged = pages
    BY DEF Init, Merged, NoWork
<1>3. SoundBelow(pages, nextPage)
    <2>1. \A p \in PageId : HasHeader(pages[p]) <=> p = First
        BY NewImages DEF Init
    <2>2. pages[First].next = NoPage
        BY Numbers DEF Init, Fresh
    <2>. QED
        BY <2>1, <2>2, Numbers DEF SoundBelow
<1>4. Sound
    BY <1>2, <1>3, SoundIsSoundBelow DEF Sound
<1>5. WorkIsPrivate
    BY Numbers DEF WorkIsPrivate, Init, NoWork, First, Catalog
<1>6. WorkExtends
    BY DEF WorkExtends, Init, NoWork
<1>. QED
    BY <1>1, <1>4, <1>5, <1>6 DEF HeapInv

\* A page that the transaction sees in the chain, and its number.
LEMMA SeenPages ==
    ASSUME PagesOK, WorkIsPrivate, NEW p \in PageId, HasHeader(Merged[p])
    PROVE  p < nextPage /\ p # Catalog /\ p \in Nat /\ Merged[p] \in Image
<1>1. p \in Nat /\ nextPage \in Nat /\ Merged[p] \in Image
    BY ViewsAreViews, Numbers DEF Views
<1>2. ~ (p = Catalog \/ p >= nextPage)
    BY BeyondTheFile
<1>. QED
    BY <1>1, <1>2

\* A write to a page of the chain that keeps its link and its rows.
LEMMA WriteKeepsInv ==
    ASSUME HeapInv, status = "active",
           NEW p \in PageId, HasHeader(Merged[p]),
           NEW img \in Image, HasHeader(img), img.next = Merged[p].next,
           \A i \in DOMAIN Merged[p].slots :
               /\ i \in DOMAIN img.slots
               /\ img.slots[i].rec = Merged[p].slots[i].rec
               /\ Merged[p].slots[i].deleted => img.slots[i].deleted,
           work' = [work EXCEPT ![p] = img],
           UNCHANGED <<pages, nextPage, status, todo, reader>>
    PROVE  HeapInv' /\ Merged' = [Merged EXCEPT ![p] = img]
<1>. USE DEF HeapInv
<1>1. p < nextPage /\ p # Catalog /\ p \in Nat /\ nextPage \in Nat
    BY SeenPages, ViewsAreViews
<1>2. PagesOK'
    BY DEF PagesOK
<1>3. Merged' = [Merged EXCEPT ![p] = img]
    <2>1. img # NoImage /\ work' \in [PageId -> Image \cup {NoImage}]
        BY <1>2, Numbers DEF PagesOK
    <2>2. Merged \in Views /\ \A q \in PageId : work'[q] = IF q = p THEN img ELSE work[q]
        BY ViewsAreViews DEF PagesOK
    <2>. QED
        BY <2>1, <2>2 DEF Merged, Views
<1>4. WorkIsPrivate'
    <2>1. \A q \in PageId : q = Catalog \/ q >= nextPage => q # p
        BY <1>1
    <2>2. \A q \in PageId : q # p => work'[q] = work[q]
        BY DEF PagesOK
    <2>. QED
        BY <2>1, <2>2 DEF WorkIsPrivate
<1>5. WorkExtends'
    <2>1. Extends(img, pages[p])
        BY ExtendingMerged
    <2>2. \A q \in PageId : work'[q] = IF q = p THEN img ELSE work[q]
        BY DEF PagesOK
    <2>. QED
        BY <2>1, <2>2 DEF WorkExtends
<1>6. Sound'
    <2>1. SoundBelow(Merged, nextPage) /\ SoundBelow(pages, nextPage)
        BY SoundIsSoundBelow DEF Sound
    <2>2. Merged \in Views /\ Merged' \in Views
        BY <1>3, ViewsAreViews DEF Views
    <2>3. \A q \in PageId : /\ Merged'[q].next = Merged[q].next
                            /\ HasHeader(Merged'[q]) <=> HasHeader(Merged[q])
        BY <1>3, <2>2 DEF Views
    <2>4. SoundBelow(Merged', nextPage)
        BY <1>1, <2>1, <2>2, <2>3, SameLinks
    <2>5. LinksAreSound(pages)' /\ LinksAreSound(Merged)'
        BY <2>1, <2>4 DEF SoundBelow, LinksAreSound
    <2>. QED
        BY <2>5 DEF Sound
<1>. QED
    BY <1>2, <1>3, <1>4, <1>5, <1>6

\* A write that puts a new page with a header behind the last one.
LEMMA LinkKeepsInv ==
    ASSUME HeapInv, status = "active", nextPage < MaxPages,
           NEW img \in Image, HasHeader(img), img.next = NoPage,
           work' = [work EXCEPT ![LastOf(Merged)] = LinkTo(Merged[LastOf(Merged)], nextPage),
                                ![nextPage] = img],
           nextPage' = nextPage + 1,
           UNCHANGED <<pages, status, todo, reader>>
    PROVE  HeapInv' /\ Merged' = Extended(Merged, LastOf(Merged), nextPage, img)
<1>. USE DEF HeapInv
<1>. DEFINE last == LastOf(Merged)
            old == LinkTo(Merged[last], nextPage)
<1>1. /\ Merged \in Views /\ pages \in Views /\ nextPage \in Nat
      /\ SoundBelow(Merged, nextPage) /\ SoundBelow(pages, nextPage)
    BY ViewsAreViews, SoundIsSoundBelow DEF Sound
<1>2. last \in PageId /\ HasHeader(Merged[last]) /\ Merged[last].next = NoPage
    BY <1>1, LastExists DEF Sound
<1>3. /\ nextPage \in PageId /\ nextPage # Catalog
      /\ \A q \in PageId : q >= nextPage => ~ HasHeader(Merged[q])
      /\ last < nextPage /\ last # Catalog /\ last \in Nat
    <2>1. nextPage \in PageId /\ nextPage # Catalog
        BY HeapAssumption DEF PagesOK, PageId, First, Catalog
    <2>. QED
        BY <1>2, <2>1, SeenPages, BeyondTheFile
<1>4. last # nextPage
    BY <1>1, <1>3
<1>5. old \in Image /\ old.next = nextPage /\ old.slots = Merged[last].slots
    BY <1>1, <1>2, <1>3, LinkToFacts DEF Views
<1>6. /\ work' \in [PageId -> Image \cup {NoImage}]
      /\ \A q \in PageId : work'[q] = IF q = nextPage THEN img ELSE IF q = last THEN old ELSE work[q]
    BY <1>2, <1>3, <1>4, <1>5 DEF PagesOK
<1>7. PagesOK'
    <2>1. nextPage' \in First + 1 .. MaxPages
        BY HeapAssumption DEF PagesOK, First
    <2>. QED
        BY <1>6, <2>1 DEF PagesOK
<1>8. Merged' = Extended(Merged, last, nextPage, img)
    <2>1. img # NoImage /\ old # NoImage
        BY <1>5, Numbers
    <2>2. Extended(Merged, last, nextPage, img) =
              [q \in PageId |-> IF q = nextPage THEN img ELSE IF q = last THEN old ELSE Merged[q]]
        BY <1>1, <1>2, <1>3 DEF Extended, Views
    <2>. QED
        BY <1>6, <2>1, <2>2 DEF Merged
<1>9. WorkIsPrivate'
    <2>1. \A q \in PageId : q = Catalog \/ q >= nextPage + 1 => q # last /\ q # nextPage /\ (q = Catalog \/ q >= nextPage)
        <3>. SUFFICES ASSUME NEW q \in PageId, q = Catalog \/ q >= nextPage + 1
                      PROVE  q # last /\ q # nextPage /\ (q = Catalog \/ q >= nextPage)
            OBVIOUS
        <3>1. q \in Nat /\ nextPage \in Nat /\ last \in Nat /\ last < nextPage
            BY <1>1, <1>3, Numbers
        <3>2. CASE q = Catalog
            BY <1>3, <3>2
        <3>3. CASE q >= nextPage + 1
            BY <3>1, <3>3
        <3>. QED
            BY <3>2, <3>3
    <2>. QED
        BY <1>6, <2>1 DEF WorkIsPrivate
<1>10. WorkExtends'
    <2>1. Extends(old, pages[last])
        BY <1>2, <1>5, ExtendingMerged
    <2>2. Extends(img, pages[nextPage])
        <3>1. pages[nextPage] = Zero
            BY <1>1, <1>3 DEF WorkIsPrivate
        <3>. QED
            BY <3>1 DEF Extends, Zero
    <2>. QED
        BY <1>6, <2>1, <2>2 DEF WorkExtends
<1>11. Sound'
    <2>1. SoundBelow(Merged', nextPage + 1)
        BY <1>1, <1>2, <1>3, <1>8, LinkingIsSound
    <2>2. SoundBelow(pages, nextPage + 1)
        BY <1>1, SameLinks
    <2>3. LinksAreSound(pages)' /\ LinksAreSound(Merged)'
        BY <2>1, <2>2 DEF SoundBelow, LinksAreSound
    <2>. QED
        BY <2>3 DEF Sound
<1>. QED
    BY <1>7, <1>8, <1>9, <1>10, <1>11

\* The last page, as a transaction sees it.
LEMMA LastPage ==
    ASSUME HeapInv
    PROVE  /\ LastOf(Merged) \in PageId /\ HasHeader(Merged[LastOf(Merged)])
           /\ Merged[LastOf(Merged)].next = NoPage /\ Merged[LastOf(Merged)] \in Image
BY ViewsAreViews, LastExists DEF HeapInv, Sound, Views

\* A live row, as a transaction sees it.
LEMMA LivePage ==
    ASSUME HeapInv, NEW r \in Records, NEW s \in LiveRows(Merged, r)
    PROVE  /\ s[1] \in PageId /\ HasHeader(Merged[s[1]]) /\ Merged[s[1]] \in Image
           /\ s[2] \in DOMAIN Merged[s[1]].slots /\ s = <<s[1], s[2]>>
<1>1. PICK p \in Chain(Merged) : s \in LiveIn(Merged, p)
    BY DEF LiveRows, Live
<1>2. p \in PageId /\ HasHeader(Merged[p]) /\ Merged[p] \in Image
    BY ChainHasHeaders, ViewsAreViews DEF HeapInv, Sound, Views
<1>. QED
    BY <1>1, <1>2 DEF LiveIn

\* What an insertion into the last page does.
LEMMA FitStep ==
    ASSUME HeapInv, status = "active", NEW r \in Records, Fits(Merged[LastOf(Merged)], r),
           work' = [work EXCEPT ![LastOf(Merged)] = Adding(Merged[LastOf(Merged)], r)],
           UNCHANGED <<pages, nextPage, status, todo, reader>>
    PROVE  /\ HeapInv'
           /\ Merged' = [Merged EXCEPT ![LastOf(Merged)] = Adding(Merged[LastOf(Merged)], r)]
<1>. DEFINE p == LastOf(Merged)
            img == Adding(Merged[p], r)
<1>1. p \in PageId /\ HasHeader(Merged[p]) /\ Merged[p] \in Image
    BY LastPage
<1>2. /\ img \in Image /\ img.next = Merged[p].next /\ img.free >= Merged[p].free
      /\ img.slots = Append(Merged[p].slots, [rec |-> r, deleted |-> FALSE])
    BY <1>1, AddingFacts
<1>3. HasHeader(img)
    <2>1. img.free \in Nat /\ Merged[p].free \in Nat
        BY <1>1, <1>2, Numbers DEF Image
    <2>. QED
        BY <1>1, <1>2, <2>1, Numbers DEF HasHeader
<1>4. \A i \in DOMAIN Merged[p].slots : i \in DOMAIN img.slots /\ img.slots[i] = Merged[p].slots[i]
    <2>1. Merged[p].slots \in Seq(Slot) /\ [rec |-> r, deleted |-> FALSE] \in Slot
        BY <1>1 DEF Image, Slot
    <2>2. DOMAIN Merged[p].slots = 1 .. Len(Merged[p].slots) /\ Len(Merged[p].slots) \in Nat
        BY <2>1, LenProperties
    <2>. QED
        BY <1>2, <2>1, <2>2, AppendProperties
<1>. HIDE DEF p, img
<1>5. HeapInv' /\ Merged' = [Merged EXCEPT ![p] = img]
    BY <1>1, <1>2, <1>3, <1>4, WriteKeepsInv DEF p, img
<1>. QED
    BY <1>5 DEF p, img

\* What a deletion does.
LEMMA DeleteStep ==
    ASSUME HeapInv, status = "active", NEW r \in Records, NEW s \in LiveRows(Merged, r),
           work' = [work EXCEPT ![s[1]] = Deleting(Merged[s[1]], s[2])],
           UNCHANGED <<pages, nextPage, status, todo, reader>>
    PROVE  HeapInv' /\ Merged' = [Merged EXCEPT ![s[1]] = Deleting(Merged[s[1]], s[2])]
<1>1. /\ s[1] \in PageId /\ HasHeader(Merged[s[1]]) /\ Merged[s[1]] \in Image
      /\ s[2] \in DOMAIN Merged[s[1]].slots
    BY LivePage
<1>. DEFINE p == s[1]
            img == Deleting(Merged[p], s[2])
<1>2. /\ img \in Image /\ img.next = Merged[p].next /\ HasHeader(img)
      /\ \A i \in DOMAIN Merged[p].slots :
             /\ i \in DOMAIN img.slots
             /\ img.slots[i].rec = Merged[p].slots[i].rec
             /\ Merged[p].slots[i].deleted => img.slots[i].deleted
    BY <1>1, DeletingFacts DEF HasHeader
<1>. HIDE DEF p, img
<1>3. HeapInv' /\ Merged' = [Merged EXCEPT ![p] = img]
    BY <1>1, <1>2, WriteKeepsInv DEF p, img
<1>. QED
    BY <1>3 DEF p, img

\* What an insertion on a new page does.
LEMMA LinkedStep ==
    ASSUME HeapInv, status = "active", nextPage < MaxPages, NEW r \in Records, ~ TooLarge(r),
           work' = Linked(r), nextPage' = nextPage + 1,
           UNCHANGED <<pages, status, todo, reader>>
    PROVE  HeapInv' /\ Merged' = Extended(Merged, LastOf(Merged), nextPage, Adding(Fresh, r))
<1>1. /\ Adding(Fresh, r) \in Image /\ Adding(Fresh, r).next = NoPage
      /\ Adding(Fresh, r).free >= Fresh.free
    BY NewImages, FitsFresh, AddingFacts DEF Fresh
<1>2. HasHeader(Adding(Fresh, r))
    <2>1. Adding(Fresh, r).free \in Nat /\ Fresh.free = PageHeaderSize
        BY <1>1, Numbers DEF Image, Fresh
    <2>. QED
        BY <1>1, <2>1, Numbers DEF HasHeader
<1>. QED
    BY <1>1, <1>2, LinkKeepsInv DEF Linked

\* What an allocation that is refused before the header was written does.
LEMMA ZeroStep ==
    ASSUME HeapInv, status = "active", nextPage < MaxPages,
           work' = [work EXCEPT ![nextPage] = Zero], nextPage' = nextPage + 1,
           UNCHANGED <<pages, status, todo, reader>>
    PROVE  HeapInv' /\ Merged' = Merged
<1>. USE DEF HeapInv
<1>1. /\ Merged \in Views /\ pages \in Views /\ nextPage \in Nat
      /\ SoundBelow(Merged, nextPage) /\ SoundBelow(pages, nextPage)
    BY ViewsAreViews, SoundIsSoundBelow DEF Sound
<1>2. nextPage \in PageId /\ nextPage # Catalog /\ Zero # NoImage /\ nextPage + 1 \in First + 1 .. MaxPages
    BY HeapAssumption, NewImages DEF PagesOK, PageId, First, Catalog
<1>3. /\ work' \in [PageId -> Image \cup {NoImage}]
      /\ \A q \in PageId : work'[q] = IF q = nextPage THEN Zero ELSE work[q]
    BY <1>2, NewImages DEF PagesOK
<1>4. Merged' = Merged
    <2>1. Merged[nextPage] = Zero /\ pages[nextPage] = Zero
        BY <1>1, <1>2, BeyondTheFile DEF WorkIsPrivate
    <2>. QED
        BY <1>2, <1>3, <2>1 DEF Merged
<1>5. PagesOK'
    BY <1>2, <1>3 DEF PagesOK
<1>6. WorkIsPrivate'
    <2>. SUFFICES ASSUME NEW q \in PageId, q = Catalog \/ q >= nextPage + 1
                  PROVE  q # nextPage /\ (q = Catalog \/ q >= nextPage)
        BY <1>1, <1>3 DEF WorkIsPrivate
    <2>. QED
        BY <1>1, <1>2, Numbers
<1>7. WorkExtends'
    <2>1. pages[nextPage] = Zero
        BY <1>1, <1>2 DEF WorkIsPrivate
    <2>. QED
        BY <1>3, <2>1 DEF WorkExtends, Extends, Zero
<1>8. Sound'
    <2>1. SoundBelow(Merged, nextPage + 1) /\ SoundBelow(pages, nextPage + 1)
        BY <1>1, SameLinks
    <2>. QED
        BY <1>4, <2>1 DEF Sound, SoundBelow, LinksAreSound
<1>. QED
    BY <1>4, <1>5, <1>6, <1>7, <1>8

\* What an insertion that is not refused before its last append does.
LEMMA PutStep ==
    ASSUME HeapInv, NEW r \in Records, PutRow(r)
    PROVE  HeapInv'
<1>1. CASE Fits(Merged[LastOf(Merged)], r)
    BY <1>1, FitStep DEF PutRow
<1>2. CASE ~ Fits(Merged[LastOf(Merged)], r)
    BY <1>2, LinkedStep DEF PutRow
<1>. QED
    BY <1>1, <1>2

\* What Rollback and the end of a commit do.
LEMMA EndKeepsInv ==
    ASSUME HeapInv, status' = "none", work' = NoWork,
           status = "active" \/ (status = "committing" /\ todo = {}),
           UNCHANGED <<pages, nextPage, todo, reader>>
    PROVE  HeapInv' /\ Merged' = pages
<1>. USE DEF HeapInv
<1>1. Merged' = pages
    BY ViewsAreViews DEF Merged, NoWork, Views
<1>2. LinksAreSound(pages)
    <2>1. CASE status = "active"
        BY <2>1 DEF Sound
    <2>2. CASE status = "committing" /\ todo = {}
        <3>1. \A p \in PageId : work[p] # NoImage => pages[p] = work[p]
            BY <2>2 DEF WorkIsPrivate
        <3>2. Merged = pages
            BY <3>1, ViewsAreViews DEF Merged, Views
        <3>. QED
            BY <3>2 DEF Sound
    <2>. QED
        BY <2>1, <2>2
<1>3. Sound'
    <2>1. LinksAreSound(pages)'
        BY <1>2 DEF LinksAreSound
    <2>. QED
        BY <1>1, <2>1, <1>2 DEF Sound, LinksAreSound
<1>4. PagesOK'
    BY DEF PagesOK, NoWork
<1>5. WorkIsPrivate'
    BY DEF WorkIsPrivate, NoWork
<1>6. WorkExtends'
    BY DEF WorkExtends, NoWork
<1>. QED
    BY <1>1, <1>3, <1>4, <1>5, <1>6

\* What the copying of a page does: the shared page grows to the private one.
LEMMA CommitWriteStep ==
    ASSUME HeapInv, NEW p \in PageId, CommitWrite(p)
    PROVE  /\ HeapInv' /\ Merged' = Merged
           /\ pages' = [pages EXCEPT ![p] = work[p]] /\ Extends(work[p], pages[p])
<1>. USE DEF HeapInv
<1>1. /\ work[p] # NoImage /\ work[p] \in Image
      /\ pages' = [pages EXCEPT ![p] = work[p]] /\ pages' \in Views
      /\ status = "committing" /\ p \in todo
    BY DEF PagesOK, CommitWrite, WorkIsPrivate, Views
<1>2. \A q \in PageId : pages'[q] = IF q = p THEN work[p] ELSE pages[q]
    BY <1>1, ViewsAreViews DEF Views
<1>3. PagesOK'
    BY <1>1 DEF PagesOK, CommitWrite, Views
<1>4. Merged' = Merged
    BY <1>1, <1>2 DEF Merged, CommitWrite
<1>5. WorkIsPrivate'
    BY <1>1, <1>2 DEF WorkIsPrivate, CommitWrite
<1>6. WorkExtends'
    BY <1>1, <1>2 DEF WorkExtends, CommitWrite, Extends
<1>7. Sound'
    <2>1. LinksAreSound(Merged)'
        BY <1>4 DEF Sound, LinksAreSound, CommitWrite
    <2>. QED
        BY <2>1, <1>1 DEF Sound, CommitWrite
<1>8. Extends(work[p], pages[p])
    BY <1>1 DEF WorkExtends
<1>. QED
    BY <1>1, <1>3, <1>4, <1>5, <1>6, <1>7, <1>8

\* The reader changes nothing but itself.
LEMMA ReaderKeepsInv ==
    ASSUME HeapInv, ReadStart \/ ReadOpen \/ ReadScan
    PROVE  HeapInv' /\ Merged' = Merged
<1>. USE DEF HeapInv
<1>1. UNCHANGED <<pages, nextPage, status, work, todo>>
    BY DEF ReadStart, ReadOpen, ReadScan, txVars
<1>2. Live(pages) \subseteq PageId \X Nat
    <2>. SUFFICES ASSUME NEW p \in PageId, NEW s \in LiveIn(pages, p)
                  PROVE  s \in PageId \X Nat
        BY DEF Live, Chain, ChainFrom
    <2>1. pages[p].slots \in Seq(Slot)
        BY ViewsAreViews DEF Views, Image
    <2>2. DOMAIN pages[p].slots = 1 .. Len(pages[p].slots) /\ Len(pages[p].slots) \in Nat
        BY <2>1, LenProperties
    <2>. QED
        BY <2>2 DEF LiveIn
<1>3. reader.at \in PageId /\ reader.owed \in SUBSET (PageId \X Nat)
    BY DEF PagesOK
<1>4. pages[reader.at].next \in PageId \cup {NoPage}
    BY <1>3, ViewsAreViews DEF Views, Image
<1>5. reader' \in [pc : {"idle", "open", "scan", "done", "astray"},
                   at : PageId, owed : SUBSET (PageId \X Nat)]
    <2>1. CASE ReadStart
        BY <1>2, <2>1, Numbers DEF ReadStart
    <2>2. CASE ReadOpen
        BY <1>3, <1>4, <2>2, Numbers DEF ReadOpen, PagesOK
    <2>3. CASE ReadScan
        BY <1>3, <1>4, <2>3 DEF ReadScan, PagesOK
    <2>. QED
        BY <2>1, <2>2, <2>3
<1>6. PagesOK'
    BY <1>1, <1>5 DEF PagesOK
<1>7. Merged' = Merged
    BY <1>1 DEF Merged
<1>. QED
    BY <1>1, <1>6, <1>7 DEF Sound, LinksAreSound, WorkIsPrivate, WorkExtends

\* The beginning and the COMMIT record of a transaction.
LEMMA MarkKeepsInv ==
    ASSUME HeapInv, Begin \/ CommitLogged
    PROVE  HeapInv' /\ Merged' = Merged
<1>. USE DEF HeapInv
<1>1. UNCHANGED <<pages, nextPage, work, reader>> /\ Merged' = Merged
    BY DEF Begin, CommitLogged, Merged
<1>2. PagesOK'
    BY <1>1 DEF Begin, CommitLogged, PagesOK
<1>3. WorkIsPrivate'
    BY <1>1 DEF Begin, CommitLogged, WorkIsPrivate
<1>4. Sound'
    BY <1>1 DEF Begin, CommitLogged, Sound, LinksAreSound
<1>. QED
    BY <1>1, <1>2, <1>3, <1>4 DEF WorkExtends

\* A restart that redoes a log without gaps.
LEMMA RestartKeepsInv ==
    ASSUME HeapInv, LogTells, Restart, "log" \notin gaps
    PROVE  HeapInv' /\ pages' = Shown /\ Merged' = Shown
<1>. USE DEF HeapInv
<1>1. /\ Merged \in Views /\ pages \in Views /\ Shown \in Views /\ nextPage \in Nat
      /\ \A p \in PageId : Merged[p] = IF work[p] = NoImage THEN pages[p] ELSE work[p]
    BY ViewsAreViews DEF Shown
<1>2. /\ pages' = Replayed /\ status' = "none" /\ work' = NoWork /\ todo' = {} /\ nextPage' = nextPage
      /\ reader' = [pc |-> "idle", at |-> First, owed |-> {}]
    BY DEF Restart
<1>3. pages' = Shown
    <2>1. \A p \in PageId : Replayed[p] = Shown[p]
        BY DEF LogTells
    <2>2. Replayed = [p \in PageId |-> Replayed[p]]
        BY DEF Replayed
    <2>. QED
        BY <1>1, <1>2, <2>1, <2>2 DEF Views
<1>4. Merged' = Shown
    <2>1. Merged' = [p \in PageId |-> pages'[p]]
        BY <1>2 DEF Merged, NoWork
    <2>. QED
        BY <1>1, <1>3, <2>1 DEF Views
<1>5. PagesOK'
    <2>1. reader' \in [pc : {"idle", "open", "scan", "done", "astray"},
                       at : PageId, owed : SUBSET (PageId \X Nat)]
        BY <1>2, Numbers
    <2>. QED
        BY <1>1, <1>2, <1>3, <2>1 DEF PagesOK, Views, NoWork
<1>6. Sound'
    <2>1. LinksAreSound(Shown)
        BY DEF Sound, Shown
    <2>2. SoundBelow(Shown, nextPage)
        BY <2>1, SoundIsSoundBelow
    <2>3. SoundBelow(pages', nextPage') /\ SoundBelow(Merged', nextPage')
        BY <1>2, <1>3, <1>4, <2>2
    <2>. QED
        BY <2>3 DEF Sound, SoundBelow, LinksAreSound
<1>7. WorkIsPrivate'
    <2>1. \A p \in PageId : p = Catalog \/ p >= nextPage => Shown[p] = Zero
        BY <1>1 DEF Shown, WorkIsPrivate
    <2>. QED
        BY <1>2, <1>3, <2>1 DEF WorkIsPrivate, NoWork
<1>8. WorkExtends'
    BY <1>2 DEF WorkExtends, NoWork
<1>. QED
    BY <1>3, <1>4, <1>5, <1>6, <1>7, <1>8

\* Every step keeps the invariant, unless it leaves a gap in the pages.
LEMMA HeapNext == HeapInv /\ LogTells /\ [Next]_vars /\ Intact' => HeapInv'
<1>. SUFFICES ASSUME HeapInv, LogTells, [Next]_vars, Intact' PROVE HeapInv'
    OBVIOUS
<1>1. CASE Begin \/ CommitLogged
    BY <1>1, MarkKeepsInv
<1>2. ASSUME NEW r \in Records, PutRow(r) PROVE HeapInv'
    BY <1>2, PutStep
<1>3. ASSUME NEW r \in Records, InsertFails(r) PROVE HeapInv'
    <2>1. /\ status = "active" /\ nextPage < MaxPages /\ nextPage' = nextPage + 1
          /\ UNCHANGED <<pages, status, todo, reader>>
        BY <1>3 DEF InsertFails
    <2>2. CASE work' = [work EXCEPT ![nextPage] = Zero]
        BY <2>1, <2>2, ZeroStep
    <2>3. CASE work' = [work EXCEPT ![LastOf(Merged)] = LinkTo(Merged[LastOf(Merged)], nextPage),
                                    ![nextPage] = Fresh]
        BY <2>1, <2>3, LinkKeepsInv, NewImages DEF Fresh
    <2>. QED
        BY <1>3, <2>2, <2>3 DEF InsertFails
<1>4. ASSUME NEW r \in Records, DropRow(r) PROVE HeapInv'
    BY <1>4, DeleteStep DEF DropRow
<1>5. CASE Rollback
    BY <1>5, EndKeepsInv DEF Rollback
<1>6. CASE CommitEnds
    BY <1>6, EndKeepsInv DEF CommitEnds
<1>7. ASSUME NEW p \in PageId, CommitWrite(p) PROVE HeapInv'
    BY <1>7, CommitWriteStep
<1>8. CASE ReadStart \/ ReadOpen \/ ReadScan
    BY <1>8, ReaderKeepsInv
<1>9. CASE UNCHANGED vars
    <2>1. UNCHANGED <<pages, nextPage, status, work, todo, reader>> /\ Merged' = Merged
        BY <1>9 DEF vars, txVars, Merged
    <2>2. PagesOK' /\ WorkIsPrivate' /\ WorkExtends'
        BY <2>1 DEF HeapInv, PagesOK, WorkIsPrivate, WorkExtends
    <2>3. Sound'
        BY <2>1 DEF HeapInv, Sound, LinksAreSound
    <2>. QED
        BY <2>2, <2>3 DEF HeapInv
<1>10. CASE Restart
    <2>1. "log" \notin gaps
        BY <1>10 DEF Restart, Intact
    <2>. QED
        BY <1>10, <2>1, RestartKeepsInv
<1>. QED
    BY <1>1, <1>2, <1>3, <1>4, <1>5, <1>6, <1>7, <1>8, <1>9, <1>10
    DEF Next, TxNext, Insert, InsertRefused, Delete, DeleteRefused

\* What a step of the transaction that the log did not refuse does to the log.
LEMMA LoggingTells ==
    ASSUME PagesOK, PagesOK', LogOK, LogTells, status = "active",
           mylog' = Logging, UNCHANGED <<pages, status, logged, gaps>>
    PROVE  LogTells'
<1>1. /\ \A p \in PageId : Merged[p] = IF work[p] = NoImage THEN pages[p] ELSE work[p]
      /\ \A p \in PageId : Merged'[p] = IF work'[p] = NoImage THEN pages[p] ELSE work'[p]
    BY DEF Merged
<1>2. \A p \in PageId : mylog'[p] = IF work'[p] = work[p] THEN mylog[p] ELSE work'[p]
    BY DEF Logging
<1>3. \A p \in PageId : MyReplay'[p] = IF mylog'[p] = NoImage THEN pages[p] ELSE mylog'[p]
    BY DEF MyReplay
<1>4. \A p \in PageId : MyReplay[p] = IF mylog[p] = NoImage THEN pages[p] ELSE mylog[p]
    BY DEF MyReplay
<1>5. ASSUME "open" \notin gaps, NEW p \in PageId PROVE MyReplay'[p] = Merged'[p]
    <2>1. MyReplay[p] = Merged[p]
        BY <1>5 DEF LogTells
    <2>2. CASE work'[p] = work[p]
        BY <1>1, <1>2, <1>3, <1>4, <2>1, <2>2
    <2>3. CASE work'[p] # work[p]
        BY <1>1, <1>2, <1>3, <2>3
    <2>. QED
        BY <2>2, <2>3
<1>6. Replayed' = Replayed /\ Shown = pages /\ Shown' = pages
    BY DEF Replayed, Shown
<1>. QED
    BY <1>5, <1>6 DEF LogTells

\* A step after which the log lacks a page of the transaction.
LEMMA RefusingTells ==
    ASSUME LogTells, status = "active", gaps' = gaps \cup {"open"}, UNCHANGED <<pages, status, logged>>
    PROVE  LogTells'
<1>1. Replayed' = Replayed /\ Shown = pages /\ Shown' = pages
    BY DEF Replayed, Shown
<1>. QED
    BY <1>1 DEF LogTells

\* The COMMIT record, and the copying that follows it.
LEMMA CommitTells ==
    ASSUME HeapInv, LogTells, CommitLogged \/ CommitEnds \/ \E p \in PageId : CommitWrite(p)
    PROVE  LogTells'
<1>. USE DEF HeapInv
<1>0. \A p \in PageId : /\ Replayed[p] = IF logged[p] = NoImage THEN pages[p] ELSE logged[p]
                        /\ Replayed'[p] = IF logged'[p] = NoImage THEN pages'[p] ELSE logged'[p]
                        /\ MyReplay[p] = IF mylog[p] = NoImage THEN pages[p] ELSE mylog[p]
    BY DEF Replayed, MyReplay
<1>1. CASE CommitLogged
    <2>1. /\ status = "active" /\ status' = "committing" /\ pages' = pages /\ mylog' = NoWork
          /\ Merged' = Merged
          /\ \A p \in PageId : logged'[p] = IF mylog[p] = NoImage THEN logged[p] ELSE mylog[p]
        BY <1>1, MarkKeepsInv DEF CommitLogged
    <2>2. "open" \notin gaps' /\ ("log" \notin gaps' => "log" \notin gaps /\ "open" \notin gaps)
        BY <1>1 DEF CommitLogged
    <2>3. Shown = pages /\ Shown' = Merged
        BY <2>1 DEF Shown
    <2>4. ASSUME "log" \notin gaps', NEW p \in PageId PROVE Replayed'[p] = Shown'[p]
        <3>1. Replayed[p] = pages[p] /\ MyReplay[p] = Merged[p]
            BY <2>1, <2>2, <2>3, <2>4 DEF LogTells
        <3>. QED
            BY <1>0, <2>1, <2>3, <3>1
    <2>. QED
        BY <2>1, <2>2, <2>4 DEF LogTells
<1>2. ASSUME NEW p \in PageId, CommitWrite(p) PROVE LogTells'
    <2>1. /\ Merged' = Merged /\ status = "committing" /\ status' = "committing" /\ work[p] # NoImage
          /\ pages' = [pages EXCEPT ![p] = work[p]] /\ pages \in Views /\ p \in todo
          /\ UNCHANGED <<mylog, logged, gaps>>
        BY <1>2, CommitWriteStep, ViewsAreViews DEF CommitWrite, logVars, WorkIsPrivate
    <2>2. Shown = Merged /\ Shown' = Merged
        BY <2>1 DEF Shown
    <2>3. Merged[p] = work[p] /\ \A q \in PageId : pages'[q] = IF q = p THEN work[p] ELSE pages[q]
        BY <2>1, ViewsAreViews DEF Views
    <2>4. ASSUME "log" \notin gaps, NEW q \in PageId PROVE Replayed'[q] = Shown'[q]
        <3>1. Replayed[q] = Merged[q]
            BY <2>2, <2>4 DEF LogTells
        <3>. QED
            BY <1>0, <2>1, <2>2, <2>3, <3>1
    <2>. QED
        BY <2>1, <2>4 DEF LogTells
<1>3. CASE CommitEnds
    <2>1. /\ status = "committing" /\ status' = "none" /\ pages' = pages
          /\ UNCHANGED <<mylog, logged, gaps>>
        BY <1>3 DEF CommitEnds, logVars
    <2>2. Merged = pages
        <3>1. \A p \in PageId : work[p] # NoImage => pages[p] = work[p]
            BY <1>3 DEF CommitEnds, WorkIsPrivate
        <3>. QED
            BY <3>1, ViewsAreViews DEF Merged, Views
    <2>3. Shown = pages /\ Shown' = pages
        BY <2>1, <2>2 DEF Shown
    <2>4. Replayed' = Replayed
        BY <2>1 DEF Replayed
    <2>. QED
        BY <2>1, <2>3, <2>4 DEF LogTells
<1>. QED
    BY <1>1, <1>2, <1>3

\* The beginning, the rollback and the restart: the transaction has no log.
LEMMA EdgeTells ==
    ASSUME HeapInv, LogTells, Begin \/ Rollback \/ Restart
    PROVE  LogTells'
<1>. USE DEF HeapInv
<1>1. CASE Begin
    <2>1. /\ status = "none" /\ status' = "active"
          /\ UNCHANGED <<pages, work, mylog, logged, gaps>>
        BY <1>1 DEF Begin, logVars
    <2>2. Replayed' = Replayed /\ Shown = pages /\ Shown' = pages
        BY <2>1 DEF Replayed, Shown
    <2>3. work = NoWork /\ mylog = NoWork
        BY <2>1 DEF WorkIsPrivate, LogTells
    <2>4. \A p \in PageId : MyReplay'[p] = Merged'[p]
        BY <2>1, <2>3 DEF MyReplay, Merged, NoWork
    <2>. QED
        BY <2>1, <2>2, <2>4 DEF LogTells
<1>2. CASE Rollback
    <2>1. /\ status = "active" /\ status' = "none" /\ mylog' = NoWork /\ gaps' = gaps \ {"open"}
          /\ UNCHANGED <<pages, logged>>
        BY <1>2 DEF Rollback
    <2>2. Replayed' = Replayed /\ Shown = pages /\ Shown' = pages
        BY <2>1 DEF Replayed, Shown
    <2>. QED
        BY <2>1, <2>2 DEF LogTells
<1>3. CASE Restart
    <2>1. status' = "none" /\ mylog' = NoWork /\ logged' = NoWork /\ "open" \notin gaps'
        BY <1>3 DEF Restart
    <2>2. \A p \in PageId : Replayed'[p] = Shown'[p]
        BY <2>1 DEF Replayed, Shown, NoWork
    <2>. QED
        BY <2>1, <2>2 DEF LogTells
<1>. QED
    BY <1>1, <1>2, <1>3

\* Every step keeps the log in accord with the pages.
LEMMA LogNext == HeapInv /\ HeapInv' /\ LogOK /\ LogTells /\ [Next]_vars => LogTells'
<1>. SUFFICES ASSUME HeapInv, HeapInv', LogOK, LogTells, [Next]_vars PROVE LogTells'
    OBVIOUS
<1>0. PagesOK /\ PagesOK'
    BY DEF HeapInv
<1>1. CASE CommitLogged \/ CommitEnds \/ \E p \in PageId : CommitWrite(p)
    BY <1>1, CommitTells
<1>2. CASE Begin \/ Rollback \/ Restart
    BY <1>2, EdgeTells
<1>3. ASSUME NEW r \in Records, Insert(r) \/ Delete(r) PROVE LogTells'
    <2>1. status = "active" /\ mylog' = Logging /\ UNCHANGED <<pages, status, logged, gaps>>
        BY <1>3 DEF Insert, Delete, PutRow, DropRow
    <2>. QED
        BY <1>0, <2>1, LoggingTells
<1>4. ASSUME NEW r \in Records, InsertRefused(r) \/ DeleteRefused(r) PROVE LogTells'
    <2>1. status = "active" /\ gaps' = gaps \cup {"open"} /\ UNCHANGED <<pages, status, logged>>
        BY <1>4 DEF InsertRefused, DeleteRefused, PutRow, DropRow
    <2>. QED
        BY <2>1, RefusingTells
<1>5. ASSUME NEW r \in Records, InsertFails(r) PROVE LogTells'
    <2>1. /\ status = "active" /\ nextPage < MaxPages /\ nextPage' = nextPage + 1
          /\ UNCHANGED <<pages, status, todo, logged, reader>>
        BY <1>5 DEF InsertFails
    <2>2. CASE gaps' = gaps \cup {"open"}
        BY <2>1, <2>2, RefusingTells
    <2>3. CASE work' = [work EXCEPT ![nextPage] = Zero] /\ UNCHANGED <<mylog, gaps>>
        <3>1. Merged' = Merged
            BY <2>1, <2>3, ZeroStep
        <3>2. MyReplay' = MyReplay /\ Replayed' = Replayed /\ Shown = pages /\ Shown' = pages
            BY <2>1, <2>3 DEF MyReplay, Replayed, Shown
        <3>. QED
            BY <2>1, <2>3, <3>1, <3>2 DEF LogTells
    <2>. QED
        BY <1>5, <2>2, <2>3 DEF InsertFails
<1>6. CASE ReadStart \/ ReadOpen \/ ReadScan \/ UNCHANGED vars
    <2>1. UNCHANGED <<pages, status, work, mylog, logged, gaps>>
        BY <1>6 DEF ReadStart, ReadOpen, ReadScan, vars, txVars, logVars
    <2>2. UNCHANGED <<Merged, Replayed, MyReplay, Shown>>
        BY <2>1 DEF Merged, Replayed, MyReplay, Shown
    <2>. QED
        BY <2>1, <2>2 DEF LogTells
<1>. QED
    BY <1>1, <1>2, <1>3, <1>4, <1>5, <1>6 DEF Next, TxNext

\* The types of the log.
LEMMA LogTypes ==
    ASSUME PagesOK, PagesOK', LogOK, [Next]_vars PROVE LogOK'
<1>1. NoWork \in [PageId -> Image \cup {NoImage}] /\ Zero \in Image
    BY NewImages DEF NoWork
<1>2. Logging \in [PageId -> Image \cup {NoImage}]
    BY DEF Logging, PagesOK, LogOK
<1>3. [Logging EXCEPT ![nextPage] = Zero] \in [PageId -> Image \cup {NoImage}]
    BY <1>1, <1>2
<1>4. [mylog EXCEPT ![nextPage] = Zero] \in [PageId -> Image \cup {NoImage}]
    BY <1>1 DEF LogOK
<1>5. [p \in PageId |-> IF mylog[p] = NoImage THEN logged[p] ELSE mylog[p]]
          \in [PageId -> Image \cup {NoImage}]
    BY DEF LogOK
<1>6. {IF g = "open" THEN "log" ELSE g : g \in gaps} \in SUBSET {"open", "log", "pages"}
    BY DEF LogOK
<1>7. mylog' \in {mylog, NoWork, Logging, [Logging EXCEPT ![nextPage] = Zero],
                  [mylog EXCEPT ![nextPage] = Zero]}
    BY DEF Next, TxNext, vars, logVars, Begin, Rollback, CommitLogged, CommitEnds, Insert,
           InsertRefused, InsertFails, Delete, DeleteRefused, CommitWrite, Restart,
           ReadStart, ReadOpen, ReadScan
<1>8. logged' \in {logged, NoWork, [p \in PageId |-> IF mylog[p] = NoImage THEN logged[p] ELSE mylog[p]]}
    BY DEF Next, TxNext, vars, logVars, Begin, Rollback, CommitLogged, CommitEnds, Insert,
           InsertRefused, InsertFails, Delete, DeleteRefused, CommitWrite, Restart,
           ReadStart, ReadOpen, ReadScan, PutRow, DropRow
<1>9. gaps' \in {gaps, gaps \cup {"open"}, gaps \ {"open"}, {"pages"}, {},
                 {IF g = "open" THEN "log" ELSE g : g \in gaps}}
    BY DEF Next, TxNext, vars, logVars, Begin, Rollback, CommitLogged, CommitEnds, Insert,
           InsertRefused, InsertFails, Delete, DeleteRefused, CommitWrite, Restart,
           ReadStart, ReadOpen, ReadScan
<1>10. mylog' \in [PageId -> Image \cup {NoImage}]
    BY <1>1, <1>2, <1>3, <1>4, <1>7 DEF LogOK
<1>11. logged' \in [PageId -> Image \cup {NoImage}]
    BY <1>1, <1>5, <1>8 DEF LogOK
<1>12. gaps' \in SUBSET {"open", "log", "pages"}
    BY <1>6, <1>9 DEF LogOK
<1>. QED
    BY <1>10, <1>11, <1>12 DEF LogOK

\* Only a restart leaves a gap in the pages.
LEMMA GapByRestart ==
    ASSUME Intact, ~ Intact', [Next]_vars PROVE Restart
BY DEF Intact, Next, TxNext, vars, logVars, Begin, Rollback, CommitLogged, CommitEnds, Insert,
       InsertRefused, InsertFails, Delete, DeleteRefused, CommitWrite, ReadStart, ReadOpen, ReadScan

\* Nothing moves after it.
LEMMA GapIsTheEnd ==
    ASSUME ~ Intact, status = "none", reader.pc = "idle", [Next]_vars PROVE UNCHANGED vars
BY DEF Intact, Next, TxNext, Begin, Rollback, CommitLogged, CommitEnds, Insert, InsertRefused,
       InsertFails, Delete, DeleteRefused, PutRow, DropRow, CommitWrite, Restart,
       ReadStart, ReadOpen, ReadScan

\* The invariant of the whole.
LEMMA TableInit == Init => TableInv
<1>. SUFFICES ASSUME Init PROVE TableInv
    OBVIOUS
<1>1. HeapInv
    BY HeapInit
<1>2. LogOK /\ Intact
    BY DEF Init, LogOK, Intact, NoWork
<1>3. LogTells
    BY DEF LogTells, Init, Replayed, Shown, NoWork
<1>. QED
    BY <1>1, <1>2, <1>3 DEF TableInv, HeapInv

\* It is kept by every step.
LEMMA TableNext == TableInv /\ [Next]_vars => TableInv'
<1>. SUFFICES ASSUME TableInv, [Next]_vars PROVE TableInv'
    OBVIOUS
<1>0. PagesOK /\ LogOK
    BY DEF TableInv
<1>1. CASE Intact /\ Intact'
    <2>1. HeapInv /\ LogTells
        BY <1>1 DEF TableInv
    <2>2. HeapInv'
        BY <1>1, <2>1, HeapNext
    <2>3. LogTells'
        BY <1>0, <2>1, <2>2, LogNext
    <2>4. LogOK'
        BY <1>0, <2>2, LogTypes DEF HeapInv
    <2>. QED
        BY <1>1, <2>2, <2>3, <2>4 DEF TableInv, HeapInv
<1>2. CASE Intact /\ ~ Intact'
    <2>1. Restart
        BY <1>2, GapByRestart
    <2>2. Replayed \in [PageId -> Image]
        BY <1>0 DEF Replayed, PagesOK, LogOK
    <2>3. status' = "none" /\ reader' = [pc |-> "idle", at |-> First, owed |-> {}]
        BY <2>1 DEF Restart
    <2>4. PagesOK'
        <3>1. reader' \in [pc : {"idle", "open", "scan", "done", "astray"},
                           at : PageId, owed : SUBSET (PageId \X Nat)]
            BY <2>3, Numbers
        <3>. QED
            BY <1>0, <2>1, <2>2, <3>1 DEF Restart, PagesOK, NoWork
    <2>5. LogOK'
        BY <1>0, <2>4, LogTypes
    <2>. QED
        BY <1>2, <2>3, <2>4, <2>5 DEF TableInv
<1>3. CASE ~ Intact
    <2>1. UNCHANGED vars
        BY <1>3, GapIsTheEnd DEF TableInv
    <2>2. UNCHANGED <<pages, nextPage, status, work, todo, mylog, logged, gaps, reader>>
        BY <2>1 DEF vars, txVars, logVars
    <2>. QED
        BY <1>3, <2>2 DEF TableInv, PagesOK, LogOK, Intact
<1>. QED
    BY <1>1, <1>2, <1>3

\* The state of a table, of its log and of a query beside it has its types.
THEOREM HeapTypeCorrect == Spec => []TypeOK
<1>1. TableInv => TypeOK
    BY DEF TableInv, PagesOK, LogOK, TypeOK
<1>. QED
    BY <1>1, TableInit, TableNext, PTL DEF Spec

\* The links of a table lead to later pages with headers, and no page falls out
\* of the chain, whichever records the log refuses and wherever the process is
\* stopped and restarted, until a restart redoes a log that lacks a record of a
\* committed transaction.
THEOREM ChainStaysSound == Spec => []ChainIsSound
<1>1. TableInv => ChainIsSound
    BY DEF TableInv, HeapInv, Sound, ChainIsSound
<1>. QED
    BY <1>1, TableInit, TableNext, PTL DEF Spec

\* A step between two states with sound tables.
LEMMA IntactBefore ==
    ASSUME TableInv, [Next]_vars, Intact' PROVE Intact \/ UNCHANGED vars
<1>. SUFFICES ASSUME ~ Intact PROVE UNCHANGED vars
    OBVIOUS
<1>. QED
    BY GapIsTheEnd DEF TableInv

\* Rows keep their slots: CommitWrite puts in pages that extend the old ones,
\* and so does a restart that completes a commit.
THEOREM RowsKeepTheirSlots == Spec => RowsStay
<1>. DEFINE Stay == Intact' => \A p \in PageId : \A i \in DOMAIN pages[p].slots :
                        /\ i \in DOMAIN pages'[p].slots
                        /\ pages'[p].slots[i].rec = pages[p].slots[i].rec
                        /\ pages[p].slots[i].deleted => pages'[p].slots[i].deleted
<1>1. TableInv /\ [Next]_vars => Stay
    <2>. SUFFICES ASSUME TableInv, [Next]_vars, Intact' PROVE Stay
        OBVIOUS
    <2>0. CASE UNCHANGED pages
        BY <2>0
    <2>1. ASSUME HeapInv, NEW p \in PageId, CommitWrite(p) PROVE Stay
        <3>1. pages' = [pages EXCEPT ![p] = work[p]] /\ Extends(work[p], pages[p]) /\ pages \in Views
            BY <2>1, CommitWriteStep, ViewsAreViews DEF HeapInv
        <3>. QED
            BY <3>1 DEF Extends, Views
    <2>2. ASSUME HeapInv, LogTells, Restart PROVE Stay
        <3>1. pages' = Shown
            BY <2>2, RestartKeepsInv DEF Restart, Intact
        <3>2. \A p \in PageId : Shown[p] = pages[p] \/ (work[p] # NoImage /\ Shown[p] = work[p])
            BY <2>2, ViewsAreViews DEF Shown, HeapInv
        <3>3. \A p \in PageId : work[p] # NoImage => Extends(work[p], pages[p])
            BY <2>2 DEF HeapInv, WorkExtends
        <3>4. ASSUME NEW p \in PageId, NEW i \in DOMAIN pages[p].slots
              PROVE  /\ i \in DOMAIN pages'[p].slots
                     /\ pages'[p].slots[i].rec = pages[p].slots[i].rec
                     /\ pages[p].slots[i].deleted => pages'[p].slots[i].deleted
            <4>1. CASE Shown[p] = pages[p]
                BY <3>1, <4>1
            <4>2. CASE Shown[p] = work[p] /\ Extends(work[p], pages[p])
                BY <3>1, <4>2 DEF Extends
            <4>. QED
                BY <3>2, <3>3, <4>1, <4>2
        <3>. QED
            BY <3>4
    <2>3. [Next]_vars => UNCHANGED pages \/ Restart \/ \E p \in PageId : CommitWrite(p)
        BY DEF Next, TxNext, vars, Begin, Rollback, CommitLogged, CommitEnds, Insert, InsertRefused,
               InsertFails, Delete, DeleteRefused, PutRow, DropRow, ReadStart, ReadOpen, ReadScan
    <2>4. UNCHANGED pages \/ (HeapInv /\ LogTells)
        BY IntactBefore DEF TableInv, vars
    <2>. HIDE DEF Stay
    <2>. QED
        BY <2>0, <2>1, <2>2, <2>3, <2>4
<1>2. TableInv /\ [Next]_vars => [Stay]_vars
    BY <1>1
<1>. HIDE DEF Stay
<1>3. Spec => [][Stay]_vars
    BY <1>2, TableInit, TableNext, PTL DEF Spec
<1>. QED
    BY <1>3 DEF RowsStay, Stay

-----------------------------------------------------------------------------
(***************************************************************************)
(* The rows of a heap table: a query without a transaction misses none,    *)
(* no two have one id, and transactions see the bag that RowStore          *)
(* describes, for every set of records, page size and number of pages.     *)
(***************************************************************************)

-----------------------------------------------------------------------------
(* A query without a transaction.                                          *)

\* A link set at the end of the table, or on a page of no table, takes no
\* page off the query's way but the catalog's.
LEMMA LinkingKeepsTheWay ==
    ASSUME NEW view \in Views, NEW view2 \in Views, view[Catalog].next = Catalog,
           \A p \in PageId : view[p].next \in {NoPage, Catalog, view2[p].next},
           NEW from \in PageId, NEW q \in ChainFrom(view, from), q # Catalog
    PROVE  q \in ChainFrom(view2, from)
<1>. SUFFICES ASSUME NEW S \in SUBSET PageId, from \in S, Closed(view2, S) PROVE q \in S
    BY DEF ChainFrom
<1>1. Closed(view, S \cup {Catalog})
    BY DEF Closed
<1>2. S \cup {Catalog} \in SUBSET PageId
    BY Numbers
<1>. QED
    BY <1>1, <1>2 DEF ChainFrom

\* One page of the way, and the rest of it.
LEMMA OneStepOn ==
    ASSUME NEW view \in Views, NEW from \in PageId, NEW q \in ChainFrom(view, from), q # from
    PROVE  view[from].next \in PageId /\ q \in ChainFrom(view, view[from].next)
<1>1. view[from].next \in PageId
    <2>1. SUFFICES ASSUME view[from].next = NoPage PROVE FALSE
        BY DEF Views, Image
    <2>2. Closed(view, {from})
        BY <2>1 DEF Closed
    <2>. QED
        BY <2>2 DEF ChainFrom
<1>2. ASSUME NEW S \in SUBSET PageId, view[from].next \in S, Closed(view, S) PROVE q \in S
    <2>1. Closed(view, S \cup {from})
        BY <1>2 DEF Closed
    <2>. QED
        BY <2>1 DEF ChainFrom
<1>. QED
    BY <1>1, <1>2 DEF ChainFrom

\* The rows that the query owes have slots; those not deleted since are on
\* its way; when it is done there are none.
Owed == {s \in reader.owed : ~ pages[s[1]].slots[s[2]].deleted}
ReaderInv ==
    /\ \A s \in reader.owed : s[1] \in PageId /\ s[2] \in DOMAIN pages[s[1]].slots
    /\ reader.pc = "open" => \A s \in Owed : s[1] \in ChainFrom(pages, First)
    /\ reader.pc = "scan" => \A s \in Owed : s[1] \in ChainFrom(pages, reader.at)
    /\ reader.pc = "done" => Owed = {}

\* It follows the query from the rows it finds at its start to its end.
LEMMA ReaderNext == TableInv /\ ReaderInv /\ [Next]_vars => ReaderInv'
<1>. SUFFICES ASSUME TableInv, ReaderInv, [Next]_vars PROVE ReaderInv'
    OBVIOUS
<1>0. CASE ~ Intact
    <2>1. UNCHANGED <<pages, reader>>
        BY <1>0, GapIsTheEnd DEF TableInv, vars
    <2>. QED
        BY <2>1 DEF ReaderInv, Owed
<1>. SUFFICES ASSUME HeapInv PROVE ReaderInv'
    BY <1>0 DEF TableInv
<1>. USE DEF HeapInv
<1>1. /\ pages \in Views /\ reader.at \in PageId /\ First \in PageId
      /\ pages[Catalog] = Zero /\ Catalog \in PageId
    BY ViewsAreViews, Numbers DEF PagesOK, WorkIsPrivate
<1>2. ASSUME NEW p \in PageId, CommitWrite(p) PROVE ReaderInv'
    <2>1. /\ pages' = [pages EXCEPT ![p] = work[p]] /\ Extends(work[p], pages[p])
          /\ reader' = reader /\ pages' \in Views
        BY <1>2, CommitWriteStep, ViewsAreViews DEF CommitWrite, PagesOK, Views
    <2>2. \A s \in reader.owed :
              /\ s[1] \in PageId /\ s[2] \in DOMAIN pages'[s[1]].slots
              /\ pages[s[1]].slots[s[2]].deleted => pages'[s[1]].slots[s[2]].deleted
        BY <1>1, <2>1 DEF ReaderInv, Extends, Views
    <2>3. \A q \in PageId : pages[q].next \in {NoPage, Catalog, pages'[q].next}
        BY <1>1, <2>1 DEF Extends, Views
    <2>4. \A s \in reader.owed : s[1] # Catalog
        BY <1>1 DEF ReaderInv, Zero
    <2>5. ASSUME NEW from \in PageId, NEW s \in reader.owed, s[1] \in ChainFrom(pages, from)
          PROVE  s[1] \in ChainFrom(pages', from)
        <3>1. pages[Catalog].next = Catalog
            BY <1>1 DEF Zero
        <3>. QED
            BY <1>1, <2>1, <2>3, <2>4, <2>5, <3>1, LinkingKeepsTheWay
    <2>6. Owed' \subseteq Owed
        BY <2>1, <2>2 DEF Owed
    <2>7. Owed \subseteq reader.owed
        BY DEF Owed
    <2>. QED
        BY <1>1, <2>1, <2>2, <2>5, <2>6, <2>7 DEF ReaderInv
<1>3. CASE ReadStart
    <2>1. pages' = pages /\ reader'.pc = "open" /\ reader'.owed = Live(pages)
        BY <1>3 DEF ReadStart
    <2>2. \A s \in Live(pages) : s[1] \in Chain(pages) /\ s[2] \in DOMAIN pages[s[1]].slots
        BY DEF Live, LiveIn
    <2>3. Chain(pages) \subseteq PageId /\ Chain(pages) = ChainFrom(pages, First)
        BY DEF Chain, ChainFrom
    <2>. QED
        BY <2>1, <2>2, <2>3 DEF ReaderInv, Owed
<1>4. CASE ReadOpen
    <2>1. reader.pc = "open" /\ pages' = pages
        BY <1>4 DEF ReadOpen
    <2>2. \/ reader' = [reader EXCEPT !.pc = "scan", !.at = First]
          \/ reader' = [reader EXCEPT !.pc = "astray"]
          \/ reader' = [reader EXCEPT !.at = pages[reader.at].next]
        BY <1>4 DEF ReadOpen
    <2>3. /\ reader'.owed = reader.owed
          /\ \/ reader'.pc = "scan" /\ reader'.at = First
             \/ reader'.pc = "astray"
             \/ reader'.pc = "open"
        BY <2>1, <2>2 DEF PagesOK
    <2>4. Owed' = Owed
        BY <2>1, <2>3 DEF Owed
    <2>. QED
        BY <2>1, <2>3, <2>4 DEF ReaderInv
<1>5. CASE ReadScan
    <2>. DEFINE next == pages[reader.at].next
                rest == reader.owed \ LiveIn(pages, reader.at)
    <2>1. reader.pc = "scan" /\ pages' = pages
        BY <1>5 DEF ReadScan
    <2>2. /\ reader'.owed = rest
          /\ \/ next = NoPage /\ reader'.pc = "done"
             \/ reader'.pc = "astray"
             \/ next # NoPage /\ reader'.pc = "scan" /\ reader'.at = next
        <3>1. \/ next = NoPage /\ reader' = [reader EXCEPT !.pc = "done", !.owed = rest]
              \/ reader' = [reader EXCEPT !.pc = "astray", !.owed = rest]
              \/ next # NoPage /\ reader' = [reader EXCEPT !.at = next, !.owed = rest]
            BY <1>5 DEF ReadScan
        <3>. QED
            BY <2>1, <3>1 DEF PagesOK
    <2>3. ASSUME NEW s \in rest, ~ pages[s[1]].slots[s[2]].deleted
          PROVE  next \in PageId /\ s[1] \in ChainFrom(pages, next)
        <3>1. s \in reader.owed /\ s \in PageId \X Nat /\ s[2] \in DOMAIN pages[s[1]].slots
            BY <2>3 DEF ReaderInv, PagesOK
        <3>2. s = <<s[1], s[2]>>
            BY <3>1
        <3>3. s[1] # reader.at
            BY <2>3, <3>1, <3>2 DEF LiveIn
        <3>4. s[1] \in ChainFrom(pages, reader.at)
            BY <2>1, <2>3, <3>1 DEF ReaderInv, Owed
        <3>. QED
            BY <1>1, <3>3, <3>4, OneStepOn
    <2>4. next \in PageId => next # NoPage
        BY Numbers
    <2>5. Owed' = {s \in rest : ~ pages[s[1]].slots[s[2]].deleted}
        BY <2>1, <2>2 DEF Owed
    <2>6. rest \subseteq reader.owed
        OBVIOUS
    <2>. HIDE DEF next, rest
    <2>. QED
        BY <2>1, <2>2, <2>3, <2>4, <2>5, <2>6 DEF ReaderInv
<1>6. CASE UNCHANGED <<pages, reader>>
    BY <1>6 DEF ReaderInv, Owed
<1>7. CASE Restart
    BY <1>7 DEF Restart, ReaderInv, Owed
<1>8. \/ \E p \in PageId : CommitWrite(p)
      \/ ReadStart \/ ReadOpen \/ ReadScan \/ UNCHANGED <<pages, reader>> \/ Restart
    BY DEF Next, TxNext, vars, Begin, Rollback, CommitLogged, CommitEnds, Insert, InsertRefused,
           InsertFails, Delete, DeleteRefused, PutRow, DropRow
<1>. QED
    BY <1>2, <1>3, <1>4, <1>5, <1>6, <1>7, <1>8

\* A query without a transaction misses no row that was there when it began
\* and still is when it ends, however the copying of a commit interleaves.
THEOREM ReaderMissesNoRow == Spec => []ReaderMissesNothing
<1>1. Init => ReaderInv
    BY DEF Init, ReaderInv, Owed
<1>2. ReaderInv => ReaderMissesNothing
    BY DEF ReaderInv, Owed, ReaderMissesNothing
<1>. QED
    BY <1>1, <1>2, TableInit, TableNext, ReaderNext, PTL DEF Spec

-----------------------------------------------------------------------------
(* The rows that a view shows.                                             *)

\* A row of record r: a slot of a page of the chain.
LEMMA RowsAreSlots ==
    ASSUME NEW view, NEW r
    PROVE  \A s : s \in LiveRows(view, r) <=>
               \E p \in Chain(view) : \E i \in DOMAIN view[p].slots :
                   s = <<p, i>> /\ ~ view[p].slots[i].deleted /\ view[p].slots[i].rec = r
BY DEF LiveRows, Live, LiveIn

\* The chain depends on the links only.
LEMMA SameChain ==
    ASSUME NEW view, NEW view2, \A p \in PageId : view2[p].next = view[p].next
    PROVE  Chain(view2) = Chain(view)
<1>1. \A S \in SUBSET PageId : Closed(view2, S) <=> Closed(view, S)
    BY DEF Closed
<1>. QED
    BY <1>1 DEF Chain, ChainFrom

\* Every slot of the chain holds a record.
LEMMA RowsAreRecords ==
    ASSUME NEW view \in Views, NEW p \in PageId, NEW i \in DOMAIN view[p].slots
    PROVE  view[p].slots[i] \in Slot /\ view[p].slots[i].rec \in Records /\ i \in Nat
<1>1. view[p].slots \in Seq(Slot)
    BY DEF Views, Image
<1>2. view[p].slots[i] \in Slot /\ i \in Nat
    BY <1>1, ElementOfSeq, LenProperties
<1>. QED
    BY <1>2 DEF Slot

\* A page put behind the last one joins the chain, and nothing leaves it.
LEMMA LinkingExtendsChain ==
    ASSUME NEW view \in Views, LinksAreSound(view), view[Catalog] = Zero,
           NEW n \in PageId, view[n] = Zero, NEW img, img.next = NoPage
    PROVE  Chain(Extended(view, LastOf(view), n, img)) = Chain(view) \cup {n}
<1>. DEFINE last == LastOf(view)
            view2 == Extended(view, last, n, img)
<1>1. last \in Chain(view) /\ last \in PageId /\ view[last].next = NoPage /\ Chain(view) \subseteq PageId
    BY LastExists, ChainHasHeaders
<1>2. last # n /\ n \notin Chain(view) /\ Catalog \notin Chain(view)
    BY <1>1, ChainHasHeaders, NewImages
<1>3. /\ view2[last].next = n /\ view2[n] = img
      /\ \A p \in PageId : p # last /\ p # n => view2[p] = view[p]
    BY <1>1, <1>2 DEF Extended, Views, LinkTo
<1>4. First \in Chain(view) /\ First \in PageId
    BY Numbers DEF Chain, ChainFrom
<1>5. ASSUME NEW q \in Chain(view2) PROVE q \in Chain(view) \cup {n}
    <2>1. ASSUME NEW p \in Chain(view) PROVE view2[p].next \in Chain(view) \cup {n, NoPage}
        <3>1. CASE p = last
            BY <1>3, <3>1
        <3>2. CASE p # last
            <4>1. view2[p] = view[p]
                BY <1>1, <1>2, <1>3, <3>2
            <4>. QED
                BY <1>1, <4>1, <1>4, ChainIsClosed DEF Chain
        <3>. QED
            BY <3>1, <3>2
    <2>2. Closed(view2, Chain(view) \cup {n})
        BY <1>3, <2>1 DEF Closed
    <2>. QED
        BY <1>1, <1>4, <2>2 DEF Chain, ChainFrom
<1>6. ASSUME NEW q \in Chain(view), NEW S \in SUBSET PageId, First \in S, Closed(view2, S)
      PROVE  q \in S
    <2>1. Closed(view, S \cap Chain(view))
        <3>. SUFFICES ASSUME NEW p \in S \cap Chain(view), view[p].next # NoPage
                      PROVE  view[p].next \in S \cap Chain(view)
            BY DEF Closed
        <3>1. view[p].next \in Chain(view)
            BY <1>4, ChainIsClosed DEF Chain
        <3>2. view2[p] = view[p]
            BY <1>1, <1>2, <1>3
        <3>. QED
            BY <1>6, <3>1, <3>2 DEF Closed
    <2>2. S \cap Chain(view) \in SUBSET PageId /\ First \in S \cap Chain(view)
        BY <1>4, <1>6
    <2>. QED
        BY <2>1, <2>2 DEF Chain, ChainFrom
<1>7. n \in Chain(view2)
    <2>. SUFFICES ASSUME NEW S \in SUBSET PageId, First \in S, Closed(view2, S) PROVE n \in S
        BY DEF Chain, ChainFrom
    <2>1. last \in S
        BY <1>1, <1>6
    <2>2. n # NoPage
        BY Numbers
    <2>. QED
        BY <1>3, <2>1, <2>2 DEF Closed
<1>8. Chain(view) \subseteq Chain(view2)
    BY <1>1, <1>6 DEF Chain, ChainFrom
<1>. QED
    BY <1>5, <1>7, <1>8

\* The rows of a record are finitely many.
LEMMA RowsAreFinite == ASSUME NEW view \in Views, NEW r PROVE IsFiniteSet(LiveRows(view, r))
<1>1. Chain(view) \subseteq PageId /\ IsFiniteSet(Chain(view))
    <2>1. MaxPages - 1 \in Int /\ 0 \in Int
        BY HeapAssumption
    <2>2. IsFiniteSet(PageId)
        BY <2>1, FS_Interval DEF PageId
    <2>3. Chain(view) \subseteq PageId
        BY DEF Chain, ChainFrom
    <2>. QED
        BY <2>2, <2>3, FS_Subset
<1>2. ASSUME NEW p \in PageId PROVE IsFiniteSet(LiveIn(view, p))
    <2>1. view[p].slots \in Seq(Slot)
        BY DEF Views, Image
    <2>2. DOMAIN view[p].slots = 1 .. Len(view[p].slots) /\ Len(view[p].slots) \in Nat
        BY <2>1, LenProperties
    <2>3. IsFiniteSet({p} \X (1 .. Len(view[p].slots)))
        <3>1. IsFiniteSet(1 .. Len(view[p].slots))
            BY <2>2, FS_Interval
        <3>2. IsFiniteSet({p})
            BY FS_Singleton
        <3>. QED
            BY <3>1, <3>2, FS_Product
    <2>4. LiveIn(view, p) \subseteq {p} \X (1 .. Len(view[p].slots))
        BY <2>2 DEF LiveIn
    <2>. QED
        BY <2>3, <2>4, FS_Subset
<1>3. IsFiniteSet({LiveIn(view, p) : p \in Chain(view)})
    <2>. DEFINE f == [p \in Chain(view) |-> LiveIn(view, p)]
    <2>1. f \in Surjection(Chain(view), {LiveIn(view, p) : p \in Chain(view)})
        BY DEF Surjection
    <2>. QED
        BY <1>1, <2>1, FS_Surjection
<1>4. IsFiniteSet(Live(view))
    BY <1>1, <1>2, <1>3, FS_UNION DEF Live
<1>. QED
    BY <1>4, FS_Subset DEF LiveRows

-----------------------------------------------------------------------------
(* What each step does to the rows that the transaction sees.              *)

\* The rows after one of r was added, or taken out.
RowAdded(view, view2, r) ==
    \E s : \A q \in Records :
        /\ s \notin LiveRows(view, r)
        /\ LiveRows(view2, q) = LiveRows(view, q) \cup (IF q = r THEN {s} ELSE {})
RowRemoved(view, view2, r) ==
    \E s \in LiveRows(view, r) : \A q \in Records :
        LiveRows(view2, q) = LiveRows(view, q) \ (IF q = r THEN {s} ELSE {})
SameRows(view, view2) == \A q \in Records : LiveRows(view2, q) = LiveRows(view, q)

\* A record added to the last page.
LEMMA FitAddsRow ==
    ASSUME NEW view \in Views, NEW p \in Chain(view), NEW r \in Records, Fits(view[p], r)
    PROVE  RowAdded(view, [view EXCEPT ![p] = Adding(view[p], r)], r)
<1>. DEFINE view2 == [view EXCEPT ![p] = Adding(view[p], r)]
            new == [rec |-> r, deleted |-> FALSE]
            s == <<p, Len(view[p].slots) + 1>>
<1>1. p \in PageId /\ view[p] \in Image /\ view[p].slots \in Seq(Slot) /\ new \in Slot
    BY DEF Chain, ChainFrom, Views, Image, Slot
<1>2. /\ view2[p].next = view[p].next /\ view2[p].slots = Append(view[p].slots, new)
      /\ \A q \in PageId : q # p => view2[q] = view[q]
    BY <1>1, AddingFacts DEF Views
<1>3. Chain(view2) = Chain(view)
    BY <1>2, SameChain
<1>4. /\ DOMAIN view[p].slots = 1 .. Len(view[p].slots) /\ Len(view[p].slots) \in Nat
      /\ DOMAIN view2[p].slots = DOMAIN view[p].slots \cup {Len(view[p].slots) + 1}
      /\ \A i \in DOMAIN view[p].slots : view2[p].slots[i] = view[p].slots[i]
      /\ view2[p].slots[Len(view[p].slots) + 1] = new
    <2>1. DOMAIN view[p].slots = 1 .. Len(view[p].slots) /\ Len(view[p].slots) \in Nat
        BY <1>1, LenProperties
    <2>2. DOMAIN view2[p].slots = 1 .. Len(view[p].slots) + 1
        BY <1>1, <1>2, <2>1, AppendProperties, LenProperties
    <2>3. /\ \A i \in 1 .. Len(view[p].slots) : view2[p].slots[i] = view[p].slots[i]
          /\ view2[p].slots[Len(view[p].slots) + 1] = new
        BY <1>1, <1>2, <2>1, AppendProperties
    <2>. QED
        BY <2>1, <2>2, <2>3
<1>5. s \notin LiveRows(view, r)
    BY <1>4, RowsAreSlots
<1>6. ASSUME NEW q \in Records
      PROVE  LiveRows(view2, q) = LiveRows(view, q) \cup (IF q = r THEN {s} ELSE {})
    <2>. DEFINE At(v, x) == \E o \in Chain(v) : \E i \in DOMAIN v[o].slots :
                                x = <<o, i>> /\ ~ v[o].slots[i].deleted /\ v[o].slots[i].rec = q
    <2>1. \A x : x \in LiveRows(view, q) <=> At(view, x)
        BY RowsAreSlots
    <2>2. \A x : x \in LiveRows(view2, q) <=> At(view2, x)
        <3>. HIDE DEF view2
        <3>. QED
            BY RowsAreSlots
    <2>3. Chain(view) \subseteq PageId
        BY DEF Chain, ChainFrom
    <2>4. ASSUME NEW x, At(view, x) PROVE At(view2, x)
        BY <1>2, <1>3, <1>4, <2>3, <2>4
    <2>5. ASSUME NEW x, At(view2, x) PROVE At(view, x) \/ (q = r /\ x = s)
        BY <1>2, <1>3, <1>4, <2>3, <2>5
    <2>6. q = r => At(view2, s)
        BY <1>3, <1>4
    <2>. HIDE DEF At
    <2>. QED
        BY <2>1, <2>2, <2>4, <2>5, <2>6
<1>. QED
    BY <1>5, <1>6 DEF RowAdded

\* A page put behind the last one adds the rows that it holds.
LEMMA LinkAddsRows ==
    ASSUME NEW view \in Views, LinksAreSound(view), view[Catalog] = Zero,
           NEW n \in PageId, view[n] = Zero, NEW img \in Image, img.next = NoPage
    PROVE  LET view2 == Extended(view, LastOf(view), n, img)
           IN  /\ img.slots = <<>> => SameRows(view, view2)
               /\ \A r \in Records : img.slots = <<[rec |-> r, deleted |-> FALSE]>> =>
                      RowAdded(view, view2, r)
<1>. DEFINE last == LastOf(view)
            view2 == Extended(view, last, n, img)
            In(x, q) == \E i \in DOMAIN img.slots :
                            x = <<n, i>> /\ ~ img.slots[i].deleted /\ img.slots[i].rec = q
<1>1. /\ Chain(view2) = Chain(view) \cup {n} /\ last \in Chain(view) /\ Chain(view) \subseteq PageId
      /\ n \notin Chain(view)
    BY LinkingExtendsChain, LastExists, ChainHasHeaders, NewImages
<1>2. /\ view2[n] = img
      /\ \A p \in PageId : p # n => view2[p].slots = view[p].slots
    <2>1. last \in PageId /\ view[last] \in Image
        BY <1>1 DEF Views
    <2>2. LinkTo(view[last], n).slots = view[last].slots
        BY <2>1, LinkToFacts
    <2>. QED
        BY <2>1, <2>2 DEF Extended, Views
<1>3. ASSUME NEW q, NEW x PROVE x \in LiveRows(view2, q) <=> x \in LiveRows(view, q) \/ In(x, q)
    BY <1>1, <1>2, RowsAreSlots
<1>4. ASSUME NEW q, NEW i PROVE <<n, i>> \notin LiveRows(view, q)
    BY <1>1, RowsAreSlots
<1>5. ASSUME img.slots = <<>> PROVE SameRows(view, view2)
    <2>1. \A x, q : ~ In(x, q)
        BY <1>5
    <2>. HIDE DEF In, view2
    <2>2. \A q \in Records : LiveRows(view2, q) = LiveRows(view, q)
        BY <1>3, <2>1
    <2>. QED
        BY <2>2 DEF SameRows
<1>6. ASSUME NEW r \in Records, img.slots = <<[rec |-> r, deleted |-> FALSE]>>
      PROVE  RowAdded(view, view2, r)
    <2>1. \A x, q : In(x, q) <=> x = <<n, 1>> /\ q = r
        BY <1>6
    <2>. HIDE DEF In, view2
    <2>2. \A q \in Records : /\ <<n, 1>> \notin LiveRows(view, r)
                             /\ LiveRows(view2, q) = LiveRows(view, q) \cup (IF q = r THEN {<<n, 1>>} ELSE {})
        BY <1>3, <1>4, <2>1
    <2>. QED
        BY <2>2 DEF RowAdded
<1>. QED
    BY <1>5, <1>6

\* A row deleted.
LEMMA DeleteRemovesRow ==
    ASSUME NEW view \in Views, NEW r \in Records, NEW s \in LiveRows(view, r)
    PROVE  RowRemoved(view, [view EXCEPT ![s[1]] = Deleting(view[s[1]], s[2])], r)
<1>1. PICK p \in Chain(view) : \E i \in DOMAIN view[p].slots :
          s = <<p, i>> /\ ~ view[p].slots[i].deleted /\ view[p].slots[i].rec = r
    BY RowsAreSlots
<1>2. PICK i \in DOMAIN view[p].slots :
          s = <<p, i>> /\ ~ view[p].slots[i].deleted /\ view[p].slots[i].rec = r
    BY <1>1
<1>. DEFINE view2 == [view EXCEPT ![p] = Deleting(view[p], i)]
<1>3. p \in PageId /\ Chain(view) \subseteq PageId /\ view[p] \in Image
    BY DEF Chain, ChainFrom, Views
<1>4. /\ view2[p].next = view[p].next /\ DOMAIN view2[p].slots = DOMAIN view[p].slots
      /\ \A j \in DOMAIN view[p].slots : view2[p].slots[j].rec = view[p].slots[j].rec
      /\ \A q \in PageId : q # p => view2[q] = view[q]
    BY <1>3, DeletingFacts DEF Views
<1>5. /\ view2[p].slots[i].deleted
      /\ \A j \in DOMAIN view[p].slots : j # i => view2[p].slots[j] = view[p].slots[j]
    <2>1. view2[p].slots = [view[p].slots EXCEPT ![i].deleted = TRUE]
        BY <1>3 DEF Deleting, Views
    <2>2. view[p].slots[i] \in Slot
        BY <1>3, RowsAreRecords
    <2>. QED
        BY <2>1, <2>2 DEF Slot
<1>6. Chain(view2) = Chain(view)
    BY <1>4, SameChain
<1>7. ASSUME NEW q \in Records
      PROVE  LiveRows(view2, q) = LiveRows(view, q) \ (IF q = r THEN {s} ELSE {})
    <2>. DEFINE At(v, x) == \E o \in Chain(v) : \E j \in DOMAIN v[o].slots :
                                x = <<o, j>> /\ ~ v[o].slots[j].deleted /\ v[o].slots[j].rec = q
    <2>1. \A x : x \in LiveRows(view, q) <=> At(view, x)
        BY RowsAreSlots
    <2>2. \A x : x \in LiveRows(view2, q) <=> At(view2, x)
        <3>. HIDE DEF view2
        <3>. QED
            BY RowsAreSlots
    <2>3. ASSUME NEW x, At(view2, x) PROVE At(view, x) /\ x # s
        BY <1>2, <1>3, <1>4, <1>5, <1>6, <2>3
    <2>4. ASSUME NEW x, At(view, x), x # s PROVE At(view2, x)
        BY <1>2, <1>3, <1>4, <1>5, <1>6, <2>4
    <2>5. q # r => ~ At(view, s)
        BY <1>2
    <2>. HIDE DEF At
    <2>. QED
        BY <2>1, <2>2, <2>3, <2>4, <2>5
<1>8. view2 = [view EXCEPT ![s[1]] = Deleting(view[s[1]], s[2])]
    BY <1>2
<1>. QED
    BY <1>7, <1>8 DEF RowRemoved

\* What the transaction sees after each step: a row more, a row less, or the
\* same rows.
LEMMA InsertAddsRow ==
    ASSUME HeapInv, NEW r \in Records, PutRow(r)
    PROVE  RowAdded(Merged, Merged', r)
<1>. USE DEF HeapInv
<1>1. Merged \in Views /\ LinksAreSound(Merged) /\ LastOf(Merged) \in Chain(Merged)
    BY ViewsAreViews, LastExists DEF Sound
<1>2. CASE Fits(Merged[LastOf(Merged)], r)
    <2>1. Merged' = [Merged EXCEPT ![LastOf(Merged)] = Adding(Merged[LastOf(Merged)], r)]
        BY <1>2, FitStep DEF PutRow
    <2>. QED
        BY <1>1, <1>2, <2>1, FitAddsRow
<1>3. CASE ~ Fits(Merged[LastOf(Merged)], r)
    <2>1. ~ TooLarge(r) /\ nextPage < MaxPages
        BY <1>3 DEF PutRow
    <2>2. Merged' = Extended(Merged, LastOf(Merged), nextPage, Adding(Fresh, r))
        BY <1>3, <2>1, LinkedStep DEF PutRow
    <2>3. nextPage \in PageId /\ Merged[nextPage] = Zero /\ Merged[Catalog] = Zero
        <3>1. nextPage \in PageId
            BY <2>1, HeapAssumption DEF PagesOK, PageId, First
        <3>. QED
            BY <3>1, BeyondTheFile, Numbers, ViewsAreViews
    <2>4. /\ Adding(Fresh, r) \in Image /\ Adding(Fresh, r).next = NoPage
          /\ Adding(Fresh, r).slots = Append(<<>>, [rec |-> r, deleted |-> FALSE])
        BY <2>1, NewImages, FitsFresh, AddingFacts DEF Fresh
    <2>5. Adding(Fresh, r).slots = <<[rec |-> r, deleted |-> FALSE]>>
        BY <2>4
    <2>. QED
        BY <1>1, <2>2, <2>3, <2>4, <2>5, LinkAddsRows
<1>. QED
    BY <1>2, <1>3

\* A refused insertion leaves a page without rows, if any.
LEMMA InsertFailsKeepsRows ==
    ASSUME HeapInv, NEW r \in Records, InsertFails(r)
    PROVE  SameRows(Merged, Merged')
<1>. USE DEF HeapInv
<1>1. /\ status = "active" /\ nextPage < MaxPages /\ nextPage' = nextPage + 1
      /\ UNCHANGED <<pages, status, todo, reader>>
    BY DEF InsertFails
<1>2. CASE work' = [work EXCEPT ![nextPage] = Zero]
    BY <1>1, <1>2, ZeroStep DEF SameRows
<1>3. CASE work' = [work EXCEPT ![LastOf(Merged)] = LinkTo(Merged[LastOf(Merged)], nextPage),
                                ![nextPage] = Fresh]
    <2>1. Merged' = Extended(Merged, LastOf(Merged), nextPage, Fresh)
        BY <1>1, <1>3, LinkKeepsInv, NewImages DEF Fresh
    <2>2. nextPage \in PageId /\ Merged[nextPage] = Zero /\ Merged[Catalog] = Zero
        <3>1. nextPage \in PageId
            BY <1>1, HeapAssumption DEF PagesOK, PageId, First
        <3>. QED
            BY <3>1, BeyondTheFile, Numbers, ViewsAreViews
    <2>3. Merged \in Views /\ LinksAreSound(Merged) /\ Fresh.next = NoPage /\ Fresh.slots = <<>>
        BY ViewsAreViews DEF Sound, Fresh
    <2>. QED
        BY <2>1, <2>2, <2>3, NewImages, LinkAddsRows
<1>. QED
    BY <1>2, <1>3 DEF InsertFails

\* A deletion takes a row away.
LEMMA DeleteTakesRow ==
    ASSUME HeapInv, NEW r \in Records, DropRow(r)
    PROVE  RowRemoved(Merged, Merged', r)
<1>1. PICK s \in LiveRows(Merged, r) : work' = [work EXCEPT ![s[1]] = Deleting(Merged[s[1]], s[2])]
    BY DEF DropRow
<1>2. Merged' = [Merged EXCEPT ![s[1]] = Deleting(Merged[s[1]], s[2])]
    BY <1>1, DeleteStep DEF DropRow
<1>. QED
    BY <1>2, DeleteRemovesRow, ViewsAreViews DEF HeapInv

\* The end of a transaction: the shared pages are what Merged is then, and a
\* commit has made them so.
LEMMA EndOfTransaction ==
    ASSUME HeapInv, Rollback \/ CommitEnds
    PROVE  Merged' = pages /\ (CommitEnds => Merged = pages)
<1>1. Merged' = pages
    BY EndKeepsInv DEF Rollback, CommitEnds
<1>2. ASSUME CommitEnds PROVE Merged = pages
    <2>1. \A p \in PageId : work[p] # NoImage => pages[p] = work[p]
        BY <1>2 DEF CommitEnds, HeapInv, WorkIsPrivate
    <2>. QED
        BY <2>1, ViewsAreViews DEF HeapInv, Merged, Views
<1>. QED
    BY <1>1, <1>2

\* Every step, for what the transaction sees.
LEMMA StepsOnRows ==
    ASSUME HeapInv, LogTells, [Next]_vars, Intact'
    PROVE  \/ \E r \in Records : PutRow(r) /\ RowAdded(Merged, Merged', r)
           \/ \E r \in Records : DropRow(r) /\ RowRemoved(Merged, Merged', r)
           \/ \E r \in Records : InsertFails(r) /\ SameRows(Merged, Merged')
           \/ Begin /\ Merged' = Merged
           \/ CommitLogged /\ Merged' = Merged
           \/ Rollback /\ Merged' = pages
           \/ CommitEnds /\ Merged' = Merged /\ Merged = pages
           \/ /\ \E p \in PageId : CommitWrite(p)
              /\ Merged' = Merged /\ status' = status /\ status = "committing"
           \/ status' = "none" /\ Merged' = Shown /\ pages' = Shown
           \/ UNCHANGED <<pages, status>> /\ Merged' = Merged
<1>1. CASE UNCHANGED vars
    BY <1>1 DEF vars, txVars, Merged
<1>2. ASSUME NEW p \in PageId, CommitWrite(p)
      PROVE  Merged' = Merged /\ status' = status /\ status = "committing"
    <2>1. Merged' = Merged
        BY <1>2, CommitWriteStep
    <2>. QED
        BY <1>2, <2>1 DEF CommitWrite
<1>3. CASE ReadStart \/ ReadOpen \/ ReadScan
    BY <1>3 DEF ReadStart, ReadOpen, ReadScan, txVars, Merged
<1>4. CASE Begin \/ CommitLogged
    BY <1>4, MarkKeepsInv
<1>5. CASE Rollback \/ CommitEnds
    BY <1>5, EndOfTransaction
<1>6. CASE \E r \in Records : PutRow(r) \/ InsertFails(r) \/ DropRow(r)
    BY <1>6, InsertAddsRow, InsertFailsKeepsRows, DeleteTakesRow
<1>7. CASE Restart
    <2>1. "log" \notin gaps /\ status' = "none"
        BY <1>7 DEF Restart, Intact
    <2>. QED
        BY <1>7, <2>1, RestartKeepsInv
<1>. QED
    BY <1>1, <1>2, <1>3, <1>4, <1>5, <1>6, <1>7
    DEF Next, TxNext, Insert, InsertRefused, Delete, DeleteRefused

-----------------------------------------------------------------------------
(* Unique ids.                                                             *)

\* No two rows of a view have one id.
UniqueIn(view) ==
    \A q, t \in Records : \A s \in LiveRows(view, q), u \in LiveRows(view, t) :
        IdOf[q] = IdOf[t] => s = u

\* Neither in the transaction's view nor in what a rollback returns to.
IdInv == HasId => UniqueIn(Merged) /\ (status # "committing" => UniqueIn(pages))

\* The check for duplicates keeps ids unique.
LEMMA AddingUnique ==
    ASSUME NEW view, NEW view2, NEW r \in Records, RowAdded(view, view2, r), UniqueIn(view),
           ~ \E q \in Records : IdOf[q] = IdOf[r] /\ LiveRows(view, q) # {}
    PROVE  UniqueIn(view2)
<1>1. PICK s : \A q \in Records :
          LiveRows(view2, q) = LiveRows(view, q) \cup (IF q = r THEN {s} ELSE {})
    BY DEF RowAdded
<1>. SUFFICES ASSUME NEW q \in Records, NEW t \in Records,
                     NEW x \in LiveRows(view2, q), NEW y \in LiveRows(view2, t), IdOf[q] = IdOf[t]
              PROVE  x = y
    BY DEF UniqueIn
<1>2. CASE IdOf[q] = IdOf[r]
    <2>1. LiveRows(view, q) = {} /\ LiveRows(view, t) = {}
        BY <1>2
    <2>2. x \in {s}
        <3>1. LiveRows(view2, q) \subseteq {s}
            BY <1>1, <2>1
        <3>. QED
            BY <3>1
    <2>3. y \in {s}
        <3>1. LiveRows(view2, t) \subseteq {s}
            BY <1>1, <2>1
        <3>. QED
            BY <3>1
    <2>. QED
        BY <2>2, <2>3
<1>3. CASE IdOf[q] # IdOf[r]
    <2>1. q # r /\ t # r
        BY <1>3
    <2>2. x \in LiveRows(view, q) /\ y \in LiveRows(view, t)
        BY <1>1, <2>1
    <2>. QED
        BY <2>2 DEF UniqueIn
<1>. QED
    BY <1>2, <1>3

\* Fewer rows are no less unique.
LEMMA FewerUnique ==
    ASSUME NEW view, NEW view2, UniqueIn(view),
           \A q \in Records : LiveRows(view2, q) \subseteq LiveRows(view, q)
    PROVE  UniqueIn(view2)
BY DEF UniqueIn

\* It is kept by every step.
LEMMA IdNext == HeapInv /\ LogTells /\ Intact' /\ IdInv /\ [Next]_vars => IdInv'
<1>. SUFFICES ASSUME HeapInv, LogTells, Intact', IdInv, [Next]_vars, HasId
              PROVE  UniqueIn(Merged') /\ (status' # "committing" => UniqueIn(pages'))
    BY DEF IdInv, UniqueIn
<1>0. UniqueIn(Merged) /\ (status # "committing" => UniqueIn(pages))
    BY DEF IdInv
<1>1. ASSUME NEW r \in Records, PutRow(r), RowAdded(Merged, Merged', r)
      PROVE  UniqueIn(Merged') /\ UniqueIn(pages')
    <2>1. /\ ~ \E q \in Records : IdOf[q] = IdOf[r] /\ LiveRows(Merged, q) # {}
          /\ pages' = pages /\ status = "active"
        BY <1>1 DEF PutRow, Duplicate
    <2>. QED
        BY <1>0, <1>1, <2>1, AddingUnique
<1>2. ASSUME NEW r \in Records, DropRow(r), RowRemoved(Merged, Merged', r)
      PROVE  UniqueIn(Merged') /\ UniqueIn(pages')
    <2>1. \A q \in Records : LiveRows(Merged', q) \subseteq LiveRows(Merged, q)
        BY <1>2 DEF RowRemoved
    <2>2. pages' = pages /\ status = "active"
        BY <1>2 DEF DropRow
    <2>. QED
        BY <1>0, <2>1, <2>2, FewerUnique
<1>3. ASSUME NEW r \in Records, InsertFails(r), SameRows(Merged, Merged')
      PROVE  UniqueIn(Merged') /\ UniqueIn(pages')
    <2>1. \A q \in Records : LiveRows(Merged', q) \subseteq LiveRows(Merged, q)
        BY <1>3 DEF SameRows
    <2>2. pages' = pages /\ status = "active"
        BY <1>3 DEF InsertFails
    <2>. QED
        BY <1>0, <2>1, <2>2, FewerUnique
<1>4. CASE (Begin \/ CommitLogged) /\ Merged' = Merged
    BY <1>0, <1>4 DEF Begin, CommitLogged
<1>5. CASE Rollback /\ Merged' = pages
    BY <1>0, <1>5 DEF Rollback
<1>6. CASE CommitEnds /\ Merged' = Merged /\ Merged = pages
    BY <1>0, <1>6 DEF CommitEnds
<1>7. CASE Merged' = Merged /\ status' = status /\ (status = "committing" \/ pages' = pages)
    BY <1>0, <1>7
<1>8. CASE status' = "none" /\ Merged' = Shown /\ pages' = Shown
    BY <1>0, <1>8 DEF Shown
<1>. QED
    BY <1>1, <1>2, <1>3, <1>4, <1>5, <1>6, <1>7, <1>8, StepsOnRows

\* No two rows of a table with an id column have one id: the comment at
\* table_manager.go:219, for transactions that take turns and over restarts.
THEOREM IdsStayUnique == Spec => []IdsAreUnique
<1>1. Init => IdInv
    <2>. SUFFICES ASSUME Init, NEW q PROVE LiveRows(Merged, q) = {} /\ LiveRows(pages, q) = {}
        BY DEF IdInv, UniqueIn
    <2>1. Merged = pages
        BY DEF Init, Merged, NoWork
    <2>2. \A p \in PageId : pages[p].slots = <<>>
        BY DEF Init, Zero, Fresh
    <2>3. Chain(pages) \subseteq PageId
        BY DEF Chain, ChainFrom
    <2>. QED
        BY <2>1, <2>2, <2>3, RowsAreSlots
<1>2. HeapInv /\ IdInv => IdsAreUnique
    <2>. SUFFICES ASSUME HeapInv, UniqueIn(Merged), NEW s \in Live(Merged), NEW u \in Live(Merged),
                         IdOf[Merged[s[1]].slots[s[2]].rec] = IdOf[Merged[u[1]].slots[u[2]].rec]
                  PROVE  s = u
        BY DEF IdInv, IdsAreUnique
    <2>1. ASSUME NEW x \in Live(Merged)
          PROVE  \E q \in Records : q = Merged[x[1]].slots[x[2]].rec /\ x \in LiveRows(Merged, q)
        <3>1. PICK p \in Chain(Merged) : x \in LiveIn(Merged, p)
            BY DEF Live
        <3>2. p \in PageId /\ x[1] = p /\ x[2] \in DOMAIN Merged[p].slots
            BY <3>1 DEF LiveIn, Chain, ChainFrom
        <3>3. Merged[p].slots[x[2]].rec \in Records
            BY <3>2, RowsAreRecords, ViewsAreViews DEF HeapInv
        <3>. QED
            BY <3>2, <3>3 DEF LiveRows
    <2>. QED
        BY <2>1 DEF UniqueIn
<1>3. TableInv /\ (Intact => IdInv) => IdsAreUnique
    BY <1>2 DEF TableInv, IdsAreUnique
<1>4. TableInv /\ (Intact => IdInv) /\ [Next]_vars => (Intact => IdInv)'
    <2>. SUFFICES ASSUME TableInv, Intact => IdInv, [Next]_vars, Intact' PROVE IdInv'
        OBVIOUS
    <2>1. CASE Intact
        BY <2>1, IdNext DEF TableInv
    <2>2. CASE ~ Intact
        <3>1. UNCHANGED gaps
            BY <2>2, GapIsTheEnd DEF TableInv, vars, logVars
        <3>. QED
            BY <2>2, <3>1 DEF Intact
    <2>. QED
        BY <2>1, <2>2
<1>. QED
    BY <1>1, <1>3, <1>4, TableInit, TableNext, PTL DEF Spec

-----------------------------------------------------------------------------
(* RowStore.                                                               *)

\* The bag counts the rows of each record.
LEMMA BagCounts == \A view : BagOf(view) = [r \in Records |-> Cardinality(LiveRows(view, r))]
BY DEF BagOf, LiveRows

\* A row more is one more of its record, a row less one less.
LEMMA AddedInBag ==
    ASSUME NEW view \in Views, NEW view2, NEW r \in Records, RowAdded(view, view2, r)
    PROVE  BagOf(view2) = [BagOf(view) EXCEPT ![r] = @ + 1]
<1>1. PICK s : \A q \in Records :
          /\ s \notin LiveRows(view, r)
          /\ LiveRows(view2, q) = LiveRows(view, q) \cup (IF q = r THEN {s} ELSE {})
    BY DEF RowAdded
<1>2. Cardinality(LiveRows(view2, r)) = Cardinality(LiveRows(view, r)) + 1
    <2>1. LiveRows(view2, r) = LiveRows(view, r) \cup {s} /\ s \notin LiveRows(view, r)
        BY <1>1
    <2>2. IsFiniteSet(LiveRows(view, r))
        BY RowsAreFinite
    <2>. QED
        BY <2>1, <2>2, FS_AddElement
<1>3. \A q \in Records : q # r => LiveRows(view2, q) = LiveRows(view, q)
    BY <1>1
<1>. QED
    BY <1>2, <1>3, BagCounts

\* The same for a deletion.
LEMMA RemovedFromBag ==
    ASSUME NEW view \in Views, NEW view2, NEW r \in Records, RowRemoved(view, view2, r)
    PROVE  BagOf(view)[r] > 0 /\ BagOf(view2) = [BagOf(view) EXCEPT ![r] = @ - 1]
<1>1. PICK s \in LiveRows(view, r) : \A q \in Records :
          LiveRows(view2, q) = LiveRows(view, q) \ (IF q = r THEN {s} ELSE {})
    BY DEF RowRemoved
<1>2. /\ Cardinality(LiveRows(view2, r)) = Cardinality(LiveRows(view, r)) - 1
      /\ Cardinality(LiveRows(view, r)) > 0
    <2>1. LiveRows(view2, r) = LiveRows(view, r) \ {s} /\ LiveRows(view, r) # {}
        BY <1>1
    <2>2. IsFiniteSet(LiveRows(view, r))
        BY RowsAreFinite
    <2>3. Cardinality(LiveRows(view, r)) \in Nat /\ Cardinality(LiveRows(view, r)) # 0
        BY <2>1, <2>2, FS_CardinalityType, FS_EmptySet
    <2>4. Cardinality(LiveRows(view, r) \ {s}) = Cardinality(LiveRows(view, r)) - 1
        BY <2>2, FS_RemoveElement
    <2>5. Cardinality(LiveRows(view, r)) > 0
        BY <2>3
    <2>. QED
        BY <2>1, <2>4, <2>5
<1>3. \A q \in Records : q # r => LiveRows(view2, q) = LiveRows(view, q)
    BY <1>1
<1>. QED
    BY <1>2, <1>3, BagCounts

\* A record of which there is no row is not in the bag.
LEMMA NoneInBag ==
    ASSUME NEW view \in Views, NEW q \in Records
    PROVE  BagOf(view)[q] > 0 <=> LiveRows(view, q) # {}
<1>1. IsFiniteSet(LiveRows(view, q))
    BY RowsAreFinite
<1>2. Cardinality(LiveRows(view, q)) \in Nat /\ (Cardinality(LiveRows(view, q)) = 0 <=> LiveRows(view, q) = {})
    BY <1>1, FS_CardinalityType, FS_EmptySet
<1>. QED
    BY <1>2, BagCounts

\* A new table is an empty bag.
LEMMA RowInit == Init => Rows!Init
<1>. SUFFICES ASSUME Init PROVE Rows!Init
    OBVIOUS
<1>1. Merged = pages /\ status = "none"
    BY DEF Init, Merged, NoWork
<1>2. \A q \in Records : LiveRows(pages, q) = {}
    <2>1. \A p \in PageId : pages[p].slots = <<>>
        BY DEF Init, Zero, Fresh
    <2>2. Chain(pages) \subseteq PageId
        BY DEF Chain, ChainFrom
    <2>. QED
        BY <2>1, <2>2, RowsAreSlots
<1>3. BagOf(pages) = Rows!Empty
    BY <1>2, BagCounts, FS_EmptySet DEF Rows!Empty
<1>. QED
    BY <1>1, <1>3 DEF Rows!Init

\* Every step is one of the bag, or does not show.
LEMMA RowNext == HeapInv /\ LogTells /\ Intact' /\ [Next]_vars => [Rows!Next]_(Rows!rowVars)
<1>. SUFFICES ASSUME HeapInv, LogTells, Intact', [Next]_vars PROVE [Rows!Next]_(Rows!rowVars)
    OBVIOUS
<1>. DEFINE rows == BagOf(Shown)
            mine == BagOf(Merged)
            open == status = "active"
<1>1. Merged \in Views /\ pages \in Views
    BY ViewsAreViews DEF HeapInv
<1>2. status = "none" => Merged = pages
    BY <1>1 DEF HeapInv, WorkIsPrivate, Merged, NoWork, Views
<1>3. ASSUME NEW r \in Records, PutRow(r), RowAdded(Merged, Merged', r) PROVE Rows!Insert(r)
    <2>1. mine' = [mine EXCEPT ![r] = @ + 1]
        BY <1>1, <1>3, AddedInBag
    <2>2. HasId => ~ Rows!IdTaken(r)
        <3>1. HasId => ~ \E q \in Records : IdOf[q] = IdOf[r] /\ LiveRows(Merged, q) # {}
            BY <1>3 DEF PutRow, Duplicate
        <3>. QED
            BY <1>1, <3>1, NoneInBag DEF Rows!IdTaken
    <2>3. open /\ open' = open /\ rows' = rows
        BY <1>3 DEF PutRow, Shown
    <2>. QED
        BY <2>1, <2>2, <2>3 DEF Rows!Insert, Shown
<1>4. ASSUME NEW r \in Records, DropRow(r), RowRemoved(Merged, Merged', r) PROVE Rows!Delete(r)
    <2>1. mine[r] > 0 /\ mine' = [mine EXCEPT ![r] = @ - 1]
        BY <1>1, <1>4, RemovedFromBag
    <2>2. open /\ open' = open /\ rows' = rows
        BY <1>4 DEF DropRow, Shown
    <2>. QED
        BY <2>1, <2>2 DEF Rows!Delete, Shown
<1>5. ASSUME NEW r \in Records, InsertFails(r), SameRows(Merged, Merged')
      PROVE  UNCHANGED Rows!rowVars
    <2>1. mine' = mine
        BY <1>5, BagCounts DEF SameRows
    <2>2. open' = open /\ rows' = rows
        BY <1>5 DEF InsertFails, Shown
    <2>. QED
        BY <2>1, <2>2 DEF Rows!rowVars, Shown
<1>6. CASE Begin /\ Merged' = Merged
    <2>1. ~ open /\ open' = TRUE /\ rows' = rows /\ mine' = mine
        BY <1>6 DEF Begin, Shown
    <2>. QED
        BY <2>1 DEF Rows!Begin, Rows!Next, Shown
<1>7. CASE CommitLogged /\ Merged' = Merged
    <2>1. open /\ open' = FALSE /\ rows' = mine /\ mine' = mine
        BY <1>7 DEF CommitLogged, Shown
    <2>. QED
        BY <2>1 DEF Rows!Commit, Rows!Next, Shown
<1>8. CASE Rollback /\ Merged' = pages
    <2>1. open /\ open' = FALSE /\ rows' = rows /\ mine' = rows
        BY <1>8 DEF Rollback, Shown
    <2>. QED
        BY <2>1 DEF Rows!Abort, Rows!Next, Shown
<1>9. CASE CommitEnds /\ Merged' = Merged /\ Merged = pages
    <2>1. open' = open /\ rows' = rows /\ mine' = mine
        BY <1>9 DEF CommitEnds, Shown
    <2>. QED
        BY <2>1 DEF Rows!rowVars, Shown
<1>10. CASE Merged' = Merged /\ status' = status /\ (status = "committing" \/ pages' = pages)
    <2>1. open' = open /\ rows' = rows /\ mine' = mine
        BY <1>10 DEF Shown
    <2>. QED
        BY <2>1 DEF Rows!rowVars, Shown
<1>11. CASE status' = "none" /\ Merged' = Shown /\ pages' = Shown
    <2>1. open' = FALSE /\ rows' = rows /\ mine' = rows
        BY <1>11 DEF Shown
    <2>2. CASE open
        BY <2>1, <2>2 DEF Rows!Abort, Rows!Next, Shown
    <2>3. CASE ~ open
        <3>1. mine = rows
            BY <1>2, <2>3 DEF Shown, HeapInv, PagesOK
        <3>. QED
            BY <2>1, <2>3, <3>1 DEF Rows!rowVars, Shown
    <2>. QED
        BY <2>2, <2>3
<1>. QED
    BY <1>3, <1>4, <1>5, <1>6, <1>7, <1>8, <1>9, <1>10, <1>11, StepsOnRows DEF Rows!Next

\* To transactions a table is the bag of rows of RowStore, which each of them
\* changes as a whole and which a restart keeps, until one redoes a log with a
\* gap.
THEOREM RowStoreIsImplemented == Spec => ImplementsRows
<1>. DEFINE Step == Intact' => UNCHANGED <<pages, txVars>> \/ Rows!Next
<1>1. TableInv /\ [Next]_vars => [Step]_(Rows!rowVars)
    <2>. SUFFICES ASSUME TableInv, [Next]_vars, Intact' PROVE [Step]_(Rows!rowVars)
        OBVIOUS
    <2>1. CASE Intact
        BY <2>1, RowNext DEF TableInv
    <2>2. CASE UNCHANGED vars
        BY <2>2 DEF vars
    <2>. QED
        BY <2>1, <2>2, IntactBefore
<1>. HIDE DEF Step
<1>2. Spec => [][Step]_(Rows!rowVars)
    BY <1>1, TableInit, TableNext, PTL DEF Spec
<1>3. Spec => Rows!Init
    BY RowInit DEF Spec
<1>. QED
    BY <1>2, <1>3 DEF ImplementsRows, Step
=============================================================================
