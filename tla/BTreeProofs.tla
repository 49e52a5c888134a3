----------------------------- MODULE BTreeProofs -----------------------------
(***************************************************************************)
(* The B+ tree answers every search with what was inserted, or with "not   *)
(* found"; between insertions, and until the catalog has lost the root, it *)
(* finds every key, and a scan all those of a range; and its nodes keep    *)
(* their shape afterwards too: for every number of keys, order of the      *)
(* nodes and number of pages.                                              *)
(***************************************************************************)
EXTENDS BTree, FiniteSetTheorems, SequenceTheorems, WellFoundedInduction, TLAPS

-----------------------------------------------------------------------------
(* Least and greatest elements.                                            *)

\* A nonempty set of naturals has a least element.
LEMMA SmallestOf ==
    ASSUME NEW T \in SUBSET Nat, T # {}
    PROVE  \E x \in T : \A y \in T : x <= y
<1>. DEFINE R == {p \in Nat \X Nat : p[1] < p[2]}
<1>1. IsWellFoundedOn(R, Nat)
    BY NatLessThanWellFounded DEF OpToRel
<1>2. PICK x \in T : \A y \in T : <<y, x>> \notin R
    BY <1>1, WFMin
<1>3. ASSUME NEW y \in T, y < x PROVE FALSE
    BY <1>2, <1>3
<1>. QED
    BY <1>3

\* A nonempty set of indices up to l has a greatest element.
LEMMA LargestOf ==
    ASSUME NEW l \in Nat, NEW I \in SUBSET (1 .. l), I # {}
    PROVE  \E x \in I : \A y \in I : y <= x
<1>. DEFINE J == {z \in Nat : l - z \in I}
<1>1. \A y \in I : l - y \in Nat /\ l - (l - y) = y
    OBVIOUS
<1>2. \A y \in I : l - y \in J
    BY <1>1
<1>3. J \in SUBSET Nat /\ J # {}
    BY <1>2
<1>4. PICK z \in J : \A w \in J : z <= w
    BY <1>3, SmallestOf
<1>5. ASSUME NEW y \in I PROVE y <= l - z
    <2>1. z <= l - y /\ y \in Nat /\ z \in Nat
        BY <1>2, <1>4
    <2>. QED
        BY <2>1
<1>. QED
    BY <1>4, <1>5

-----------------------------------------------------------------------------
(* Functions that are defined by recursion over the naturals.              *)

\* F says for each of l steps where it leads from an element of X.
StepsOf(F, l, X) == F \in [1 .. l -> [X -> X]]

\* f starts from a and goes those steps.
Goes(f, l, X, a, F) == f \in [0 .. l -> X] /\ f[0] = a /\ \A i \in 1 .. l : f[i] = F[i][f[i - 1]]

\* Steps can be gone.
LEMMA Iteration ==
    ASSUME NEW l \in Nat, NEW X, NEW a \in X, NEW F, StepsOf(F, l, X)
    PROVE  \E f : Goes(f, l, X, a, F)
<1>. USE DEF StepsOf
<1>. DEFINE Is(f, i) == f[0] = a /\ \A j \in 1 .. i : f[j] = F[j][f[j - 1]]
            Bad == {i \in 0 .. l : ~ \E f \in [0 .. i -> X] : Is(f, i)}
<1>1. Bad = {}
    <2>. SUFFICES ASSUME Bad # {} PROVE FALSE
        OBVIOUS
    <2>1. Bad \in SUBSET Nat
        OBVIOUS
    <2>2. PICK i \in Bad : \A j \in Bad : i <= j
        BY <2>1, SmallestOf
    <2>3. i # 0
        <3>. DEFINE f == [j \in 0 .. 0 |-> a]
        <3>1. f \in [0 .. 0 -> X] /\ Is(f, 0)
            OBVIOUS
        <3>. QED
            BY <2>2, <3>1
    <2>4. i \in 1 .. l /\ i - 1 \in 0 .. l /\ ~ (i <= i - 1)
        BY <2>2, <2>3
    <2>5. PICK f \in [0 .. i - 1 -> X] : Is(f, i - 1)
        BY <2>2, <2>4
    <2>. DEFINE g == [j \in 0 .. i |-> IF j = i THEN F[i][f[i - 1]] ELSE f[j]]
    <2>6. f[i - 1] \in X /\ F[i][f[i - 1]] \in X
        BY <2>4, <2>5
    <2>7. g \in [0 .. i -> X]
        BY <2>4, <2>5, <2>6
    <2>8. g[0] = a /\ g[i] = F[i][f[i - 1]] /\ \A j \in 0 .. i - 1 : g[j] = f[j]
        BY <2>4, <2>5
    <2>. HIDE DEF g
    <2>9. ASSUME NEW j \in 1 .. i PROVE g[j] = F[j][g[j - 1]]
        <3>1. CASE j = i
            <4>1. g[i - 1] = f[i - 1]
                BY <2>4, <2>8
            <4>. QED
                BY <2>8, <3>1, <4>1
        <3>2. CASE j # i
            <4>1. j \in 1 .. i - 1 /\ j - 1 \in 0 .. i - 1 /\ j \in 0 .. i - 1
                BY <2>4, <3>2
            <4>2. f[j] = F[j][f[j - 1]]
                BY <2>5, <4>1
            <4>. QED
                BY <2>8, <4>1, <4>2
        <3>. QED
            BY <3>1, <3>2
    <2>. QED
        BY <2>2, <2>7, <2>8, <2>9
<1>2. l \in 0 .. l
    OBVIOUS
<1>. HIDE DEF Is
<1>3. \E f \in [0 .. l -> X] : Is(f, l)
    BY <1>1, <1>2
<1>. QED
    BY <1>3 DEF Is, Goes

\* A function whose values follow each other in X has its values there.
LEMMA StaysIn ==
    ASSUME NEW l \in Nat, NEW X, NEW g, g = [i \in 0 .. l |-> g[i]], g[0] \in X,
           \A i \in 1 .. l : g[i - 1] \in X => g[i] \in X
    PROVE  g \in [0 .. l -> X]
<1>. DEFINE Bad == {i \in 0 .. l : g[i] \notin X}
<1>1. Bad = {}
    <2>. SUFFICES ASSUME Bad # {} PROVE FALSE
        OBVIOUS
    <2>1. Bad \in SUBSET Nat
        OBVIOUS
    <2>2. PICK i \in Bad : \A j \in Bad : i <= j
        BY <2>1, SmallestOf
    <2>3. i \in 1 .. l /\ i - 1 \in 0 .. l /\ ~ (i <= i - 1)
        BY <2>2
    <2>. QED
        BY <2>2, <2>3
<1>. QED
    BY <1>1

-----------------------------------------------------------------------------
(* The inductive invariant.                                                *)

\* A node, perhaps with a key too many.
Formed(n) ==
    /\ n \in Node
    /\ Len(n.ptrs) = Len(n.keys) + (IF n.leaf THEN 0 ELSE 1)
    /\ ~ n.leaf => n.ptrs \in Seq(PageId)

\* A node that fits in a page.
Typed(n) == Formed(n) /\ Len(n.keys) <= Order

\* The keys of a node ascend.
Sorted(n) == \A i, j \in DOMAIN n.keys : i < j => n.keys[i] < n.keys[j]

\* A leaf that says of its keys what es does.
Honest(n, es) ==
    n.leaf => /\ Sorted(n)
              /\ \A i \in DOMAIN n.keys : n.ptrs[i] \in HeapPages /\ n.ptrs[i] = es[n.keys[i]]

\* The nodes in the pages, and those still to be written.
NodesInv ==
    /\ pages \in [PageId -> Node] /\ queue \in Seq([id : PageId, node : Node])
    /\ \A p \in PageId : Typed(pages[p]) /\ Honest(pages[p], entries)
    /\ \A i \in DOMAIN queue : Typed(queue[i].node) /\ Honest(queue[i].node, entries)

\* A node has room for two keys at least.
LEMMA OrderFacts == Order \in Nat /\ Order >= 2
BY BTreeAssumption DEF Order, PageHeaderSize, PidSize

\* What InsertAt makes of a sequence.
LEMMA InsertAtFacts ==
    ASSUME NEW S, NEW s \in Seq(S), NEW i \in 1 .. Len(s) + 1, NEW e \in S
    PROVE  /\ InsertAt(s, i, e) \in Seq(S) /\ Len(InsertAt(s, i, e)) = Len(s) + 1
           /\ \A j \in 1 .. Len(s) + 1 :
                 InsertAt(s, i, e)[j] = IF j < i THEN s[j] ELSE IF j = i THEN e ELSE s[j - 1]
<1>. DEFINE a == SubSeq(s, 1, i - 1)
            b == SubSeq(s, i, Len(s))
            t == a \o <<e>>
<1>1. Len(s) \in Nat /\ \A j \in 1 .. Len(s) : s[j] \in S
    BY LenProperties
<1>2. a \in Seq(S) /\ Len(a) = i - 1 /\ \A j \in 1 .. i - 1 : a[j] = s[j]
    <2>1. \A j \in 1 .. i - 1 : s[j] \in S
        BY <1>1
    <2>. QED
        BY <1>1, <2>1, SubSeqProperties
<1>3. b \in Seq(S) /\ Len(b) = Len(s) - i + 1 /\ \A j \in 1 .. Len(s) - i + 1 : b[j] = s[j + i - 1]
    <2>1. \A j \in i .. Len(s) : s[j] \in S
        BY <1>1
    <2>. QED
        BY <1>1, <2>1, SubSeqProperties
<1>. HIDE DEF a, b
<1>4. <<e>> \in Seq(S) /\ Len(<<e>>) = 1 /\ <<e>>[1] = e
    OBVIOUS
<1>5. t \in Seq(S) /\ Len(t) = i /\ \A j \in 1 .. i : t[j] = IF j < i THEN s[j] ELSE e
    BY <1>1, <1>2, <1>4, ConcatProperties
<1>. HIDE DEF t
<1>6. /\ t \o b \in Seq(S) /\ Len(t \o b) = Len(s) + 1
      /\ \A j \in 1 .. Len(s) + 1 : (t \o b)[j] = IF j <= i THEN t[j] ELSE b[j - i]
    <2>1. Len(s) + 1 = Len(t) + Len(b)
        BY <1>1, <1>3, <1>5
    <2>2. t \o b \in Seq(S) /\ Len(t \o b) = Len(t) + Len(b)
        BY <1>3, <1>5, ConcatProperties
    <2>3. \A j \in 1 .. Len(t) + Len(b) : (t \o b)[j] = IF j <= Len(t) THEN t[j] ELSE b[j - Len(t)]
        BY <1>3, <1>5, ConcatProperties
    <2>. QED
        BY <1>5, <2>1, <2>2, <2>3
<1>7. InsertAt(s, i, e) = t \o b
    BY DEF InsertAt, t, a, b
<1>. QED
    BY <1>1, <1>3, <1>5, <1>6, <1>7

\* What SubSeq makes of a sequence.
LEMMA SubSeqFacts ==
    ASSUME NEW S, NEW s \in Seq(S), NEW m \in Nat, NEW n \in Nat, 1 <= m, m <= n + 1, n <= Len(s)
    PROVE  /\ SubSeq(s, m, n) \in Seq(S) /\ Len(SubSeq(s, m, n)) = n - m + 1
           /\ \A i \in 1 .. n - m + 1 : SubSeq(s, m, n)[i] = s[m + i - 1]
<1>1. \A i \in m .. n : s[i] \in S
    BY LenProperties
<1>. QED
    BY <1>1, SubSeqProperties

\* Where Place puts a key.
LEMMA PlaceFacts ==
    ASSUME NEW n \in Node, NEW k \in Nat
    PROVE  /\ Place(n, k) \in 1 .. Len(n.keys) + 1
           /\ \A j \in 1 .. Place(n, k) - 1 : n.keys[j] < k
           /\ Place(n, k) <= Len(n.keys) => n.keys[Place(n, k)] >= k
<1>. DEFINE Ks == n.keys
            Is(i) == (\A j \in 1 .. i - 1 : n.keys[j] < k) /\ (i <= Len(n.keys) => n.keys[i] >= k)
            Late == {i \in 1 .. Len(n.keys) + 1 : i <= Len(n.keys) => n.keys[i] >= k}
<1>1. Len(n.keys) \in Nat /\ \A i \in 1 .. Len(n.keys) : n.keys[i] \in Nat
    BY LenProperties, BTreeAssumption DEF Node, Key
<1>2. Late \in SUBSET Nat /\ Len(n.keys) + 1 \in Late
    BY <1>1
<1>3. PICK i \in Late : \A j \in Late : i <= j
    BY <1>2, SmallestOf
<1>4. i \in 1 .. Len(n.keys) + 1 /\ Is(i)
    BY <1>1, <1>3
<1>. QED
    BY <1>4 DEF Place

\* No other index is the place.
LEMMA PlaceIs ==
    ASSUME NEW n \in Node, NEW k \in Nat, NEW i \in 1 .. Len(n.keys) + 1,
           \A j \in 1 .. i - 1 : n.keys[j] < k, i <= Len(n.keys) => n.keys[i] >= k
    PROVE  Place(n, k) = i
<1>. DEFINE p == Place(n, k)
<1>1. /\ p \in 1 .. Len(n.keys) + 1 /\ \A j \in 1 .. p - 1 : n.keys[j] < k
      /\ p <= Len(n.keys) => n.keys[p] >= k
    BY PlaceFacts
<1>2. Len(n.keys) \in Nat /\ \A j \in 1 .. Len(n.keys) : n.keys[j] \in Nat
    BY LenProperties, BTreeAssumption DEF Node, Key
<1>. HIDE DEF p
<1>3. ~ (p < i)
    BY <1>1, <1>2
<1>4. ~ (i < p)
    BY <1>1, <1>2
<1>5. p = i
    BY <1>1, <1>2, <1>3, <1>4
<1>. QED
    BY <1>5 DEF p

\* What a node is.
LEMMA NodeFacts ==
    ASSUME NEW n, Formed(n)
    PROVE  /\ n.leaf \in BOOLEAN /\ n.keys \in Seq(Key) /\ n.ptrs \in Seq(PageId \cup HeapPages)
           /\ n.parent \in PageId \cup {NoPage}
           /\ Len(n.keys) \in Nat /\ DOMAIN n.keys = 1 .. Len(n.keys)
           /\ Len(n.ptrs) \in Nat /\ DOMAIN n.ptrs = 1 .. Len(n.ptrs)
           /\ n.leaf => Len(n.ptrs) = Len(n.keys)
           /\ ~ n.leaf => /\ Len(n.ptrs) = Len(n.keys) + 1
                          /\ \A i \in 1 .. Len(n.keys) + 1 : n.ptrs[i] \in PageId
           /\ \A i \in 1 .. Len(n.keys) : n.keys[i] \in Key /\ n.keys[i] \in Nat
<1>1. n \in Node /\ n.keys \in Seq(Key) /\ n.ptrs \in Seq(PageId \cup HeapPages)
    BY DEF Formed, Node
<1>2. Len(n.keys) \in Nat /\ DOMAIN n.keys = 1 .. Len(n.keys) /\ Len(n.ptrs) \in Nat /\ DOMAIN n.ptrs = 1 .. Len(n.ptrs)
    BY <1>1, LenProperties
<1>3. \A i \in 1 .. Len(n.keys) : n.keys[i] \in Key /\ n.keys[i] \in Nat
    BY <1>1, <1>2, LenProperties, BTreeAssumption DEF Key
<1>4. ~ n.leaf => \A i \in 1 .. Len(n.ptrs) : n.ptrs[i] \in PageId
    BY <1>1, LenProperties DEF Formed
<1>. QED
    BY <1>1, <1>2, <1>3, <1>4 DEF Formed, Node

\* The index of the child that leads to a key.
Way(n, k) == Place(n, k + 1)

\* Where Way leads.
LEMMA WayFacts ==
    ASSUME NEW n, Formed(n), NEW k \in Nat
    PROVE  /\ Way(n, k) \in 1 .. Len(n.keys) + 1
           /\ \A j \in 1 .. Way(n, k) - 1 : n.keys[j] <= k
           /\ Way(n, k) <= Len(n.keys) => n.keys[Way(n, k)] > k
<1>. DEFINE w == Place(n, k + 1)
<1>1. /\ w \in 1 .. Len(n.keys) + 1 /\ \A j \in 1 .. w - 1 : n.keys[j] < k + 1
      /\ w <= Len(n.keys) => n.keys[w] >= k + 1
    <2>1. n \in Node /\ k + 1 \in Nat
        BY DEF Formed
    <2>. QED
        BY <2>1, PlaceFacts
<1>. HIDE DEF w
<1>2. Len(n.keys) \in Nat /\ \A j \in 1 .. Len(n.keys) : n.keys[j] \in Nat
    BY NodeFacts
<1>3. /\ \A j \in 1 .. w - 1 : n.keys[j] <= k
      /\ w <= Len(n.keys) => n.keys[w] > k
    BY <1>1, <1>2
<1>. QED
    BY <1>1, <1>3 DEF Way, w

\* No other index is the way.
LEMMA WayIs ==
    ASSUME NEW n, Formed(n), NEW k \in Nat, NEW i \in 1 .. Len(n.keys) + 1,
           \A j \in 1 .. i - 1 : n.keys[j] <= k, i <= Len(n.keys) => n.keys[i] > k
    PROVE  Way(n, k) = i
<1>1. Len(n.keys) \in Nat /\ \A j \in 1 .. Len(n.keys) : n.keys[j] \in Nat
    BY NodeFacts
<1>2. /\ \A j \in 1 .. i - 1 : n.keys[j] < k + 1
      /\ i <= Len(n.keys) => n.keys[i] >= k + 1
    BY <1>1
<1>. QED
    BY <1>2, PlaceIs DEF Formed, Way

\* A key of a sorted node is in its place.
LEMMA KeyIsInPlace ==
    ASSUME NEW n, Formed(n), Sorted(n), NEW k \in Key, Has(n, k)
    PROVE  Place(n, k) \in 1 .. Len(n.keys) /\ n.keys[Place(n, k)] = k
<1>. DEFINE p == Place(n, k)
<1>1. /\ p \in 1 .. Len(n.keys) + 1 /\ \A j \in 1 .. p - 1 : n.keys[j] < k
      /\ p <= Len(n.keys) => n.keys[p] >= k
    BY PlaceFacts, BTreeAssumption DEF Formed, Key
<1>. HIDE DEF p
<1>2. /\ Len(n.keys) \in Nat /\ DOMAIN n.keys = 1 .. Len(n.keys)
      /\ \A j \in 1 .. Len(n.keys) : n.keys[j] \in Nat
    BY NodeFacts
<1>3. PICK i \in 1 .. Len(n.keys) : n.keys[i] = k
    BY <1>2 DEF Has
<1>4. ~ (i < p)
    <2>1. i < p => i \in 1 .. p - 1
        BY <1>1, <1>2
    <2>. QED
        BY <1>1, <1>2, <1>3, <2>1
<1>5. ~ (p < i)
    <2>. SUFFICES ASSUME p < i PROVE FALSE
        OBVIOUS
    <2>1. p \in 1 .. Len(n.keys)
        BY <1>1, <1>2, <1>3
    <2>2. n.keys[p] < n.keys[i]
        BY <1>2, <1>3, <2>1 DEF Sorted
    <2>. QED
        BY <1>1, <1>2, <1>3, <2>1, <2>2
<1>6. p = i
    BY <1>1, <1>2, <1>4, <1>5
<1>. QED
    BY <1>3, <1>6 DEF p

-----------------------------------------------------------------------------
(* The way down.                                                           *)

\* A step of findLeaf stays among the pages.
LEMMA DownFacts ==
    ASSUME NodesInv, NEW p \in PageId, NEW k \in Key
    PROVE  /\ Down(p, k) \in PageId
           /\ pages[p].leaf \/ p = Catalog => Down(p, k) = p
           /\ ~ pages[p].leaf /\ p # Catalog =>
                 /\ Way(pages[p], k) \in DOMAIN pages[p].ptrs
                 /\ Down(p, k) = pages[p].ptrs[Way(pages[p], k)]
<1>1. Formed(pages[p]) /\ k \in Nat
    BY BTreeAssumption DEF NodesInv, Typed, Key
<1>2. ~ pages[p].leaf =>
         /\ Way(pages[p], k) \in DOMAIN pages[p].ptrs
         /\ pages[p].ptrs[Way(pages[p], k)] \in PageId
    BY <1>1, WayFacts, NodeFacts
<1>. QED
    BY <1>2 DEF Down, Child, Way

\* findLeaf goes down a node a step.
LEMMA FindLeafSteps ==
    ASSUME NodesInv, NEW from \in PageId, NEW k \in Key
    PROVE  \E at \in [0 .. MaxPages -> PageId] :
              /\ at[0] = from /\ \A i \in 1 .. MaxPages : at[i] = Down(at[i - 1], k)
              /\ FindLeaf(from, k) = at[MaxPages]
<1>. DEFINE Rec(at) == at = [i \in 0 .. MaxPages |-> IF i = 0 THEN from ELSE Down(at[i - 1], k)]
            F == [i \in 1 .. MaxPages |-> [p \in PageId |-> Down(p, k)]]
            at == CHOOSE at : Rec(at)
<1>0. MaxPages \in Nat
    BY BTreeAssumption
<1>1. \A p \in PageId : Down(p, k) \in PageId
    BY DownFacts
<1>2. StepsOf(F, MaxPages, PageId) /\ \A i \in 1 .. MaxPages : \A p \in PageId : F[i][p] = Down(p, k)
    BY <1>1 DEF StepsOf
<1>. HIDE DEF F
<1>3. PICK f : Goes(f, MaxPages, PageId, from, F)
    BY <1>0, <1>2, Iteration
<1>4. f \in [0 .. MaxPages -> PageId] /\ f[0] = from /\ \A i \in 1 .. MaxPages : f[i] = Down(f[i - 1], k)
    <2>1. \A i \in 1 .. MaxPages : i - 1 \in 0 .. MaxPages
        BY <1>0
    <2>. QED
        BY <1>2, <1>3, <2>1 DEF Goes
<1>5. Rec(f)
    BY <1>0, <1>4
<1>6. Rec(at)
    BY <1>5
<1>7. FindLeaf(from, k) = at[MaxPages]
    BY DEF FindLeaf
<1>. HIDE DEF at
<1>8. at[0] = from /\ \A i \in 1 .. MaxPages : at[i] = Down(at[i - 1], k)
    <2>. DEFINE step(i) == IF i = 0 THEN from ELSE Down(at[i - 1], k)
    <2>1. at = [i \in 0 .. MaxPages |-> step(i)]
        BY <1>6
    <2>. HIDE DEF step
    <2>2. \A i \in 0 .. MaxPages : at[i] = step(i)
        BY <2>1
    <2>. QED
        BY <1>0, <2>2 DEF step
<1>9. at = [i \in 0 .. MaxPages |-> at[i]]
    BY <1>6
<1>10. at \in [0 .. MaxPages -> PageId]
    <2>1. at[0] \in PageId /\ \A i \in 1 .. MaxPages : at[i - 1] \in PageId => at[i] \in PageId
        BY <1>1, <1>8
    <2>. QED
        BY <1>0, <1>9, <2>1, StaysIn, Zenon
<1>. QED
    BY <1>7, <1>8, <1>10

\* findLeaf stays among the pages.
LEMMA FindLeafFacts ==
    ASSUME NodesInv, NEW from \in PageId, NEW k \in Key
    PROVE  FindLeaf(from, k) \in PageId
BY FindLeafSteps, BTreeAssumption

\* A search of pages that say what was inserted says so.
LEMMA SearchIsHonest ==
    ASSUME NodesInv, NEW from \in PageId, NEW k \in Key
    PROVE  Search(from, k) \in {entries[k], NoValue}
<1>. DEFINE n == pages[FindLeaf(from, k)]
<1>1. Formed(n) /\ Honest(n, entries)
    BY FindLeafFacts DEF NodesInv, Typed
<1>2. Search(from, k) = IF n.leaf /\ Has(n, k) THEN n.ptrs[Place(n, k)] ELSE NoValue
    BY DEF Search
<1>. HIDE DEF n
<1>3. ASSUME n.leaf, Has(n, k) PROVE n.ptrs[Place(n, k)] = entries[k]
    <2>1. Place(n, k) \in 1 .. Len(n.keys) /\ n.keys[Place(n, k)] = k
        BY <1>1, <1>3, KeyIsInPlace DEF Honest
    <2>2. Place(n, k) \in DOMAIN n.keys
        BY <1>1, <2>1, NodeFacts
    <2>. QED
        BY <1>1, <1>3, <2>1, <2>2 DEF Honest
<1>. QED
    BY <1>2, <1>3

-----------------------------------------------------------------------------
(* A key more in a leaf.                                                   *)

\* A leaf with one more key: sorted, with its old entries and the new one.
LEMMA InLeafFacts ==
    ASSUME NEW n, Formed(n), n.leaf, Sorted(n), NEW k \in Key, ~ Has(n, k), NEW v \in HeapPages
    PROVE  LET m == InLeaf(n, k, v) IN
           /\ Formed(m) /\ m.leaf /\ m.parent = n.parent /\ m.next = n.next /\ Len(m.keys) = Len(n.keys) + 1
           /\ Sorted(m) /\ Has(m, k) /\ \A j \in DOMAIN n.keys : Has(m, n.keys[j])
           /\ \A j \in DOMAIN m.keys :
                 \/ m.keys[j] = k /\ m.ptrs[j] = v
                 \/ \E i \in DOMAIN n.keys : m.keys[j] = n.keys[i] /\ m.ptrs[j] = n.ptrs[i]
<1>. DEFINE m == InLeaf(n, k, v)
            p == Place(n, k)
            l == Len(n.keys)
            ks == InsertAt(n.keys, p, k)
            vs == InsertAt(n.ptrs, p, v)
<1>1. /\ n.keys \in Seq(Key) /\ n.ptrs \in Seq(PageId \cup HeapPages) /\ l \in Nat
      /\ Len(n.ptrs) = l /\ DOMAIN n.keys = 1 .. l /\ \A i \in 1 .. l : n.keys[i] \in Nat
    BY NodeFacts
<1>2. k \in Nat
    BY BTreeAssumption DEF Key
<1>3. p \in 1 .. l + 1 /\ (\A j \in 1 .. p - 1 : n.keys[j] < k) /\ (p <= l => n.keys[p] >= k)
    BY <1>2, PlaceFacts DEF Formed
<1>4. m = [n EXCEPT !.keys = ks, !.ptrs = vs]
    BY DEF InLeaf
<1>. HIDE DEF p
<1>k. n.keys \in Seq(Key) /\ p \in 1 .. Len(n.keys) + 1
    BY <1>1, <1>3
<1>v. n.ptrs \in Seq(PageId \cup HeapPages) /\ p \in 1 .. Len(n.ptrs) + 1 /\ v \in PageId \cup HeapPages
    BY <1>1, <1>3
<1>5. /\ ks \in Seq(Key) /\ Len(ks) = l + 1
      /\ \A j \in 1 .. l + 1 : ks[j] = IF j < p THEN n.keys[j] ELSE IF j = p THEN k ELSE n.keys[j - 1]
    <2>1. \A s \in Seq(Key) : p \in 1 .. Len(s) + 1 =>
             /\ InsertAt(s, p, k) \in Seq(Key) /\ Len(InsertAt(s, p, k)) = Len(s) + 1
             /\ \A j \in 1 .. Len(s) + 1 : InsertAt(s, p, k)[j] =
                   IF j < p THEN s[j] ELSE IF j = p THEN k ELSE s[j - 1]
        BY InsertAtFacts
    <2>. QED
        BY <1>k, <2>1, Zenon
<1>6. /\ vs \in Seq(PageId \cup HeapPages) /\ Len(vs) = l + 1
      /\ \A j \in 1 .. l + 1 : vs[j] = IF j < p THEN n.ptrs[j] ELSE IF j = p THEN v ELSE n.ptrs[j - 1]
    <2>1. \A s \in Seq(PageId \cup HeapPages) : p \in 1 .. Len(s) + 1 =>
             /\ InsertAt(s, p, v) \in Seq(PageId \cup HeapPages) /\ Len(InsertAt(s, p, v)) = Len(s) + 1
             /\ \A j \in 1 .. Len(s) + 1 : InsertAt(s, p, v)[j] =
                   IF j < p THEN s[j] ELSE IF j = p THEN v ELSE s[j - 1]
        BY <1>v, InsertAtFacts
    <2>2. /\ vs \in Seq(PageId \cup HeapPages) /\ Len(vs) = Len(n.ptrs) + 1
          /\ \A j \in 1 .. Len(n.ptrs) + 1 :
                vs[j] = IF j < p THEN n.ptrs[j] ELSE IF j = p THEN v ELSE n.ptrs[j - 1]
        BY <1>v, <2>1, Zenon
    <2>. QED
        BY <1>1, <2>2
<1>7. DOMAIN ks = 1 .. l + 1
    BY <1>1, <1>5, LenProperties
<1>. HIDE DEF ks, vs, m
<1>8. m \in Node /\ m.leaf /\ m.keys = ks /\ m.ptrs = vs /\ m.parent = n.parent /\ m.next = n.next
    BY <1>4, <1>5, <1>6 DEF Formed, Node
<1>9. Formed(m)
    BY <1>5, <1>6, <1>8 DEF Formed
<1>10. \A i \in 1 .. l : n.keys[i] # k
    BY <1>1 DEF Has
<1>11. \A i \in p .. l : n.keys[i] > k
    <2>. SUFFICES ASSUME NEW i \in p .. l PROVE n.keys[i] > k
        OBVIOUS
    <2>1. p \in 1 .. l /\ i \in 1 .. l /\ n.keys[p] \in Nat /\ n.keys[i] \in Nat
        BY <1>1, <1>3
    <2>2. n.keys[p] > k
        BY <1>2, <1>3, <1>10, <2>1
    <2>3. p < i => n.keys[p] < n.keys[i]
        BY <1>1, <2>1 DEF Sorted
    <2>. QED
        BY <1>2, <2>1, <2>2, <2>3
<1>12. Sorted(m)
    <2>. SUFFICES ASSUME NEW i \in 1 .. l + 1, NEW j \in 1 .. l + 1, i < j PROVE ks[i] < ks[j]
        BY <1>7, <1>8 DEF Sorted
    <2>1. CASE i < p /\ j < p
        <3>1. i \in 1 .. l /\ j \in 1 .. l /\ ks[i] = n.keys[i] /\ ks[j] = n.keys[j]
            BY <1>1, <1>3, <1>5, <2>1
        <3>2. n.keys[i] < n.keys[j]
            BY <1>1, <3>1 DEF Sorted
        <3>. QED
            BY <3>1, <3>2
    <2>2. CASE i < p /\ j = p
        BY <1>1, <1>3, <1>5, <2>2
    <2>3. CASE i < p /\ j > p
        <3>2. ks[i] = n.keys[i] /\ ks[j] = n.keys[j - 1]
            BY <1>1, <1>3, <1>5, <2>3, SMTT(60)
        <3>0. i \in 1 .. p - 1 /\ i \in 1 .. l /\ j - 1 \in p .. l /\ j - 1 \in 1 .. l
            BY <1>1, <1>3, <2>3
        <3>1. n.keys[i] < k /\ n.keys[j - 1] > k /\ n.keys[i] \in Nat /\ n.keys[j - 1] \in Nat
            BY <1>1, <1>3, <1>11, <3>0
        <3>. QED
            BY <1>2, <3>1, <3>2
    <2>4. CASE i = p
        BY <1>1, <1>3, <1>5, <1>11, <2>4, SMTT(60)
    <2>5. CASE i > p
        <3>1. i - 1 \in 1 .. l /\ j - 1 \in 1 .. l /\ i - 1 < j - 1
            BY <1>1, <1>3, <2>5
        <3>2. n.keys[i - 1] < n.keys[j - 1]
            BY <1>1, <3>1 DEF Sorted
        <3>3. ks[i] = n.keys[i - 1] /\ ks[j] = n.keys[j - 1]
            BY <1>1, <1>3, <1>5, <2>5
        <3>. QED
            BY <3>2, <3>3
    <2>. QED
        BY <1>1, <1>3, <2>1, <2>2, <2>3, <2>4, <2>5
<1>13. Has(m, k)
    <2>1. p \in 1 .. l + 1 /\ ks[p] = k
        BY <1>1, <1>3, <1>5
    <2>. QED
        BY <1>7, <1>8, <2>1 DEF Has
<1>14. ASSUME NEW j \in 1 .. l PROVE Has(m, n.keys[j])
    <2>1. CASE j < p
        <3>1. j \in 1 .. l + 1 /\ ks[j] = n.keys[j]
            BY <1>1, <1>3, <1>5, <2>1
        <3>. QED
            BY <1>7, <1>8, <3>1 DEF Has
    <2>2. CASE j >= p
        <3>1. j + 1 \in 1 .. l + 1 /\ ks[j + 1] = n.keys[j]
            BY <1>1, <1>3, <1>5, <2>2
        <3>. QED
            BY <1>7, <1>8, <3>1 DEF Has
    <2>. QED
        BY <1>1, <1>3, <2>1, <2>2
<1>15. ASSUME NEW j \in 1 .. l + 1
       PROVE  \/ ks[j] = k /\ vs[j] = v
              \/ \E i \in 1 .. l : ks[j] = n.keys[i] /\ vs[j] = n.ptrs[i]
    <2>1. CASE j < p
        BY <1>1, <1>3, <1>5, <1>6, <2>1
    <2>2. CASE j = p
        BY <1>5, <1>6, <2>2
    <2>3. CASE j > p
        <3>1. j - 1 \in 1 .. l /\ ks[j] = n.keys[j - 1] /\ vs[j] = n.ptrs[j - 1]
            BY <1>1, <1>3, <1>5, <1>6, <2>3
        <3>. QED
            BY <3>1
    <2>. QED
        BY <1>1, <1>3, <2>1, <2>2, <2>3
<1>. QED
    BY <1>1, <1>5, <1>7, <1>8, <1>9, <1>12, <1>13, <1>14, <1>15 DEF m

-----------------------------------------------------------------------------
(* The tree in pages T below nextPage np, between two steps of an          *)
(* insertion that has still to tell a parent of up.                        *)

\* T is a choice of a node for every page.
Forms(T) == T \in [PageId -> Node] /\ \A p \in PageId : Formed(T[p])

\* Page c is a child of page p.
IsChild(T, c, p) == \E i \in DOMAIN T[p].ptrs : T[p].ptrs[i] = c

\* The node that no parent has yet.
Unlinked(up) == IF up = NoClimb THEN Catalog ELSE up.right

\* The level of a page is its height over the leaves.
LevelsInv(T, level, np) ==
    /\ level \in [PageId -> Nat]
    /\ \A p \in 1 .. np - 1 : level[p] < np /\ (T[p].leaf <=> level[p] = 0)

\* A page with a parent is a child of it, except a half not yet told of.
ParentsInv(T, np, up) ==
    \A p \in 1 .. np - 1 : T[p].parent # NoPage /\ p # Unlinked(up) =>
        T[p].parent \in 1 .. np - 1 /\ ~ T[T[p].parent].leaf /\ IsChild(T, p, T[p].parent)

\* Children know their parent, are one level below it, differ and are not empty.
ChildrenInv(T, level, np, up) ==
    \A p \in 1 .. np - 1 : ~ T[p].leaf =>
        \A i \in DOMAIN T[p].ptrs :
            /\ T[p].ptrs[i] \in 1 .. np - 1 /\ T[p].ptrs[i] # Unlinked(up)
            /\ T[T[p].ptrs[i]].parent = p /\ level[T[p].ptrs[i]] + 1 = level[p]
            /\ T[T[p].ptrs[i]].keys # <<>>
            /\ \A j \in DOMAIN T[p].ptrs : T[p].ptrs[i] = T[p].ptrs[j] => i = j

\* The halves of a split are siblings.
HalvesInv(T, level, np, up) ==
    up # NoClimb =>
        /\ up.left \in 1 .. np - 1 /\ up.right \in 1 .. np - 1 /\ up.left # up.right
        /\ level[up.left] = level[up.right] /\ T[up.left].parent = T[up.right].parent
        /\ T[up.left].keys # <<>> /\ T[up.right].keys # <<>>

\* The shape of the tree T with np pages, while up is to be told to a parent.
Shape(T, level, np, up) ==
    /\ LevelsInv(T, level, np) /\ ParentsInv(T, np, up)
    /\ ChildrenInv(T, level, np, up) /\ HalvesInv(T, level, np, up)

-----------------------------------------------------------------------------
(* The keys R[p] that the way down from root leads to page p.              *)

\* Those of both halves, for the parent that knows the left one alone.
Whole(R, up, p) == IF up # NoClimb /\ p = up.left THEN R[p] \cup R[up.right] ELSE R[p]

\* R gives each page the keys that the descent from the root leads there.
RootRoutes(T, level, R, np, up, root) ==
    /\ R \in [PageId -> SUBSET Key]
    /\ T[root].parent = NoPage /\ Whole(R, up, root) = Key
    /\ \A p \in 1 .. np - 1 :
          /\ level[p] <= level[root]
          /\ T[p].parent = NoPage /\ p # Unlinked(up) => p = root

\* A node only has keys of its own.
KeyRoutes(T, R, np) ==
    \A p \in 1 .. np - 1 : Sorted(T[p]) /\ \A i \in DOMAIN T[p].keys : T[p].keys[i] \in R[p]

\* A child gets the keys whose way in its parent it is.
ChildRoutes(T, R, np, up) ==
    \A p \in 1 .. np - 1 : ~ T[p].leaf =>
        \A i \in DOMAIN T[p].ptrs : \A k \in Key :
            k \in Whole(R, up, T[p].ptrs[i]) <=> k \in R[p] /\ Way(T[p], k) = i

\* A leaf has every key of its own that es gives a value.
LeafRoutes(T, R, np, es) ==
    \A p \in 1 .. np - 1 : T[p].leaf => \A k \in R[p] : es[k] # NoValue => Has(T[p], k)

\* No two pages of a level share a key.
Apart(level, R, np) ==
    \A p, q \in 1 .. np - 1 : level[q] = level[p] /\ q # p => R[p] \cap R[q] = {}

\* The new separator divides the keys of the two halves.
CutRoutes(R, up) ==
    up # NoClimb => /\ \A k \in R[up.left] : k < up.key
                    /\ \A k \in R[up.right] : k >= up.key
                    /\ up.key \in R[up.right]

\* The list of leaves follows the keys.
NextRoutes(T, R, np) ==
    \A p \in 1 .. np - 1 : T[p].leaf =>
        /\ \A k \in R[p] : k + 1 \in Key =>
              k + 1 \in R[p] \/ (T[p].next # NoPage /\ k + 1 \in R[T[p].next])
        /\ T[p].next # NoPage =>
              /\ T[p].next \in 1 .. np - 1 /\ T[T[p].next].leaf /\ R[T[p].next] # {}
              /\ \A k \in R[p], m \in R[T[p].next] : k < m

\* Every key finds its way from the root.
Routes(T, level, R, np, up, root, es) ==
    /\ RootRoutes(T, level, R, np, up, root) /\ KeyRoutes(T, R, np)
    /\ ChildRoutes(T, R, np, up) /\ LeafRoutes(T, R, np, es)
    /\ Apart(level, R, np) /\ CutRoutes(R, up) /\ NextRoutes(T, R, np)

\* Without halves no page is unlinked.
LEMMA NoClimbFacts ==
    Unlinked(NoClimb) = Catalog /\ \A R, p : Whole(R, NoClimb, p) = R[p]
BY DEF Unlinked, Whole

\* With them the right one is, and its keys count for the left one.
LEMMA ClimbFacts ==
    ASSUME NEW up, NEW l \in PageId, NEW r \in PageId, NEW key \in Key,
           up = [left |-> l, key |-> key, right |-> r]
    PROVE  /\ up \in Climb /\ up # NoClimb /\ up.left = l /\ up.right = r /\ up.key = key
           /\ Unlinked(up) = r
           /\ \A R, p : Whole(R, up, p) = IF p = l THEN R[l] \cup R[r] ELSE R[p]
<1>1. up \in Climb
    BY DEF Climb
<1>2. up # NoClimb
    BY <1>1, BTreeAssumption
<1>3. up.left = l /\ up.right = r /\ up.key = key
    OBVIOUS
<1>. QED
    BY <1>1, <1>2, <1>3 DEF Unlinked, Whole

\* The allocated pages without the catalog's.
LEMMA PageRange ==
    ASSUME NEW np \in 1 .. MaxPages
    PROVE  1 .. np - 1 \subseteq PageId /\ Catalog \notin 1 .. np - 1 /\ np \in Nat /\ NoPage \notin PageId
BY BTreeAssumption DEF PageId, Catalog

-----------------------------------------------------------------------------
(* The way down ends in a leaf: every step takes it a level down.          *)

\* A step down goes one level down, and follows the keys.
LEMMA Descent ==
    ASSUME NodesInv, NEW np \in 1 .. MaxPages, NEW level, Shape(pages, level, np, NoClimb),
           NEW p \in 1 .. np - 1, NEW k \in Key
    PROVE  /\ Down(p, k) \in 1 .. np - 1
           /\ level[p] = 0 => Down(p, k) = p
           /\ level[p] # 0 => level[Down(p, k)] + 1 = level[p]
           /\ \A R, root, es : Routes(pages, level, R, np, NoClimb, root, es) /\ k \in R[p]
                 => k \in R[Down(p, k)]
<1>1. p \in PageId /\ p # Catalog
    BY PageRange
<1>2. pages[p].leaf <=> level[p] = 0
    BY DEF Shape, LevelsInv
<1>3. CASE pages[p].leaf
    <2>1. Down(p, k) = p
        BY <1>1, <1>3, DownFacts
    <2>. QED
        BY <1>2, <1>3, <2>1
<1>4. CASE ~ pages[p].leaf
    <2>. DEFINE w == Way(pages[p], k)
                c == pages[p].ptrs[w]
    <2>1. w \in DOMAIN pages[p].ptrs /\ Down(p, k) = c
        BY <1>1, <1>4, DownFacts
    <2>2. c \in 1 .. np - 1 /\ level[c] + 1 = level[p]
        BY <1>4, <2>1 DEF Shape, ChildrenInv
    <2>3. ASSUME NEW R, NEW root, NEW es, Routes(pages, level, R, np, NoClimb, root, es), k \in R[p]
          PROVE  k \in R[c]
        <3>1. k \in Whole(R, NoClimb, c)
            BY <1>4, <2>1, <2>3 DEF Routes, ChildRoutes
        <3>. QED
            BY <3>1, NoClimbFacts
    <2>. QED
        BY <1>2, <1>4, <2>1, <2>2, <2>3
<1>. QED
    BY <1>3, <1>4

\* findLeaf ends in a leaf, and from the root in the leaf of the key.
LEMMA LeafFound ==
    ASSUME NodesInv, NEW np \in 1 .. MaxPages, NEW level, Shape(pages, level, np, NoClimb),
           NEW from \in 1 .. np - 1, NEW k \in Key
    PROVE  /\ FindLeaf(from, k) \in 1 .. np - 1 /\ pages[FindLeaf(from, k)].leaf
           /\ \A R, root, es : Routes(pages, level, R, np, NoClimb, root, es) /\ k \in R[from]
                 => k \in R[FindLeaf(from, k)]
<1>. DEFINE Led(q) == \A R, root, es :
                Routes(pages, level, R, np, NoClimb, root, es) /\ k \in R[from] => k \in R[q]
<1>1. PICK at \in [0 .. MaxPages -> PageId] :
          /\ at[0] = from /\ \A i \in 1 .. MaxPages : at[i] = Down(at[i - 1], k)
          /\ FindLeaf(from, k) = at[MaxPages]
    BY PageRange, FindLeafSteps
<1>. DEFINE Good(i) == /\ at[i] \in 1 .. np - 1 /\ Led(at[i])
                       /\ level[at[i]] = 0 \/ level[at[i]] + i <= level[from]
            Bad == {i \in 0 .. MaxPages : ~ Good(i)}
<1>2. MaxPages \in Nat /\ level \in [PageId -> Nat]
    BY BTreeAssumption DEF Shape, LevelsInv
<1>3. \A q \in 1 .. np - 1 : level[q] \in Nat /\ level[q] < np /\ (pages[q].leaf <=> level[q] = 0)
    BY <1>2, PageRange DEF Shape, LevelsInv
<1>4. Bad = {}
    <2>. SUFFICES ASSUME Bad # {} PROVE FALSE
        OBVIOUS
    <2>0. Bad \in SUBSET Nat
        BY <1>2
    <2>1. PICK i \in Bad : \A j \in Bad : i <= j
        BY <2>0, SmallestOf
    <2>2. Good(0)
        BY <1>1, <1>3
    <2>3. i \in 1 .. MaxPages
        BY <1>2, <2>1, <2>2
    <2>4. i - 1 \in 0 .. MaxPages /\ ~ (i <= i - 1)
        BY <1>2, <2>3
    <2>5. Good(i - 1)
        BY <2>1, <2>4
    <2>. DEFINE q == at[i - 1]
    <2>6. at[i] = Down(q, k)
        BY <1>1, <2>3
    <2>7. q \in 1 .. np - 1 /\ Led(q) /\ (level[q] = 0 \/ level[q] + (i - 1) <= level[from])
        BY <2>5
    <2>. HIDE DEF q
    <2>8. /\ Down(q, k) \in 1 .. np - 1
          /\ level[q] = 0 => Down(q, k) = q
          /\ level[q] # 0 => level[Down(q, k)] + 1 = level[q]
          /\ \A R, root, es : Routes(pages, level, R, np, NoClimb, root, es) /\ k \in R[q]
                => k \in R[Down(q, k)]
        BY <2>7, Descent
    <2>9. Led(at[i])
        BY <2>6, <2>7, <2>8
    <2>10. level[at[i]] = 0 \/ level[at[i]] + i <= level[from]
        BY <1>3, <2>3, <2>6, <2>7, <2>8
    <2>11. Good(i)
        BY <2>6, <2>8, <2>9, <2>10
    <2>. QED
        BY <2>1, <2>11
<1>5. Good(MaxPages)
    <2>1. MaxPages \in 0 .. MaxPages
        BY <1>2
    <2>. HIDE DEF Good
    <2>. QED
        BY <1>4, <2>1
<1>6. pages[at[MaxPages]].leaf
    BY <1>2, <1>3, <1>5
<1>. QED
    BY <1>1, <1>5, <1>6

-----------------------------------------------------------------------------
(* Steps of the tree: S is T after a step.                                 *)

\* Another leaf in the place of one.
LEMMA LeafShape ==
    ASSUME NEW np \in 1 .. MaxPages, NEW T, NEW S, NEW level, Shape(T, level, np, NoClimb),
           NEW p \in 1 .. np - 1, T[p].leaf, S[p].leaf, S[p].parent = T[p].parent, S[p].keys # <<>>,
           \A q \in 1 .. np - 1 : q # p => S[q] = T[q]
    PROVE  Shape(S, level, np, NoClimb)
<1>. DEFINE up == NoClimb
<1>1. \A q \in 1 .. np - 1 : S[q].parent = T[q].parent /\ S[q].leaf = T[q].leaf
    <2>1. T[p].leaf = S[p].leaf
        BY DEF Shape, LevelsInv
    <2>. QED
        BY <2>1
<1>2. \A q \in 1 .. np - 1 : ~ T[q].leaf => S[q] = T[q] /\ q # p
    OBVIOUS
<1>3. LevelsInv(S, level, np)
    BY <1>1 DEF Shape, LevelsInv
<1>4. ParentsInv(S, np, up)
    <2>. SUFFICES ASSUME NEW q \in 1 .. np - 1, S[q].parent # NoPage, q # Unlinked(up)
                  PROVE  /\ S[q].parent \in 1 .. np - 1 /\ ~ S[S[q].parent].leaf
                         /\ IsChild(S, q, S[q].parent)
        BY DEF ParentsInv
    <2>1. T[q].parent \in 1 .. np - 1 /\ ~ T[T[q].parent].leaf /\ IsChild(T, q, T[q].parent)
        BY <1>1 DEF Shape, ParentsInv
    <2>. QED
        BY <1>1, <1>2, <2>1 DEF IsChild
<1>5. ChildrenInv(S, level, np, up)
    <2>. SUFFICES ASSUME NEW q \in 1 .. np - 1, ~ S[q].leaf, NEW i \in DOMAIN S[q].ptrs
                  PROVE  /\ S[q].ptrs[i] \in 1 .. np - 1 /\ S[q].ptrs[i] # Unlinked(up)
                         /\ S[S[q].ptrs[i]].parent = q /\ level[S[q].ptrs[i]] + 1 = level[q]
                         /\ S[S[q].ptrs[i]].keys # <<>>
                         /\ \A j \in DOMAIN S[q].ptrs : S[q].ptrs[i] = S[q].ptrs[j] => i = j
        BY DEF ChildrenInv
    <2>1. S[q] = T[q] /\ ~ T[q].leaf /\ i \in DOMAIN T[q].ptrs
        BY <1>1, <1>2
    <2>. DEFINE c == T[q].ptrs[i]
    <2>2. /\ c \in 1 .. np - 1 /\ c # Unlinked(up)
          /\ T[c].parent = q /\ level[c] + 1 = level[q] /\ T[c].keys # <<>>
          /\ \A j \in DOMAIN T[q].ptrs : c = T[q].ptrs[j] => i = j
        BY <2>1 DEF Shape, ChildrenInv
    <2>. HIDE DEF c
    <2>3. S[c].parent = q /\ S[c].keys # <<>>
        BY <1>1, <2>2
    <2>. QED
        BY <2>1, <2>2, <2>3 DEF c
<1>6. HalvesInv(S, level, np, up)
    BY DEF HalvesInv
<1>. QED
    BY <1>3, <1>4, <1>5, <1>6 DEF Shape

\* The list of leaves stays where leaves, their keys and their next pages do.
LEMMA NextKept ==
    ASSUME NEW np \in Nat, NEW mp \in Nat, np <= mp, NEW T, NEW S, NEW R, NEW Q, NextRoutes(T, R, np),
           \A q \in 1 .. np - 1 :
               (S[q].leaf <=> T[q].leaf) /\ (T[q].leaf => S[q].next = T[q].next /\ Q[q] = R[q]),
           \A q \in 1 .. mp - 1 : S[q].leaf => q \in 1 .. np - 1
    PROVE  NextRoutes(S, Q, mp)
<1>. SUFFICES ASSUME NEW p \in 1 .. np - 1, S[p].leaf
              PROVE  /\ \A k \in Q[p] : k + 1 \in Key =>
                           k + 1 \in Q[p] \/ (S[p].next # NoPage /\ k + 1 \in Q[S[p].next])
                     /\ S[p].next # NoPage =>
                           /\ S[p].next \in 1 .. mp - 1 /\ S[S[p].next].leaf /\ Q[S[p].next] # {}
                           /\ \A k \in Q[p], m \in Q[S[p].next] : k < m
    BY DEF NextRoutes
<1>. DEFINE x == S[p].next
<1>1. T[p].leaf /\ x = T[p].next /\ Q[p] = R[p]
    OBVIOUS
<1>2. /\ \A k \in R[p] : k + 1 \in Key => k + 1 \in R[p] \/ (x # NoPage /\ k + 1 \in R[x])
      /\ x # NoPage => x \in 1 .. np - 1 /\ T[x].leaf /\ R[x] # {} /\ \A k \in R[p], m \in R[x] : k < m
    BY <1>1 DEF NextRoutes
<1>. HIDE DEF x
<1>3. x # NoPage => x \in 1 .. mp - 1 /\ S[x].leaf /\ Q[x] = R[x]
    BY <1>2
<1>. QED
    BY <1>1, <1>2, <1>3 DEF x

\* The keys that a leaf gains are its own.
\* S is T with k put into leaf p.
PutIn(T, S, np, p, k) ==
    /\ T[p].leaf /\ S[p].leaf /\ S[p].parent = T[p].parent /\ S[p].next = T[p].next
    /\ \A q \in 1 .. np - 1 : q # p => S[q] = T[q]
    /\ Sorted(S[p]) /\ Has(S[p], k)
    /\ \A j \in DOMAIN T[p].keys : Has(S[p], T[p].keys[j])
    /\ \A j \in DOMAIN S[p].keys :
           S[p].keys[j] = k \/ \E i \in DOMAIN T[p].keys : S[p].keys[j] = T[p].keys[i]

\* The keys find their ways after that.
LEMMA LeafKeeps ==
    ASSUME NEW np \in 1 .. MaxPages, NEW T, NEW S, NEW level, Shape(T, level, np, NoClimb),
           NEW p \in 1 .. np - 1, NEW k \in Key, PutIn(T, S, np, p, k),
           NEW R, NEW root \in 1 .. np - 1, NEW es, Routes(T, level, R, np, NoClimb, root, es),
           k \in R[p], NEW fs, \A x \in Key : x # k => fs[x] = es[x]
    PROVE  Routes(S, level, R, np, NoClimb, root, fs)
<1>0. /\ T[p].leaf /\ S[p].leaf /\ S[p].parent = T[p].parent /\ S[p].next = T[p].next
      /\ \A q \in 1 .. np - 1 : q # p => S[q] = T[q]
      /\ Sorted(S[p]) /\ Has(S[p], k)
      /\ \A j \in DOMAIN T[p].keys : Has(S[p], T[p].keys[j])
      /\ \A j \in DOMAIN S[p].keys :
             S[p].keys[j] = k \/ \E i \in DOMAIN T[p].keys : S[p].keys[j] = T[p].keys[i]
    BY DEF PutIn
<1>. USE <1>0
<1>. DEFINE up == NoClimb
<1>1. \A q \in 1 .. np - 1 : S[q].parent = T[q].parent /\ S[q].leaf = T[q].leaf
    <2>1. T[p].leaf = S[p].leaf
        BY DEF Shape, LevelsInv
    <2>. QED
        BY <2>1
<1>2. \A q \in 1 .. np - 1 : ~ T[q].leaf => S[q] = T[q]
    OBVIOUS
<1>3. RootRoutes(S, level, R, np, up, root)
    BY <1>1 DEF Routes, RootRoutes
<1>4. KeyRoutes(S, R, np)
    <2>. SUFFICES ASSUME NEW q \in 1 .. np - 1, NEW i \in DOMAIN S[q].keys
                  PROVE  S[q].keys[i] \in R[q]
        BY DEF Routes, KeyRoutes
    <2>1. \A j \in DOMAIN T[q].keys : T[q].keys[j] \in R[q]
        BY DEF Routes, KeyRoutes
    <2>. QED
        BY <2>1
<1>5. ChildRoutes(S, R, np, up)
    BY <1>1, <1>2 DEF Routes, ChildRoutes
<1>6. LeafRoutes(S, R, np, fs)
    <2>. SUFFICES ASSUME NEW q \in 1 .. np - 1, S[q].leaf, NEW x \in R[q], fs[x] # NoValue
                  PROVE  Has(S[q], x)
        BY DEF LeafRoutes
    <2>0. R \in [PageId -> SUBSET Key] /\ q \in PageId /\ p \in PageId
        BY PageRange DEF Routes, RootRoutes
    <2>1. x \in Key
        BY <2>0
    <2>2. CASE q = p
        <3>1. CASE x = k
            BY <2>2, <3>1
        <3>2. CASE x # k
            <4>1. Has(T[p], x)
                BY <2>1, <2>2, <3>2 DEF Routes, LeafRoutes
            <4>. QED
                BY <2>2, <4>1 DEF Has
        <3>. QED
            BY <3>1, <3>2
    <2>3. CASE q # p
        <3>1. level[q] = 0 /\ level[p] = 0 /\ T[q].leaf
            BY <1>1 DEF Shape, LevelsInv
        <3>2. R[q] \cap R[p] = {}
            BY <2>3, <3>1 DEF Routes, Apart
        <3>3. x # k
            BY <3>2
        <3>. QED
            BY <2>1, <2>3, <3>1, <3>3 DEF Routes, LeafRoutes
    <2>. QED
        BY <2>2, <2>3
<1>7. Apart(level, R, np) /\ CutRoutes(R, up)
    BY DEF Routes, CutRoutes
<1>8. NextRoutes(S, R, np)
    <2>1. \A q \in 1 .. np - 1 : (S[q].leaf <=> T[q].leaf) /\ (T[q].leaf => S[q].next = T[q].next)
        BY <1>1
    <2>2. NextRoutes(T, R, np) /\ np \in Nat
        BY DEF Routes
    <2>. QED
        BY <2>1, <2>2, NextKept
<1>. QED
    BY <1>3, <1>4, <1>5, <1>6, <1>7, <1>8 DEF Routes

\* Page p of T is split in two in S, the page np takes the right half; the
\* first mid of the children stay.
Split(T, S, np, p, mid) ==
    /\ S[p].leaf = T[p].leaf /\ S[p].parent = T[p].parent /\ S[p].keys # <<>>
    /\ S[np].leaf = T[p].leaf /\ S[np].parent = T[p].parent /\ S[np].keys # <<>>
    /\ ~ T[p].leaf =>
          /\ mid \in DOMAIN T[p].ptrs
          /\ DOMAIN S[p].ptrs = 1 .. mid /\ DOMAIN S[np].ptrs = 1 .. Len(T[p].ptrs) - mid
          /\ \A i \in 1 .. mid : S[p].ptrs[i] = T[p].ptrs[i]
          /\ \A i \in 1 .. Len(T[p].ptrs) - mid : S[np].ptrs[i] = T[p].ptrs[mid + i]
    /\ T[p].leaf => S[p].next = np /\ S[np].next = T[p].next
    /\ \A q \in 1 .. np - 1 : q # p =>
          /\ S[q].leaf = T[q].leaf /\ S[q].keys = T[q].keys /\ S[q].ptrs = T[q].ptrs
          /\ S[q].parent = IF ~ T[p].leaf /\ IsChild(S, q, np) THEN np ELSE T[q].parent
          /\ S[q].next = T[q].next

\* The children of both halves were children of the page.
LEMMA SplitChildren ==
    ASSUME NEW np \in 1 .. MaxPages - 1, NEW T, NEW S, NEW level, Shape(T, level, np, NoClimb),
           NEW p \in 1 .. np - 1, NEW mid \in Nat, Formed(T[p]), Split(T, S, np, p, mid), ~ T[p].leaf
    PROVE  /\ \A i \in DOMAIN S[p].ptrs :
                 i \in DOMAIN T[p].ptrs /\ i <= mid /\ S[p].ptrs[i] = T[p].ptrs[i]
           /\ \A i \in DOMAIN S[np].ptrs :
                 i \in Nat /\ mid + i \in DOMAIN T[p].ptrs /\ i > 0 /\ S[np].ptrs[i] = T[p].ptrs[mid + i]
           /\ \A i \in DOMAIN T[p].ptrs :
                 \/ i \in DOMAIN S[p].ptrs
                 \/ i \in Nat /\ i > mid /\ i - mid \in DOMAIN S[np].ptrs
           /\ \A c : IsChild(S, c, np) => IsChild(T, c, p)
           /\ \A i \in DOMAIN S[p].ptrs : ~ IsChild(S, S[p].ptrs[i], np)
<1>1. DOMAIN T[p].ptrs = 1 .. Len(T[p].ptrs) /\ Len(T[p].ptrs) \in Nat
    BY NodeFacts
<1>2. /\ mid \in 1 .. Len(T[p].ptrs)
      /\ DOMAIN S[p].ptrs = 1 .. mid /\ DOMAIN S[np].ptrs = 1 .. Len(T[p].ptrs) - mid
      /\ \A i \in 1 .. mid : S[p].ptrs[i] = T[p].ptrs[i]
      /\ \A i \in 1 .. Len(T[p].ptrs) - mid : S[np].ptrs[i] = T[p].ptrs[mid + i]
    BY <1>1 DEF Split
<1>3. \A i \in DOMAIN S[p].ptrs : i \in DOMAIN T[p].ptrs /\ i <= mid /\ S[p].ptrs[i] = T[p].ptrs[i]
    BY <1>1, <1>2
<1>4. \A i \in DOMAIN S[np].ptrs :
         i \in Nat /\ mid + i \in DOMAIN T[p].ptrs /\ i > 0 /\ S[np].ptrs[i] = T[p].ptrs[mid + i]
    <2>. TAKE i \in DOMAIN S[np].ptrs
    <2>1. i \in 1 .. Len(T[p].ptrs) - mid
        BY <1>2
    <2>2. i \in Nat /\ mid + i \in DOMAIN T[p].ptrs /\ i > 0
        BY <1>1, <1>2, <2>1
    <2>. QED
        BY <1>2, <2>1, <2>2
<1>5. \A i \in DOMAIN T[p].ptrs :
         i \in DOMAIN S[p].ptrs \/ (i \in Nat /\ i > mid /\ i - mid \in DOMAIN S[np].ptrs)
    BY <1>1, <1>2
<1>6. \A c : IsChild(S, c, np) => IsChild(T, c, p)
    BY <1>4 DEF IsChild
<1>7. ASSUME NEW i \in DOMAIN S[p].ptrs, IsChild(S, S[p].ptrs[i], np) PROVE FALSE
    <2>1. PICK j \in DOMAIN S[np].ptrs : S[np].ptrs[j] = S[p].ptrs[i]
        BY <1>7 DEF IsChild
    <2>2. /\ i \in DOMAIN T[p].ptrs /\ mid + j \in DOMAIN T[p].ptrs /\ i # mid + j
          /\ T[p].ptrs[i] = T[p].ptrs[mid + j]
        BY <1>1, <1>3, <1>4, <2>1
    <2>. QED
        BY <2>2 DEF Shape, ChildrenInv
<1>. QED
    BY <1>3, <1>4, <1>5, <1>6, <1>7

\* A split keeps the shape.
LEMMA SplitShape ==
    ASSUME NEW np \in 1 .. MaxPages - 1, NEW T, NEW S, NEW level, Shape(T, level, np, NoClimb),
           NEW p \in 1 .. np - 1, NEW mid \in Nat, Formed(T[p]), Split(T, S, np, p, mid),
           NEW lv \in [PageId -> Nat], lv[np] = level[p], \A q \in 1 .. np - 1 : lv[q] = level[q],
           NEW key \in Key, NEW up, up = [left |-> p, key |-> key, right |-> np]
    PROVE  Shape(S, lv, np + 1, up)
<1>0. /\ 1 .. (np + 1) - 1 = 1 .. np /\ np \notin 1 .. np - 1 /\ np \in 1 .. np /\ p \in 1 .. np /\ p # np
      /\ \A q \in 1 .. np : q # np => q \in 1 .. np - 1
      /\ 1 .. np - 1 \subseteq 1 .. np /\ np \in Nat
    OBVIOUS
<1>1. p \in PageId /\ np \in PageId /\ np # NoPage
    BY BTreeAssumption DEF PageId
<1>2. up # NoClimb /\ Unlinked(up) = np /\ up.left = p /\ up.right = np
    BY <1>1, ClimbFacts
<1>3. \A q \in 1 .. np - 1 : level[q] \in Nat /\ level[q] < np /\ (T[q].leaf <=> level[q] = 0) /\ q # Catalog
    BY BTreeAssumption DEF Shape, LevelsInv, PageId, Catalog
<1>4. \A q \in 1 .. np - 1 : S[q].leaf = T[q].leaf /\ (q # p => S[q].keys = T[q].keys /\ S[q].ptrs = T[q].ptrs)
    BY DEF Split
<1>5. \A q \in 1 .. np - 1 : q # p =>
         S[q].parent = IF ~ T[p].leaf /\ IsChild(S, q, np) THEN np ELSE T[q].parent
    BY DEF Split
<1>6. S[p].parent = T[p].parent /\ S[p].keys # <<>> /\ S[np].keys # <<>> /\ S[np].leaf = T[p].leaf
         /\ S[np].parent = T[p].parent
    BY DEF Split
<1>7. \A q \in 1 .. np - 1 : ~ T[q].leaf => \A i \in DOMAIN T[q].ptrs :
            /\ T[q].ptrs[i] \in 1 .. np - 1 /\ T[T[q].ptrs[i]].parent = q
            /\ level[T[q].ptrs[i]] + 1 = level[q] /\ T[T[q].ptrs[i]].keys # <<>>
            /\ \A j \in DOMAIN T[q].ptrs : T[q].ptrs[i] = T[q].ptrs[j] => i = j
    BY DEF Shape, ChildrenInv
<1>s. ~ T[p].leaf =>
           /\ \A i \in DOMAIN S[p].ptrs :
                 i \in DOMAIN T[p].ptrs /\ i <= mid /\ S[p].ptrs[i] = T[p].ptrs[i]
           /\ \A i \in DOMAIN S[np].ptrs :
                 i \in Nat /\ mid + i \in DOMAIN T[p].ptrs /\ i > 0 /\ S[np].ptrs[i] = T[p].ptrs[mid + i]
           /\ \A i \in DOMAIN T[p].ptrs :
                 \/ i \in DOMAIN S[p].ptrs
                 \/ i \in Nat /\ i > mid /\ i - mid \in DOMAIN S[np].ptrs
           /\ \A c : IsChild(S, c, np) => IsChild(T, c, p)
           /\ \A i \in DOMAIN S[p].ptrs : ~ IsChild(S, S[p].ptrs[i], np)
    BY SplitChildren
<1>8. LevelsInv(S, lv, np + 1)
    <2>. SUFFICES ASSUME NEW q \in 1 .. np PROVE lv[q] < np + 1 /\ (S[q].leaf <=> lv[q] = 0)
        BY <1>0 DEF LevelsInv
    <2>1. CASE q = np
        BY <1>3, <1>6, <2>1
    <2>2. CASE q # np
        BY <1>0, <1>3, <1>4, <2>2
    <2>. QED
        BY <2>1, <2>2
<1>9. ParentsInv(S, np + 1, up)
    <2>. SUFFICES ASSUME NEW q \in 1 .. np, S[q].parent # NoPage, q # np
                  PROVE  /\ S[q].parent \in 1 .. np /\ ~ S[S[q].parent].leaf
                         /\ IsChild(S, q, S[q].parent)
        BY <1>0, <1>2 DEF ParentsInv
    <2>. DEFINE x == T[q].parent
    <2>1. q \in 1 .. np - 1 /\ q # Unlinked(NoClimb)
        BY <1>0, <1>3, NoClimbFacts
    <2>2. x # NoPage => x \in 1 .. np - 1 /\ ~ T[x].leaf /\ IsChild(T, q, x)
        BY <2>1 DEF Shape, ParentsInv
    <2>3. CASE q # p /\ ~ T[p].leaf /\ IsChild(S, q, np)
        <3>1. S[q].parent = np
            BY <1>5, <2>1, <2>3
        <3>. QED
            BY <1>0, <1>6, <2>3, <3>1
    <2>4. CASE ~ (q # p /\ ~ T[p].leaf /\ IsChild(S, q, np))
        <3>1. S[q].parent = x /\ x # NoPage
            BY <1>5, <1>6, <2>1, <2>4
        <3>2. x \in 1 .. np - 1 /\ ~ T[x].leaf /\ ~ S[x].leaf
            BY <1>4, <2>2, <3>1
        <3>3. PICK i \in DOMAIN T[x].ptrs : T[x].ptrs[i] = q
            BY <2>2, <3>1 DEF IsChild
        <3>4. level[q] + 1 = level[x] /\ level[q] \in Nat
            BY <1>3, <1>7, <2>1, <3>2, <3>3, SMTT(60)
        <3>5. IsChild(S, q, x)
            <4>1. CASE x # p
                BY <1>4, <3>2, <3>3, <4>1 DEF IsChild
            <4>2. CASE x = p
                <5>1. ~ T[p].leaf /\ q # p /\ ~ IsChild(S, q, np)
                    BY <2>4, <3>2, <3>4, <4>2
                <5>2. i \in DOMAIN T[p].ptrs /\ T[p].ptrs[i] = q
                    BY <3>3, <4>2
                <5>3. ~ (i \in Nat /\ i > mid /\ i - mid \in DOMAIN S[np].ptrs)
                    <6>. SUFFICES ASSUME i \in Nat, i - mid \in DOMAIN S[np].ptrs PROVE FALSE
                        OBVIOUS
                    <6>2. mid + (i - mid) = i
                        OBVIOUS
                    <6>1. S[np].ptrs[i - mid] = T[p].ptrs[mid + (i - mid)]
                        BY <1>s, <5>1, Zenon
                    <6>. QED
                        BY <5>1, <5>2, <6>1, <6>2 DEF IsChild
                <5>4. i \in DOMAIN S[p].ptrs /\ S[p].ptrs[i] = q
                    BY <1>s, <5>1, <5>2, <5>3
                <5>. QED
                    BY <4>2, <5>4 DEF IsChild
            <4>. QED
                BY <4>1, <4>2
        <3>. QED
            BY <1>0, <3>1, <3>2, <3>5
    <2>. QED
        BY <2>3, <2>4
<1>10. ASSUME NEW q \in 1 .. np, ~ S[q].leaf, NEW i \in DOMAIN S[q].ptrs
       PROVE  /\ S[q].ptrs[i] \in 1 .. np /\ S[q].ptrs[i] # np
              /\ S[S[q].ptrs[i]].parent = q /\ lv[S[q].ptrs[i]] + 1 = lv[q]
              /\ S[S[q].ptrs[i]].keys # <<>>
              /\ \A j \in DOMAIN S[q].ptrs : S[q].ptrs[i] = S[q].ptrs[j] => i = j
    <2>1. CASE q = np
        <3>1. ~ T[p].leaf /\ i \in DOMAIN S[np].ptrs
            BY <1>6, <1>10, <2>1
        <3>2. /\ \A j \in DOMAIN S[np].ptrs :
                    j \in Nat /\ mid + j \in DOMAIN T[p].ptrs /\ S[np].ptrs[j] = T[p].ptrs[mid + j]
              /\ IsChild(S, S[np].ptrs[i], np)
            BY <1>s, <3>1 DEF IsChild
        <3>. DEFINE c == T[p].ptrs[mid + i]
        <3>3. /\ c \in 1 .. np - 1 /\ T[c].parent = p /\ level[c] + 1 = level[p] /\ T[c].keys # <<>>
              /\ \A j \in DOMAIN T[p].ptrs : c = T[p].ptrs[j] => mid + i = j
              /\ S[np].ptrs[i] = c
            BY <1>7, <3>1, <3>2
        <3>. HIDE DEF c
        <3>4. c # p
            BY <1>3, <3>3
        <3>5. S[c].parent = np /\ S[c].keys = T[c].keys /\ lv[c] = level[c]
            BY <1>4, <1>5, <3>1, <3>2, <3>3, <3>4
        <3>6. \A j \in DOMAIN S[np].ptrs : c = S[np].ptrs[j] => i = j
            BY <3>1, <3>2, <3>3, SMTT(60)
        <3>. QED
            BY <1>0, <2>1, <3>3, <3>5, <3>6
    <2>2. CASE q = p
        <3>1. ~ T[p].leaf /\ i \in DOMAIN S[p].ptrs
            BY <1>4, <1>10, <2>2
        <3>2. /\ \A j \in DOMAIN S[p].ptrs :
                    j \in DOMAIN T[p].ptrs /\ S[p].ptrs[j] = T[p].ptrs[j]
              /\ ~ IsChild(S, S[p].ptrs[i], np)
            BY <1>s, <3>1
        <3>. DEFINE c == T[p].ptrs[i]
        <3>3. /\ c \in 1 .. np - 1 /\ T[c].parent = p /\ level[c] + 1 = level[p] /\ T[c].keys # <<>>
              /\ \A j \in DOMAIN T[p].ptrs : c = T[p].ptrs[j] => i = j
              /\ S[p].ptrs[i] = c
            BY <1>7, <3>1, <3>2
        <3>. HIDE DEF c
        <3>4. c # p
            BY <1>3, <3>3
        <3>5. S[c].parent = p /\ S[c].keys = T[c].keys /\ lv[c] = level[c] /\ lv[p] = level[p]
            BY <1>4, <1>5, <3>1, <3>2, <3>3, <3>4
        <3>6. \A j \in DOMAIN S[p].ptrs : c = S[p].ptrs[j] => i = j
            BY <3>2, <3>3
        <3>. QED
            BY <1>0, <2>2, <3>3, <3>5, <3>6
    <2>3. CASE q # p /\ q # np
        <3>1. q \in 1 .. np - 1 /\ ~ T[q].leaf /\ S[q].ptrs = T[q].ptrs
            BY <1>0, <1>4, <1>10, <2>3
        <3>. DEFINE c == T[q].ptrs[i]
        <3>2. /\ c \in 1 .. np - 1 /\ T[c].parent = q /\ level[c] + 1 = level[q] /\ T[c].keys # <<>>
              /\ \A j \in DOMAIN T[q].ptrs : c = T[q].ptrs[j] => i = j
            BY <1>7, <1>10, <3>1
        <3>. HIDE DEF c
        <3>3. ~ (~ T[p].leaf /\ IsChild(S, c, np))
            <4>. SUFFICES ASSUME ~ T[p].leaf, IsChild(S, c, np) PROVE FALSE
                OBVIOUS
            <4>1. IsChild(T, c, p)
                BY <1>s
            <4>. QED
                BY <1>7, <2>3, <3>2, <4>1 DEF IsChild
        <3>4. S[c].parent = q /\ S[c].keys # <<>> /\ lv[c] = level[c] /\ lv[q] = level[q]
            BY <1>4, <1>5, <1>6, <3>1, <3>2, <3>3
        <3>. QED
            BY <1>0, <3>1, <3>2, <3>4 DEF c
    <2>. QED
        BY <2>1, <2>2, <2>3
<1>11. ChildrenInv(S, lv, np + 1, up)
    BY <1>0, <1>2, <1>10 DEF ChildrenInv
<1>12. HalvesInv(S, lv, np + 1, up)
    BY <1>0, <1>2, <1>6 DEF HalvesInv
<1>. QED
    BY <1>8, <1>9, <1>11, <1>12 DEF Shape

\* The keys of p are divided at key, which an inner node gives up.
Divided(T, S, np, p, mid, key) ==
    /\ Sorted(S[p]) /\ Sorted(S[np])
    /\ \A j \in DOMAIN S[p].keys :
          S[p].keys[j] < key /\ \E i \in DOMAIN T[p].keys : S[p].keys[j] = T[p].keys[i]
    /\ \A j \in DOMAIN S[np].keys :
          S[np].keys[j] >= key /\ \E i \in DOMAIN T[p].keys : S[np].keys[j] = T[p].keys[i]
    /\ \E i \in DOMAIN T[p].keys : T[p].keys[i] = key
    /\ T[p].leaf => \E i \in DOMAIN T[p].keys : T[p].keys[i] < key
    /\ T[p].leaf => \A k \in Key : Has(T[p], k) => IF k < key THEN Has(S[p], k) ELSE Has(S[np], k)
    /\ ~ T[p].leaf => \A k \in Key :
          IF k < key THEN Way(T[p], k) = Way(S[p], k) /\ Way(S[p], k) \in 1 .. mid
          ELSE Way(T[p], k) = mid + Way(S[np], k) /\ Way(S[np], k) \in Nat \ {0}

\* The way depends on the keys only.
LEMMA WayOfKeys == ASSUME NEW m, NEW n, NEW k, m.keys = n.keys PROVE Way(m, k) = Way(n, k)
BY DEF Way, Place

\* Both halves of a leaf are in the list, the right one behind the left one.
LEMMA LeavesSplit ==
    ASSUME NEW np \in Nat, NEW T, NEW S, NEW R, NEW Q, NextRoutes(T, R, np), NEW p \in 1 .. np - 1,
           NEW mid, Split(T, S, np, p, mid), T[p].leaf, NEW key \in Nat, key \in R[p], \E k \in R[p] : k < key,
           \A q \in 1 .. np - 1 : \A k \in R[q] : k \in Nat,
           Q[p] = {k \in R[p] : k < key}, Q[np] = {k \in R[p] : k >= key},
           \A q \in 1 .. np - 1 : q # p => Q[q] = R[q]
    PROVE  NextRoutes(S, Q, np + 1)
<1>1. \A q \in 1 .. np - 1 : S[q].leaf = T[q].leaf /\ (q # p => S[q].next = T[q].next)
    BY DEF Split
<1>2. S[p].next = np /\ S[np].next = T[p].next /\ S[np].leaf
    BY DEF Split
<1>3. np # NoPage /\ p # np /\ np \notin 1 .. np - 1 /\ (np + 1) - 1 = np /\ 1 .. np - 1 \subseteq 1 .. np /\ np \in 1 .. np
    BY BTreeAssumption
<1>4. key \in Q[np] /\ Q[p] # {} /\ Q[p] \subseteq R[p] /\ Q[np] \subseteq R[p]
    OBVIOUS
<1>5. ASSUME NEW q \in 1 .. np - 1, T[q].leaf
      PROVE  /\ \A k \in R[q] : k + 1 \in Key =>
                   k + 1 \in R[q] \/ (T[q].next # NoPage /\ k + 1 \in R[T[q].next])
             /\ T[q].next # NoPage =>
                   /\ T[q].next \in 1 .. np - 1 /\ T[T[q].next].leaf /\ R[T[q].next] # {}
                   /\ \A k \in R[q], m \in R[T[q].next] : k < m
    BY <1>5 DEF NextRoutes
<1>p. \A x : x = T[p].next =>
          /\ \A k \in R[p] : k + 1 \in Key => k + 1 \in R[p] \/ (x # NoPage /\ k + 1 \in R[x])
          /\ x # NoPage => x \in 1 .. np - 1 /\ T[x].leaf /\ R[x] # {} /\ \A k \in R[p], m \in R[x] : k < m
    BY <1>5, Zenon
<1>6. T[p].next # p
    <2>1. p # NoPage /\ ~ (key < key)
        BY BTreeAssumption
    <2>. QED
        BY <1>p, <2>1
<1>. SUFFICES ASSUME NEW q \in 1 .. np, S[q].leaf
              PROVE  /\ \A k \in Q[q] : k + 1 \in Key =>
                           k + 1 \in Q[q] \/ (S[q].next # NoPage /\ k + 1 \in Q[S[q].next])
                     /\ S[q].next # NoPage =>
                           /\ S[q].next \in 1 .. np /\ S[S[q].next].leaf /\ Q[S[q].next] # {}
                           /\ \A k \in Q[q], m \in Q[S[q].next] : k < m
    BY <1>3 DEF NextRoutes
<1>7. CASE q = p
    <2>1. ASSUME NEW k \in Q[p], k + 1 \in Key PROVE k + 1 \in Q[p] \/ k + 1 \in Q[np]
        <3>1. k \in R[p] /\ k \in Nat /\ k < key
            BY <1>4
        <3>2. \A x : x = T[p].next /\ x # NoPage => k + 1 \notin R[x]
            BY <1>p, <3>1
        <3>3. k + 1 \in R[p]
            BY <1>p, <2>1, <3>1, <3>2
        <3>. QED
            BY <3>1, <3>3
    <2>2. ASSUME NEW k \in Q[p], NEW m \in Q[np] PROVE k < m
        OBVIOUS
    <2>. QED
        BY <1>2, <1>3, <1>4, <1>7, <2>1, <2>2
<1>8. CASE q = np
    <2>. DEFINE x == T[p].next
    <2>1. /\ \A k \in R[p] : k + 1 \in Key => k + 1 \in R[p] \/ (x # NoPage /\ k + 1 \in R[x])
          /\ x # NoPage => /\ x \in 1 .. np - 1 /\ x # p /\ T[x].leaf /\ R[x] # {}
                            /\ \A k \in R[p], m \in R[x] : k < m
        BY <1>p, <1>6
    <2>. HIDE DEF x
    <2>2. x # NoPage => Q[x] = R[x] /\ S[x].leaf /\ x \in 1 .. np
        BY <1>1, <1>3, <2>1
    <2>3. ASSUME NEW k \in Q[np], k + 1 \in Key PROVE k + 1 \in Q[np] \/ (x # NoPage /\ k + 1 \in Q[x])
        <3>1. k \in R[p] /\ k \in Nat /\ k >= key
            BY <1>4
        <3>. QED
            BY <2>1, <2>2, <2>3, <3>1
    <2>4. S[q].next = x
        BY <1>2, <1>8 DEF x
    <2>. QED
        BY <1>4, <1>8, <2>1, <2>2, <2>3, <2>4
<1>9. CASE q # p /\ q # np
    <2>. DEFINE y == T[q].next
    <2>1. q \in 1 .. np - 1 /\ Q[q] = R[q] /\ T[q].leaf /\ S[q].next = y
        BY <1>1, <1>9
    <2>2. /\ \A k \in R[q] : k + 1 \in Key => k + 1 \in R[q] \/ (y # NoPage /\ k + 1 \in R[y])
          /\ y # NoPage => y \in 1 .. np - 1 /\ T[y].leaf /\ R[y] # {} /\ \A k \in R[q], m \in R[y] : k < m
        BY <1>5, <2>1
    <2>. HIDE DEF y
    <2>3. CASE y # p
        BY <1>1, <1>3, <2>1, <2>2, <2>3
    <2>4. CASE y = p
        <3>1. PICK z \in Q[p] : z < key /\ z \in R[p] /\ z \in Nat
            BY <1>4
        <3>2. ASSUME NEW k \in R[q], k + 1 \in Key PROVE k + 1 \in R[q] \/ k + 1 \in Q[p]
            <4>0. p # NoPage
                BY BTreeAssumption
            <4>1. k < z /\ k \in Nat
                BY <2>1, <2>2, <2>4, <3>1, <4>0
            <4>2. k + 1 < key
                BY <3>1, <4>1
            <4>. QED
                BY <2>2, <2>4, <3>2, <4>2
        <3>3. p # NoPage
            BY BTreeAssumption
        <3>4. \A k \in Q[q], m \in Q[p] : k < m
            BY <1>4, <2>1, <2>2, <2>4, <3>3
        <3>. QED
            BY <1>1, <1>3, <1>4, <2>1, <2>2, <2>4, <3>2, <3>3, <3>4
    <2>. QED
        BY <2>3, <2>4
<1>. QED
    BY <1>3, <1>7, <1>8, <1>9

\* The keys find their ways through the halves.
LEMMA SplitKeeps ==
    ASSUME NEW np \in 1 .. MaxPages - 1, NEW T, NEW S, NEW level, Shape(T, level, np, NoClimb),
           NEW p \in 1 .. np - 1, NEW mid \in Nat, Formed(T[p]), Split(T, S, np, p, mid),
           NEW lv \in [PageId -> Nat], lv[np] = level[p], \A q \in 1 .. np - 1 : lv[q] = level[q],
           NEW key \in Key, NEW up, up = [left |-> p, key |-> key, right |-> np],
           NEW R, NEW root \in 1 .. np - 1, NEW es, Routes(T, level, R, np, NoClimb, root, es),
           Divided(T, S, np, p, mid, key), NEW Q \in [PageId -> SUBSET Key],
           Q[p] = {k \in R[p] : k < key}, Q[np] = {k \in R[p] : k >= key},
           \A q \in 1 .. np - 1 : q # p => Q[q] = R[q]
    PROVE  Routes(S, lv, Q, np + 1, up, root, es)
<1>0. /\ 1 .. (np + 1) - 1 = 1 .. np /\ np \notin 1 .. np - 1 /\ np \in 1 .. np /\ p \in 1 .. np /\ p # np
      /\ \A q \in 1 .. np : q # np => q \in 1 .. np - 1
      /\ 1 .. np - 1 \subseteq 1 .. np /\ np \in Nat
    OBVIOUS
<1>1. p \in PageId /\ np \in PageId /\ np # NoPage /\ 1 .. np - 1 \subseteq PageId
    BY BTreeAssumption DEF PageId
<1>2. /\ up # NoClimb /\ Unlinked(up) = np /\ up.left = p /\ up.right = np /\ up.key = key
      /\ \A x : Whole(Q, up, x) = IF x = p THEN Q[p] \cup Q[np] ELSE Q[x]
    <2>1. up # NoClimb /\ Unlinked(up) = np /\ up.left = p /\ up.right = np /\ up.key = key
        BY <1>1, ClimbFacts
    <2>. QED
        BY <2>1 DEF Whole
<1>3. /\ R \in [PageId -> SUBSET Key] /\ T[root].parent = NoPage /\ R[root] = Key
      /\ \A q \in 1 .. np - 1 : level[q] <= level[root] /\ (T[q].parent = NoPage => q = root)
    <2>1. Catalog \notin 1 .. np - 1
        BY DEF Catalog
    <2>. QED
        BY <2>1, NoClimbFacts DEF Routes, RootRoutes
<1>4. \A q \in 1 .. np - 1 : S[q].leaf = T[q].leaf /\ (q # p => S[q].keys = T[q].keys /\ S[q].ptrs = T[q].ptrs)
    BY DEF Split
<1>5. \A q \in 1 .. np - 1 : q # p =>
         S[q].parent = IF ~ T[p].leaf /\ IsChild(S, q, np) THEN np ELSE T[q].parent
    BY DEF Split
<1>6. S[p].parent = T[p].parent /\ S[np].leaf = T[p].leaf
    BY DEF Split
<1>7. key \in Nat /\ \A k \in Key : k \in Nat
    BY BTreeAssumption DEF Key
<1>8. Q[p] \cup Q[np] = R[p] /\ Q[p] \cap Q[np] = {} /\ R[p] \subseteq Key
    <2>1. R[p] \subseteq Key
        BY <1>1, <1>3
    <2>2. ASSUME NEW k \in R[p] PROVE (k < key \/ k >= key) /\ ~ (k < key /\ k >= key)
        <3>1. k \in Nat
            BY <1>7, <2>1
        <3>. QED
            BY <1>7, <3>1
    <2>. QED
        BY <2>1, <2>2
<1>s. ~ T[p].leaf =>
           /\ \A i \in DOMAIN S[p].ptrs :
                 i \in DOMAIN T[p].ptrs /\ i <= mid /\ S[p].ptrs[i] = T[p].ptrs[i]
           /\ \A i \in DOMAIN S[np].ptrs :
                 i \in Nat /\ mid + i \in DOMAIN T[p].ptrs /\ i > 0 /\ S[np].ptrs[i] = T[p].ptrs[mid + i]
           /\ \A c : IsChild(S, c, np) => IsChild(T, c, p)
    BY SplitChildren, SMTT(90)
<1>c. \A q \in 1 .. np - 1 : ~ T[q].leaf => \A i \in DOMAIN T[q].ptrs :
          /\ T[q].ptrs[i] \in 1 .. np - 1 /\ T[T[q].ptrs[i]].parent = q
          /\ level[T[q].ptrs[i]] + 1 = level[q] /\ level[q] \in Nat /\ level[T[q].ptrs[i]] \in Nat
          /\ \A k \in Key : k \in R[T[q].ptrs[i]] <=> k \in R[q] /\ Way(T[q], k) = i
    BY <1>1, NoClimbFacts DEF Shape, ChildrenInv, LevelsInv, Routes, ChildRoutes
<1>9. RootRoutes(S, lv, Q, np + 1, up, root)
    <2>1. ~ (~ T[p].leaf /\ IsChild(S, root, np))
        <3>. SUFFICES ASSUME ~ T[p].leaf, IsChild(S, root, np) PROVE FALSE
            OBVIOUS
        <3>1. IsChild(T, root, p)
            BY <1>s
        <3>. QED
            BY <1>1, <1>3, <1>c, <3>1 DEF IsChild, PageId
    <2>2. S[root].parent = NoPage
        BY <1>3, <1>5, <1>6, <2>1
    <2>3. Whole(Q, up, root) = Key
        BY <1>2, <1>3, <1>8
    <2>4. ASSUME NEW q \in 1 .. np
          PROVE  lv[q] <= lv[root] /\ (S[q].parent = NoPage /\ q # np => q = root)
        <3>1. CASE q = np
            BY <1>3, <3>1
        <3>2. CASE q # np
            BY <1>0, <1>1, <1>3, <1>5, <1>6, <3>2
        <3>. QED
            BY <3>1, <3>2
    <2>. QED
        BY <1>0, <1>2, <2>2, <2>3, <2>4 DEF RootRoutes
<1>10. KeyRoutes(S, Q, np + 1)
    <2>0. \A i \in DOMAIN T[p].keys : T[p].keys[i] \in R[p]
        BY DEF Routes, KeyRoutes
    <2>. SUFFICES ASSUME NEW q \in 1 .. np
                  PROVE  Sorted(S[q]) /\ \A i \in DOMAIN S[q].keys : S[q].keys[i] \in Q[q]
        BY <1>0 DEF KeyRoutes
    <2>1. CASE q = p
        BY <2>0, <2>1 DEF Divided
    <2>2. CASE q = np
        BY <2>0, <2>2 DEF Divided
    <2>3. CASE q # p /\ q # np
        <3>1. q \in 1 .. np - 1 /\ S[q].keys = T[q].keys /\ Q[q] = R[q]
            BY <1>0, <1>4, <2>3
        <3>2. Sorted(T[q]) /\ \A i \in DOMAIN T[q].keys : T[q].keys[i] \in R[q]
            BY <3>1 DEF Routes, KeyRoutes
        <3>. QED
            BY <3>1, <3>2 DEF Sorted
    <2>. QED
        BY <2>1, <2>2, <2>3
<1>11. ChildRoutes(S, Q, np + 1, up)
    <2>. SUFFICES ASSUME NEW q \in 1 .. np, ~ S[q].leaf, NEW i \in DOMAIN S[q].ptrs, NEW k \in Key
                  PROVE  k \in Whole(Q, up, S[q].ptrs[i]) <=> k \in Q[q] /\ Way(S[q], k) = i
        BY <1>0 DEF ChildRoutes
    <2>1. CASE q = p
        <3>1. ~ T[p].leaf /\ i \in DOMAIN T[p].ptrs /\ i <= mid /\ S[q].ptrs[i] = T[p].ptrs[i]
            BY <1>4, <1>s, <2>1
        <3>. DEFINE c == T[p].ptrs[i]
        <3>2. c \in 1 .. np - 1 /\ c # p /\ (k \in R[c] <=> k \in R[p] /\ Way(T[p], k) = i)
            BY <1>c, <3>1
        <3>. HIDE DEF c
        <3>3. Whole(Q, up, c) = R[c]
            BY <1>2, <3>2
        <3>4. k < key => Way(T[p], k) = Way(S[p], k)
            BY <3>1 DEF Divided
        <3>5. ~ (k < key) => Way(T[p], k) # i
            <4>1. ~ (k < key) => Way(T[p], k) = mid + Way(S[np], k) /\ Way(S[np], k) \in Nat \ {0}
                BY <3>1 DEF Divided
            <4>2. i \in Nat
                BY <3>1, NodeFacts
            <4>. QED
                BY <3>1, <4>1, <4>2
        <3>. QED
            BY <2>1, <3>1, <3>2, <3>3, <3>4, <3>5 DEF c
    <2>2. CASE q = np
        <3>1. ~ T[p].leaf /\ i \in Nat /\ mid + i \in DOMAIN T[p].ptrs /\ i > 0 /\ S[q].ptrs[i] = T[p].ptrs[mid + i]
            BY <1>6, <1>s, <2>2
        <3>. DEFINE c == T[p].ptrs[mid + i]
        <3>2. c \in 1 .. np - 1 /\ c # p /\ (k \in R[c] <=> k \in R[p] /\ Way(T[p], k) = mid + i)
            BY <1>c, <3>1
        <3>. HIDE DEF c
        <3>3. Whole(Q, up, c) = R[c]
            BY <1>2, <3>2
        <3>4. ~ (k < key) => (Way(T[p], k) = mid + i <=> Way(S[np], k) = i)
            <4>1. ~ (k < key) => Way(T[p], k) = mid + Way(S[np], k) /\ Way(S[np], k) \in Nat \ {0}
                BY <3>1 DEF Divided
            <4>. QED
                BY <3>1, <4>1
        <3>5. k < key => Way(T[p], k) # mid + i
            <4>1. k < key => Way(T[p], k) \in 1 .. mid
                BY <3>1 DEF Divided
            <4>. QED
                BY <3>1, <4>1
        <3>6. k \in Q[np] <=> k \in R[p] /\ ~ (k < key)
            <4>1. (k >= key) <=> ~ (k < key)
                BY <1>7
            <4>. QED
                BY <4>1
        <3>. QED
            BY <2>2, <3>1, <3>2, <3>3, <3>4, <3>5, <3>6 DEF c
    <2>3. CASE q # p /\ q # np
        <3>1. q \in 1 .. np - 1 /\ S[q].keys = T[q].keys /\ Q[q] = R[q] /\ ~ T[q].leaf /\ S[q].ptrs = T[q].ptrs
            BY <1>0, <1>4, <2>3
        <3>. DEFINE c == T[q].ptrs[i]
        <3>2. c \in 1 .. np - 1 /\ (k \in R[c] <=> k \in R[q] /\ Way(T[q], k) = i)
            BY <1>c, <3>1
        <3>. HIDE DEF c
        <3>3. Whole(Q, up, c) = R[c]
            BY <1>2, <1>8, <3>2
        <3>4. Way(S[q], k) = Way(T[q], k)
            BY <3>1, WayOfKeys
        <3>. QED
            BY <3>1, <3>2, <3>3, <3>4 DEF c
    <2>. QED
        BY <2>1, <2>2, <2>3
<1>12. LeafRoutes(S, Q, np + 1, es)
    <2>. SUFFICES ASSUME NEW q \in 1 .. np, S[q].leaf, NEW k \in Q[q], es[k] # NoValue
                  PROVE  Has(S[q], k)
        BY <1>0 DEF LeafRoutes
    <2>1. CASE q # p /\ q # np
        <3>1. q \in 1 .. np - 1 /\ S[q].keys = T[q].keys /\ Q[q] = R[q] /\ T[q].leaf
            BY <1>0, <1>4, <2>1
        <3>2. Has(T[q], k)
            BY <3>1 DEF Routes, LeafRoutes
        <3>. QED
            BY <3>1, <3>2 DEF Has
    <2>2. CASE q = p \/ q = np
        <3>1. T[p].leaf /\ k \in R[p] /\ k \in Key
            BY <1>4, <1>6, <1>8, <2>2
        <3>2. Has(T[p], k)
            BY <3>1 DEF Routes, LeafRoutes
        <3>3. IF k < key THEN Has(S[p], k) ELSE Has(S[np], k)
            BY <3>1, <3>2 DEF Divided
        <3>4. k \in Nat /\ key \in Nat
            BY <1>7, <3>1
        <3>5. CASE q = p
            <4>1. k < key
                BY <3>5
            <4>. QED
                BY <3>3, <3>5, <4>1
        <3>6. CASE q = np
            <4>1. ~ (k < key)
                BY <3>4, <3>6
            <4>. QED
                BY <3>3, <3>6, <4>1
        <3>. QED
            BY <2>2, <3>5, <3>6
    <2>. QED
        BY <2>1, <2>2
<1>13. Apart(lv, Q, np + 1)
    <2>. SUFFICES ASSUME NEW q \in 1 .. np, NEW r \in 1 .. np, lv[r] = lv[q], r # q
                  PROVE  Q[q] \cap Q[r] = {}
        BY <1>0 DEF Apart
    <2>0. \A x, y \in 1 .. np - 1 : level[y] = level[x] /\ y # x => R[x] \cap R[y] = {}
        BY DEF Routes, Apart
    <2>1. CASE q # np /\ r # np
        <3>1. q \in 1 .. np - 1 /\ r \in 1 .. np - 1
            BY <1>0, <2>1
        <3>2. Q[q] \subseteq R[q] /\ Q[r] \subseteq R[r]
            BY <1>8, <3>1
        <3>3. R[q] \cap R[r] = {}
            BY <2>0, <3>1
        <3>. QED
            BY <3>2, <3>3
    <2>2. CASE q = np
        <3>1. r \in 1 .. np - 1
            BY <1>0, <2>2
        <3>2. CASE r = p
            BY <1>8, <2>2, <3>2
        <3>3. CASE r # p
            <4>1. R[p] \cap R[r] = {} /\ Q[r] = R[r]
                BY <2>0, <2>2, <3>1, <3>3
            <4>. QED
                BY <1>8, <2>2, <4>1
        <3>. QED
            BY <3>2, <3>3
    <2>3. CASE r = np
        <3>1. q \in 1 .. np - 1
            BY <1>0, <2>3
        <3>2. CASE q = p
            BY <1>8, <2>3, <3>2
        <3>3. CASE q # p
            <4>1. R[p] \cap R[q] = {} /\ Q[q] = R[q]
                BY <2>0, <2>3, <3>1, <3>3
            <4>. QED
                BY <1>8, <2>3, <4>1
        <3>. QED
            BY <3>2, <3>3
    <2>. QED
        BY <2>1, <2>2, <2>3
<1>14. CutRoutes(Q, up)
    <2>1. PICK i \in DOMAIN T[p].keys : T[p].keys[i] = key
        BY DEF Divided
    <2>2. key \in R[p]
        BY <2>1 DEF Routes, KeyRoutes
    <2>3. key \in Q[np]
        BY <1>7, <2>2
    <2>. QED
        BY <1>2, <2>3 DEF CutRoutes
<1>15. NextRoutes(S, Q, np + 1)
    <2>1. NextRoutes(T, R, np) /\ np + 1 \in Nat /\ np <= np + 1
        BY <1>0 DEF Routes
    <2>2. CASE ~ T[p].leaf
        <3>1. \A q \in 1 .. np - 1 :
                  (S[q].leaf <=> T[q].leaf) /\ (T[q].leaf => S[q].next = T[q].next /\ Q[q] = R[q])
            BY <2>2 DEF Split
        <3>2. \A q \in 1 .. (np + 1) - 1 : S[q].leaf => q \in 1 .. np - 1
            BY <1>0, <1>6, <2>2
        <3>. QED
            BY <1>0, <2>1, <3>1, <3>2, NextKept
    <2>3. CASE T[p].leaf
        <3>1. /\ \A i \in DOMAIN T[p].keys : T[p].keys[i] \in R[p]
              /\ \E i \in DOMAIN T[p].keys : T[p].keys[i] = key
              /\ \E i \in DOMAIN T[p].keys : T[p].keys[i] < key
            BY <2>3 DEF Routes, KeyRoutes, Divided
        <3>2. key \in R[p] /\ \E k \in R[p] : k < key
            BY <3>1
        <3>3. \A q \in 1 .. np - 1 : \A k \in R[q] : k \in Nat
            BY <1>1, <1>3, <1>7
        <3>. QED
            BY <1>0, <1>7, <2>1, <2>3, <3>2, <3>3, LeavesSplit
    <2>. QED
        BY <2>2, <2>3
<1>. QED
    BY <1>9, <1>10, <1>11, <1>12, <1>13, <1>14, <1>15 DEF Routes

\* The parent p of both halves learns of the right one: behind its child i.
Linked(T, S, np, up, p, i) ==
    /\ p = T[up.left].parent /\ p # NoPage
    /\ i \in DOMAIN T[p].ptrs /\ T[p].ptrs[i] = up.left
    /\ S[p].leaf = T[p].leaf /\ S[p].parent = T[p].parent
    /\ S[p].keys = InsertAt(T[p].keys, i, up.key) /\ S[p].ptrs = InsertAt(T[p].ptrs, i + 1, up.right)
    /\ \A q \in 1 .. np - 1 : q # p => S[q] = T[q]

\* Where a key, and where a pointer, more leads to.
LEMMA InsertedKeys ==
    ASSUME NEW ks \in Seq(Key), NEW i \in 1 .. Len(ks) + 1, NEW e \in Key, NEW ts, ts = InsertAt(ks, i, e)
    PROVE  /\ ts \in Seq(Key) /\ Len(ts) = Len(ks) + 1 /\ ts[i] = e
           /\ \A j \in 1 .. i - 1 : ts[j] = ks[j]
           /\ \A j \in i .. Len(ks) : ts[j + 1] = ks[j]
<1>1. /\ ts \in Seq(Key) /\ Len(ts) = Len(ks) + 1
      /\ \A j \in 1 .. Len(ks) + 1 : ts[j] = IF j < i THEN ks[j] ELSE IF j = i THEN e ELSE ks[j - 1]
    BY InsertAtFacts
<1>2. Len(ks) \in Nat
    BY LenProperties
<1>3. \A j \in 1 .. i - 1 : ts[j] = ks[j]
    BY <1>1, <1>2
<1>4. ASSUME NEW j \in i .. Len(ks) PROVE ts[j + 1] = ks[j]
    <2>1. j + 1 \in 1 .. Len(ks) + 1 /\ ~ (j + 1 < i) /\ j + 1 # i /\ (j + 1) - 1 = j
        BY <1>2
    <2>. QED
        BY <1>1, <2>1
<1>. QED
    BY <1>1, <1>2, <1>3, <1>4

\* The same for pages.
LEMMA InsertedPages ==
    ASSUME NEW ps \in Seq(PageId), NEW i \in 1 .. Len(ps) + 1, NEW e \in PageId, NEW ts, ts = InsertAt(ps, i, e)
    PROVE  /\ ts \in Seq(PageId) /\ Len(ts) = Len(ps) + 1 /\ ts[i] = e
           /\ \A j \in 1 .. i - 1 : ts[j] = ps[j]
           /\ \A j \in i .. Len(ps) : ts[j + 1] = ps[j]
<1>1. /\ ts \in Seq(PageId) /\ Len(ts) = Len(ps) + 1
      /\ \A j \in 1 .. Len(ps) + 1 : ts[j] = IF j < i THEN ps[j] ELSE IF j = i THEN e ELSE ps[j - 1]
    BY InsertAtFacts
<1>2. Len(ps) \in Nat
    BY LenProperties
<1>3. \A j \in 1 .. i - 1 : ts[j] = ps[j]
    BY <1>1, <1>2
<1>4. ASSUME NEW j \in i .. Len(ps) PROVE ts[j + 1] = ps[j]
    <2>1. j + 1 \in 1 .. Len(ps) + 1 /\ ~ (j + 1 < i) /\ j + 1 # i /\ (j + 1) - 1 = j
        BY <1>2
    <2>. QED
        BY <1>1, <2>1
<1>. QED
    BY <1>1, <1>2, <1>3, <1>4

\* The ways after a key is put where its own way leads.
LEMMA WayInserted ==
    ASSUME NEW n, Formed(n), NEW m, Formed(m), NEW key \in Key, NEW i, i = Way(n, key),
           m.keys = InsertAt(n.keys, i, key), NEW k \in Key
    PROVE  /\ Way(n, k) < i => Way(m, k) = Way(n, k)
           /\ Way(n, k) = i /\ k < key => Way(m, k) = i
           /\ Way(n, k) = i /\ ~ (k < key) => Way(m, k) = i + 1
           /\ Way(n, k) > i => Way(m, k) = Way(n, k) + 1
<1>. DEFINE l == Len(n.keys)
            ks == n.keys
            ts == m.keys
            w == Way(n, k)
<1>1. k \in Nat /\ key \in Nat
    BY BTreeAssumption DEF Key
<1>2. ks \in Seq(Key) /\ l \in Nat /\ \A j \in 1 .. l : ks[j] \in Nat
    BY NodeFacts
<1>3. i \in 1 .. l + 1 /\ (\A j \in 1 .. i - 1 : ks[j] <= key) /\ (i <= l => ks[i] > key)
    BY <1>1, WayFacts
<1>4. w \in 1 .. l + 1 /\ (\A j \in 1 .. w - 1 : ks[j] <= k) /\ (w <= l => ks[w] > k)
    BY <1>1, WayFacts
<1>5. /\ ts[i] = key /\ Len(ts) = l + 1
      /\ \A j \in 1 .. i - 1 : ts[j] = ks[j]
      /\ \A j \in i .. l : ts[j + 1] = ks[j]
    <2>1. \A q \in Seq(Key) : i \in 1 .. Len(q) + 1 => \A r : r = InsertAt(q, i, key) =>
             /\ r[i] = key /\ Len(r) = Len(q) + 1
             /\ \A j \in 1 .. i - 1 : r[j] = q[j]
             /\ \A j \in i .. Len(q) : r[j + 1] = q[j]
        BY InsertedKeys
    <2>2. i \in 1 .. Len(ks) + 1
        BY <1>3
    <2>. QED
        BY <1>2, <2>1, <2>2, Zenon
<1>6. \A j \in 1 .. l + 2 : (\A x \in 1 .. j - 1 : ts[x] <= k) /\ (j <= l + 1 => ts[j] > k) => Way(m, k) = j
    BY <1>1, <1>2, <1>5, WayIs, SMTT(60)
<1>. HIDE DEF ks, ts, w, l
<1>7. ASSUME w < i PROVE Way(m, k) = w
    <2>1. w \in 1 .. l + 2 /\ w \in 1 .. i - 1 /\ w <= l
        BY <1>2, <1>3, <1>4, <1>7
    <2>2. ts[w] > k
        BY <1>4, <1>5, <2>1
    <2>3. \A x \in 1 .. w - 1 : ts[x] <= k
        BY <1>3, <1>4, <1>5, <1>7
    <2>. QED
        BY <1>6, <2>1, <2>2, <2>3
<1>8. ASSUME w = i, k < key PROVE Way(m, k) = i
    <2>1. i \in 1 .. l + 2 /\ ts[i] > k
        BY <1>1, <1>2, <1>3, <1>5, <1>8
    <2>2. \A x \in 1 .. i - 1 : ts[x] <= k
        BY <1>4, <1>5, <1>8
    <2>. QED
        BY <1>6, <2>1, <2>2
<1>9. ASSUME w = i, ~ (k < key) PROVE Way(m, k) = i + 1
    <2>1. i + 1 \in 1 .. l + 2
        BY <1>2, <1>3
    <2>2. ASSUME i + 1 <= l + 1 PROVE ts[i + 1] > k
        <3>1. i \in i .. l /\ i <= l
            BY <1>2, <1>3, <2>2
        <3>. QED
            BY <1>4, <1>5, <1>9, <3>1
    <2>3. ASSUME NEW x \in 1 .. (i + 1) - 1 PROVE ts[x] <= k
        <3>1. CASE x = i
            BY <1>1, <1>5, <1>9, <3>1
        <3>2. CASE x # i
            <4>1. x \in 1 .. i - 1
                BY <1>2, <1>3, <3>2
            <4>. QED
                BY <1>4, <1>5, <1>9, <4>1
        <3>. QED
            BY <3>1, <3>2
    <2>. QED
        BY <1>6, <2>1, <2>2, <2>3
<1>10. ASSUME w > i PROVE Way(m, k) = w + 1
    <2>1. w + 1 \in 1 .. l + 2 /\ i <= l /\ i \in 1 .. w - 1 /\ i \in 1 .. l
        BY <1>2, <1>3, <1>4, <1>10
    <2>2. ASSUME w + 1 <= l + 1 PROVE ts[w + 1] > k
        <3>1. w \in i .. l /\ w <= l
            BY <1>2, <1>3, <1>4, <1>10, <2>2
        <3>. QED
            BY <1>4, <1>5, <3>1
    <2>3. ASSUME NEW x \in 1 .. (w + 1) - 1 PROVE ts[x] <= k
        <3>1. CASE x = i
            <4>1. ks[i] > key /\ ks[i] <= k /\ ks[i] \in Nat
                BY <1>2, <1>3, <1>4, <2>1
            <4>. QED
                BY <1>1, <1>5, <3>1, <4>1
        <3>2. CASE x < i
            <4>1. x \in 1 .. i - 1 /\ x \in 1 .. w - 1
                BY <1>3, <1>4, <1>10, <3>2
            <4>. QED
                BY <1>4, <1>5, <4>1
        <3>3. CASE x > i
            <4>1. x - 1 \in i .. l /\ x - 1 \in 1 .. w - 1 /\ (x - 1) + 1 = x
                BY <1>2, <1>3, <1>4, <3>3
            <4>2. ts[x] = ks[x - 1]
                BY <1>5, <4>1
            <4>. QED
                BY <1>4, <4>1, <4>2
        <3>. QED
            BY <1>3, <1>4, <3>1, <3>2, <3>3
    <2>. QED
        BY <1>6, <2>1, <2>2, <2>3
<1>. QED
    BY <1>7, <1>8, <1>9, <1>10 DEF w

\* The children of the parent of both halves.
LEMMA LinkFacts ==
    ASSUME NEW np \in 1 .. MaxPages, NEW T, NEW S, NEW level, NEW up \in Climb, Shape(T, level, np, up),
           NEW p, NEW i, Linked(T, S, np, up, p, i), Forms(T)
    PROVE  /\ p \in 1 .. np - 1 /\ ~ T[p].leaf /\ ~ S[p].leaf /\ p # up.right /\ i \in Nat
           /\ up # NoClimb /\ Unlinked(up) = up.right
           /\ up.left \in 1 .. np - 1 /\ up.right \in 1 .. np - 1 /\ up.left # up.right
           /\ T[up.right].parent = p /\ level[up.right] + 1 = level[p] /\ T[up.right].keys # <<>>
           /\ S[p].keys # <<>> /\ Len(T[p].ptrs) = Len(T[p].keys) + 1
           /\ i + 1 \in DOMAIN S[p].ptrs /\ S[p].ptrs[i + 1] = up.right
           /\ \A j \in DOMAIN T[p].ptrs :
                 /\ j \in Nat
                 /\ j <= i => j \in DOMAIN S[p].ptrs /\ S[p].ptrs[j] = T[p].ptrs[j]
                 /\ j > i => j + 1 \in DOMAIN S[p].ptrs /\ S[p].ptrs[j + 1] = T[p].ptrs[j]
           /\ \A j \in DOMAIN S[p].ptrs :
                 /\ j \in Nat
                 /\ \/ j \in DOMAIN T[p].ptrs /\ j <= i
                    \/ j = i + 1
                    \/ j - 1 \in DOMAIN T[p].ptrs /\ j - 1 > i
<1>1. up # NoClimb /\ Unlinked(up) = up.right /\ up.key \in Key /\ up.right \in PageId
    BY BTreeAssumption DEF Climb, Unlinked
<1>2. /\ up.left \in 1 .. np - 1 /\ up.right \in 1 .. np - 1 /\ up.left # up.right
      /\ level[up.left] = level[up.right] /\ T[up.left].parent = T[up.right].parent
      /\ T[up.left].keys # <<>> /\ T[up.right].keys # <<>>
    BY <1>1 DEF Shape, HalvesInv
<1>3. p \in 1 .. np - 1 /\ ~ T[p].leaf
    BY <1>1, <1>2 DEF Shape, ParentsInv, Linked
<1>4. p \in PageId /\ Formed(T[p]) /\ i \in DOMAIN T[p].ptrs /\ T[p].ptrs[i] = up.left
    BY <1>3, PageRange DEF Forms, Linked
<1>5. level[up.right] + 1 = level[p] /\ level[up.right] \in Nat /\ level[p] \in Nat
    BY <1>2, <1>3, <1>4, PageRange DEF Shape, ChildrenInv, LevelsInv
<1>. DEFINE ps == T[p].ptrs
            l == Len(ps)
            ts == S[p].ptrs
<1>6. ps \in Seq(PageId) /\ DOMAIN ps = 1 .. l /\ l \in Nat /\ l = Len(T[p].keys) + 1
    BY <1>3, <1>4, NodeFacts DEF Formed
<1>7. i + 1 \in 1 .. l + 1 /\ i \in 1 .. l
    BY <1>4, <1>6
<1>8. /\ ts \in Seq(PageId) /\ Len(ts) = l + 1 /\ ts[i + 1] = up.right
      /\ \A j \in 1 .. i : ts[j] = ps[j]
      /\ \A j \in i + 1 .. l : ts[j + 1] = ps[j]
    <2>1. ts = InsertAt(ps, i + 1, up.right)
        BY DEF Linked
    <2>2. \A q \in Seq(PageId) : i + 1 \in 1 .. Len(q) + 1 => \A r : r = InsertAt(q, i + 1, up.right) =>
             /\ r \in Seq(PageId) /\ Len(r) = Len(q) + 1 /\ r[i + 1] = up.right
             /\ \A j \in 1 .. (i + 1) - 1 : r[j] = q[j]
             /\ \A j \in i + 1 .. Len(q) : r[j + 1] = q[j]
        BY <1>1, InsertedPages
    <2>. HIDE DEF ts, ps
    <2>3. /\ ts \in Seq(PageId) /\ Len(ts) = l + 1 /\ ts[i + 1] = up.right
          /\ \A j \in 1 .. (i + 1) - 1 : ts[j] = ps[j]
          /\ \A j \in i + 1 .. l : ts[j + 1] = ps[j]
        BY <1>6, <1>7, <2>1, <2>2, Zenon
    <2>4. (i + 1) - 1 = i
        BY <1>7
    <2>. QED
        BY <2>3, <2>4
<1>9. S[p].keys # <<>>
    <2>1. S[p].keys = InsertAt(T[p].keys, i, up.key) /\ T[p].keys \in Seq(Key)
        BY <1>4, NodeFacts DEF Linked
    <2>2. i \in 1 .. Len(T[p].keys) + 1
        BY <1>6, <1>7
    <2>3. \A q \in Seq(Key) : i \in 1 .. Len(q) + 1 => Len(InsertAt(q, i, up.key)) = Len(q) + 1
        BY <1>1, InsertAtFacts
    <2>4. Len(S[p].keys) = Len(T[p].keys) + 1
        BY <2>1, <2>2, <2>3, Zenon
    <2>5. Len(T[p].keys) \in Nat
        BY <2>1, LenProperties
    <2>. QED
        BY <2>4, <2>5
<1>. HIDE DEF ts, ps, l
<1>10. DOMAIN ts = 1 .. l + 1
    BY <1>6, <1>8, LenProperties
<1>11. i + 1 \in DOMAIN ts
    BY <1>6, <1>7, <1>10
<1>12. \A j \in DOMAIN ps :
          /\ j \in Nat
          /\ j <= i => j \in DOMAIN ts /\ ts[j] = ps[j]
          /\ j > i => j + 1 \in DOMAIN ts /\ ts[j + 1] = ps[j]
    <2>. TAKE j \in DOMAIN ps
    <2>1. j \in 1 .. l
        BY <1>6
    <2>2. j <= i => j \in 1 .. i /\ j \in 1 .. l + 1
        BY <1>6, <1>7, <2>1
    <2>3. j > i => j \in i + 1 .. l /\ j + 1 \in 1 .. l + 1
        BY <1>6, <1>7, <2>1
    <2>. QED
        BY <1>8, <1>10, <2>1, <2>2, <2>3
<1>13. \A j \in DOMAIN ts :
          /\ j \in Nat
          /\ \/ j \in DOMAIN ps /\ j <= i
             \/ j = i + 1
             \/ j - 1 \in DOMAIN ps /\ j - 1 > i
    BY <1>6, <1>7, <1>10
<1>14. ~ S[p].leaf /\ p # up.right /\ T[up.right].parent = p
    BY <1>2, <1>3, <1>5 DEF Linked
<1>. QED
    BY <1>1, <1>2, <1>3, <1>5, <1>6, <1>7, <1>8, <1>9, <1>11, <1>12, <1>13, <1>14 DEF ts, ps, l

\* A parent that learns of the right half keeps the shape.
LEMMA LinkShape ==
    ASSUME NEW np \in 1 .. MaxPages, NEW T, NEW S, NEW level, NEW up \in Climb, Shape(T, level, np, up),
           NEW p, NEW i, Linked(T, S, np, up, p, i), Forms(T)
    PROVE  Shape(S, level, np, NoClimb)
<1>1. /\ p \in 1 .. np - 1 /\ ~ T[p].leaf /\ ~ S[p].leaf /\ p # up.right /\ i \in Nat
      /\ up # NoClimb /\ Unlinked(up) = up.right
      /\ up.left \in 1 .. np - 1 /\ up.right \in 1 .. np - 1 /\ up.left # up.right
      /\ T[up.right].parent = p /\ level[up.right] + 1 = level[p] /\ T[up.right].keys # <<>>
      /\ S[p].keys # <<>>
      /\ i + 1 \in DOMAIN S[p].ptrs /\ S[p].ptrs[i + 1] = up.right
    BY LinkFacts
<1>2. \A j \in DOMAIN T[p].ptrs :
         /\ j \in Nat
         /\ j <= i => j \in DOMAIN S[p].ptrs /\ S[p].ptrs[j] = T[p].ptrs[j]
         /\ j > i => j + 1 \in DOMAIN S[p].ptrs /\ S[p].ptrs[j + 1] = T[p].ptrs[j]
    BY LinkFacts
<1>3. \A j \in DOMAIN S[p].ptrs :
         /\ j \in Nat
         /\ \/ j \in DOMAIN T[p].ptrs /\ j <= i
            \/ j = i + 1
            \/ j - 1 \in DOMAIN T[p].ptrs /\ j - 1 > i
    BY LinkFacts
<1>4. S[p].leaf = T[p].leaf /\ S[p].parent = T[p].parent /\ \A q \in 1 .. np - 1 : q # p => S[q] = T[q]
    BY DEF Linked
<1>5. \A q \in 1 .. np - 1 : S[q].parent = T[q].parent /\ S[q].leaf = T[q].leaf
    BY <1>4
<1>6. \A q \in 1 .. np - 1 : T[q].keys # <<>> => S[q].keys # <<>>
    BY <1>1, <1>4
<1>7. LevelsInv(S, level, np) /\ HalvesInv(S, level, np, NoClimb)
    BY <1>5 DEF Shape, LevelsInv, HalvesInv
<1>8. ASSUME NEW c, IsChild(T, c, p) PROVE IsChild(S, c, p)
    <2>1. PICK j \in DOMAIN T[p].ptrs : T[p].ptrs[j] = c
        BY <1>8 DEF IsChild
    <2>. QED
        BY <1>1, <1>2, <2>1 DEF IsChild
<1>9. ParentsInv(S, np, NoClimb)
    <2>. SUFFICES ASSUME NEW q \in 1 .. np - 1, S[q].parent # NoPage
                  PROVE  /\ S[q].parent \in 1 .. np - 1 /\ ~ S[S[q].parent].leaf
                         /\ IsChild(S, q, S[q].parent)
        BY DEF ParentsInv
    <2>1. CASE q = up.right
        BY <1>1, <1>5, <2>1 DEF IsChild
    <2>2. CASE q # up.right
        <3>1. T[q].parent \in 1 .. np - 1 /\ ~ T[T[q].parent].leaf /\ IsChild(T, q, T[q].parent)
            BY <1>1, <1>5, <2>2 DEF Shape, ParentsInv
        <3>2. T[q].parent # p => IsChild(S, q, T[q].parent)
            BY <1>4, <3>1 DEF IsChild
        <3>. QED
            BY <1>5, <1>8, <3>1, <3>2
    <2>. QED
        BY <2>1, <2>2
<1>10. \A q \in 1 .. np - 1 : ~ T[q].leaf => \A j \in DOMAIN T[q].ptrs :
            /\ T[q].ptrs[j] \in 1 .. np - 1 /\ T[q].ptrs[j] # up.right
            /\ T[T[q].ptrs[j]].parent = q /\ level[T[q].ptrs[j]] + 1 = level[q]
            /\ T[T[q].ptrs[j]].keys # <<>>
            /\ \A x \in DOMAIN T[q].ptrs : T[q].ptrs[j] = T[q].ptrs[x] => j = x
    BY <1>1 DEF Shape, ChildrenInv
<1>11. ASSUME NEW q \in 1 .. np - 1, ~ S[q].leaf, NEW j \in DOMAIN S[q].ptrs
       PROVE  /\ S[q].ptrs[j] \in 1 .. np - 1
              /\ S[S[q].ptrs[j]].parent = q /\ level[S[q].ptrs[j]] + 1 = level[q]
              /\ S[S[q].ptrs[j]].keys # <<>>
              /\ \A x \in DOMAIN S[q].ptrs : S[q].ptrs[j] = S[q].ptrs[x] => j = x
    <2>1. CASE q # p
        <3>1. ~ T[q].leaf /\ S[q] = T[q]
            BY <1>4, <1>5, <1>11, <2>1
        <3>. DEFINE c == T[q].ptrs[j]
        <3>2. /\ c \in 1 .. np - 1 /\ T[c].parent = q /\ level[c] + 1 = level[q] /\ T[c].keys # <<>>
              /\ \A x \in DOMAIN T[q].ptrs : c = T[q].ptrs[x] => j = x
            BY <1>10, <1>11, <3>1
        <3>. HIDE DEF c
        <3>3. S[c].parent = q /\ S[c].keys # <<>>
            BY <1>5, <1>6, <3>2
        <3>. QED
            BY <3>1, <3>2, <3>3 DEF c
    <2>2. CASE q = p
        <3>. DEFINE c == S[p].ptrs[j]
                    ps == T[p].ptrs
                    ts == S[p].ptrs
        <3>1. \A x \in DOMAIN ps :
                  /\ ps[x] \in 1 .. np - 1 /\ ps[x] # up.right
                  /\ T[ps[x]].parent = p /\ level[ps[x]] + 1 = level[p] /\ T[ps[x]].keys # <<>>
                  /\ \A y \in DOMAIN ps : ps[x] = ps[y] => x = y
            BY <1>1, <1>10
        <3>2. \A x \in DOMAIN ts :
                  \/ x \in DOMAIN ps /\ x <= i /\ ts[x] = ps[x]
                  \/ x = i + 1 /\ ts[x] = up.right
                  \/ x - 1 \in DOMAIN ps /\ x - 1 > i /\ ts[x] = ps[x - 1]
            <4>. TAKE x \in DOMAIN ts
            <4>1. x \in Nat => (x - 1) + 1 = x
                OBVIOUS
            <4>. QED
                BY <1>1, <1>2, <1>3, <4>1
        <3>3. \A x \in DOMAIN ts :
                  /\ ts[x] \in 1 .. np - 1
                  /\ T[ts[x]].parent = p /\ level[ts[x]] + 1 = level[p] /\ T[ts[x]].keys # <<>>
            BY <1>1, <3>1, <3>2
        <3>4. j \in DOMAIN ts
            BY <1>11, <2>2
        <3>5. ASSUME NEW x \in DOMAIN ts, ts[j] = ts[x] PROVE j = x
            <4>1. j \in Nat /\ x \in Nat
                BY <1>3, <3>4
            <4>. QED
                BY <1>1, <3>1, <3>2, <3>4, <3>5, <4>1, SMTT(60)
        <3>6. /\ c \in 1 .. np - 1 /\ T[c].parent = p /\ level[c] + 1 = level[p] /\ T[c].keys # <<>>
            BY <3>3, <3>4
        <3>. HIDE DEF c
        <3>7. S[c].parent = p /\ S[c].keys # <<>>
            BY <1>5, <1>6, <3>6
        <3>. QED
            BY <2>2, <3>5, <3>6, <3>7 DEF c
    <2>. QED
        BY <2>1, <2>2
<1>12. ChildrenInv(S, level, np, NoClimb)
    <2>1. \A q \in 1 .. np - 1 : q # Unlinked(NoClimb)
        BY PageRange, NoClimbFacts
    <2>. QED
        BY <1>11, <2>1 DEF ChildrenInv
<1>. QED
    BY <1>7, <1>9, <1>12 DEF Shape

\* The keys find their ways from it.
LEMMA LinkKeeps ==
    ASSUME NEW np \in 1 .. MaxPages, NEW T, NEW S, NEW level, NEW up \in Climb, Shape(T, level, np, up),
           NEW p, NEW i, Linked(T, S, np, up, p, i), Forms(T), Formed(S[p]),
           NEW R, NEW root \in 1 .. np - 1, NEW es, Routes(T, level, R, np, up, root, es)
    PROVE  Routes(S, level, R, np, NoClimb, root, es)
<1>. DEFINE left == up.left
            right == up.right
            key == up.key
<1>1. /\ p \in 1 .. np - 1 /\ ~ T[p].leaf /\ ~ S[p].leaf /\ p # right /\ i \in Nat
      /\ up # NoClimb /\ Unlinked(up) = right
      /\ left \in 1 .. np - 1 /\ right \in 1 .. np - 1 /\ left # right
      /\ T[right].parent = p /\ level[right] + 1 = level[p]
      /\ S[p].keys # <<>> /\ Len(T[p].ptrs) = Len(T[p].keys) + 1
      /\ i + 1 \in DOMAIN S[p].ptrs /\ S[p].ptrs[i + 1] = right
    BY LinkFacts
<1>2. \A j \in DOMAIN T[p].ptrs :
         /\ j \in Nat
         /\ j <= i => j \in DOMAIN S[p].ptrs /\ S[p].ptrs[j] = T[p].ptrs[j]
         /\ j > i => j + 1 \in DOMAIN S[p].ptrs /\ S[p].ptrs[j + 1] = T[p].ptrs[j]
    BY LinkFacts
<1>3. \A j \in DOMAIN S[p].ptrs :
         /\ j \in Nat
         /\ \/ j \in DOMAIN T[p].ptrs /\ j <= i
            \/ j = i + 1
            \/ j - 1 \in DOMAIN T[p].ptrs /\ j - 1 > i
    BY LinkFacts
<1>4. /\ S[p].leaf = T[p].leaf /\ S[p].parent = T[p].parent /\ \A q \in 1 .. np - 1 : q # p => S[q] = T[q]
      /\ p = T[left].parent /\ p # NoPage /\ i \in DOMAIN T[p].ptrs /\ T[p].ptrs[i] = left
      /\ S[p].keys = InsertAt(T[p].keys, i, key)
    BY DEF Linked
<1>5. \A q \in 1 .. np - 1 : S[q].parent = T[q].parent /\ S[q].leaf = T[q].leaf
    BY <1>4
<1>6. R \in [PageId -> SUBSET Key] /\ \A q \in 1 .. np - 1 : R[q] \subseteq Key
    BY PageRange DEF Routes, RootRoutes
<1>7. /\ key \in Key /\ key \in Nat /\ (\A k \in Key : k \in Nat)
      /\ \A k \in R[left] : k < key
      /\ \A k \in R[right] : k >= key
      /\ key \in R[right]
    BY <1>1, BTreeAssumption DEF Climb, Key, Routes, CutRoutes
<1>8. \A x : Whole(R, up, x) = IF x = left THEN R[left] \cup R[right] ELSE R[x]
    BY <1>1 DEF Whole
<1>9. \A x : Whole(R, NoClimb, x) = R[x]
    BY NoClimbFacts
<1>10. \A q \in 1 .. np - 1 : ~ T[q].leaf => \A j \in DOMAIN T[q].ptrs :
            /\ T[T[q].ptrs[j]].parent = q
            /\ \A x \in DOMAIN T[q].ptrs : T[q].ptrs[j] = T[q].ptrs[x] => j = x
            /\ \A k \in Key : k \in Whole(R, up, T[q].ptrs[j]) <=> k \in R[q] /\ Way(T[q], k) = j
    BY DEF Shape, ChildrenInv, Routes, ChildRoutes
<1>11. \A k \in Key : k \in R[left] \/ k \in R[right] <=> k \in R[p] /\ Way(T[p], k) = i
    <2>1. Whole(R, up, left) = R[left] \cup R[right]
        BY <1>8
    <2>. QED
        BY <1>1, <1>4, <1>10, <2>1, SMTT(60)
<1>12. key \in R[p] /\ Way(T[p], key) = i
    BY <1>7, <1>11
<1>13. Formed(T[p]) /\ p \in PageId
    BY <1>1, PageRange DEF Forms
<1>14. \A k \in Key :
           /\ Way(T[p], k) < i => Way(S[p], k) = Way(T[p], k)
           /\ Way(T[p], k) = i /\ k < key => Way(S[p], k) = i
           /\ Way(T[p], k) = i /\ ~ (k < key) => Way(S[p], k) = i + 1
           /\ Way(T[p], k) > i => Way(S[p], k) = Way(T[p], k) + 1
    BY <1>4, <1>7, <1>12, <1>13, WayInserted
<1>15. \A k \in Key : Way(T[p], k) \in Nat
    BY <1>7, <1>13, WayFacts, NodeFacts
<1>16. RootRoutes(S, level, R, np, NoClimb, root)
    <2>1. /\ T[root].parent = NoPage /\ Whole(R, up, root) = Key
          /\ \A q \in 1 .. np - 1 : level[q] <= level[root] /\ (T[q].parent = NoPage /\ q # right => q = root)
        BY <1>1 DEF Routes, RootRoutes
    <2>2. root # left
        BY <1>4, <2>1
    <2>3. R[root] = Key
        BY <1>8, <2>1, <2>2
    <2>4. \A q \in 1 .. np - 1 : S[q].parent = NoPage => q = root
        BY <1>1, <1>4, <1>5, <2>1
    <2>. QED
        BY <1>5, <1>6, <1>9, <2>1, <2>3, <2>4 DEF RootRoutes
<1>17. KeyRoutes(S, R, np)
    <2>. SUFFICES ASSUME NEW q \in 1 .. np - 1
                  PROVE  Sorted(S[q]) /\ \A j \in DOMAIN S[q].keys : S[q].keys[j] \in R[q]
        BY DEF KeyRoutes
    <2>1. \A x \in 1 .. np - 1 : Sorted(T[x]) /\ \A j \in DOMAIN T[x].keys : T[x].keys[j] \in R[x]
        BY DEF Routes, KeyRoutes
    <2>2. CASE q # p
        BY <1>4, <2>1, <2>2
    <2>3. CASE q = p
        <3>. DEFINE ks == T[p].keys
                    ts == S[p].keys
                    l == Len(ks)
        <3>1. ks \in Seq(Key) /\ l \in Nat /\ DOMAIN ks = 1 .. l /\ \A j \in 1 .. l : ks[j] \in Nat
            BY <1>13, NodeFacts
        <3>2. i \in 1 .. l + 1 /\ (i <= l => ks[i] > key)
            BY <1>7, <1>12, <1>13, WayFacts
        <3>3. /\ ts \in Seq(Key) /\ Len(ts) = l + 1 /\ ts[i] = key
              /\ \A j \in 1 .. i - 1 : ts[j] = ks[j]
              /\ \A j \in i .. l : ts[j + 1] = ks[j]
            <4>1. \A s \in Seq(Key) : i \in 1 .. Len(s) + 1 => \A r : r = InsertAt(s, i, key) =>
                     /\ r \in Seq(Key) /\ Len(r) = Len(s) + 1 /\ r[i] = key
                     /\ \A j \in 1 .. i - 1 : r[j] = s[j]
                     /\ \A j \in i .. Len(s) : r[j + 1] = s[j]
                BY <1>7, InsertedKeys, ZenonT(60)
            <4>. QED
                BY <1>4, <3>1, <3>2, <4>1, Zenon
        <3>4. Sorted(T[p]) /\ \A j \in 1 .. l : ks[j] \in R[p]
            BY <1>1, <2>1, <3>1
        <3>5. \A x, y \in 1 .. l : x < y => ks[x] < ks[y]
            BY <3>1, <3>4 DEF Sorted
        <3>6. \A j \in 1 .. i - 1 : ks[j] < key
            \* Some key of the left half lies between.
            <4>1. T[left].keys # <<>> /\ left \in PageId
                BY <1>1, PageRange DEF Shape, HalvesInv
            <4>2. Formed(T[left])
                BY <4>1 DEF Forms
            <4>3. T[left].keys \in Seq(Key) /\ DOMAIN T[left].keys = 1 .. Len(T[left].keys) /\ Len(T[left].keys) \in Nat
                BY <4>2, NodeFacts
            <4>4. 1 \in DOMAIN T[left].keys
                <5>1. Len(T[left].keys) # 0
                    BY <4>1, <4>3, EmptySeq
                <5>. QED
                    BY <4>3, <5>1
            <4>. DEFINE k == T[left].keys[1]
            <4>5. k \in R[left] /\ k \in Key
                BY <1>1, <1>6, <2>1, <4>4
            <4>. HIDE DEF k
            <4>6. k < key /\ k \in Nat /\ Way(T[p], k) = i
                BY <1>7, <1>11, <4>5
            <4>7. \A j \in 1 .. i - 1 : ks[j] <= k
                BY <1>13, <4>6, WayFacts
            <4>. QED
                BY <1>7, <3>1, <3>2, <4>6, <4>7, SMTT(60)
        <3>. HIDE DEF ks, ts, l
        <3>7. DOMAIN ts = 1 .. l + 1
            BY <3>1, <3>3, LenProperties
        <3>8. ASSUME NEW x \in 1 .. l + 1
              PROVE  \/ x < i /\ x \in 1 .. l /\ ts[x] = ks[x]
                     \/ x = i /\ ts[x] = key
                     \/ x > i /\ x - 1 \in i .. l /\ x - 1 \in 1 .. l /\ ts[x] = ks[x - 1]
            <4>1. CASE x < i
                BY <3>1, <3>2, <3>3, <4>1
            <4>2. CASE x = i
                BY <3>3, <4>2
            <4>3. CASE x > i
                <5>1. x - 1 \in i .. l /\ x - 1 \in 1 .. l /\ (x - 1) + 1 = x
                    BY <3>1, <3>2, <4>3
                <5>. QED
                    BY <3>3, <4>3, <5>1
            <4>. QED
                BY <3>2, <4>1, <4>2, <4>3
        <3>9. \A j \in i .. l : key < ks[j]
            <4>. TAKE j \in i .. l
            <4>1. i \in 1 .. l /\ j \in 1 .. l /\ i <= l
                BY <3>1, <3>2
            <4>2. i = j \/ ks[i] < ks[j]
                BY <3>5, <4>1
            <4>. QED
                BY <1>7, <3>1, <3>2, <4>1, <4>2
        <3>10. ASSUME NEW x \in 1 .. l + 1, NEW y \in 1 .. l + 1, x < y PROVE ts[x] < ts[y]
            <4>1. CASE y < i
                <5>1. x \in 1 .. l /\ y \in 1 .. l /\ ts[x] = ks[x] /\ ts[y] = ks[y]
                    BY <3>2, <3>8, <3>10, <4>1
                <5>. QED
                    BY <3>5, <3>10, <5>1
            <4>2. CASE y = i
                <5>1. x \in 1 .. i - 1 /\ ts[x] = ks[x] /\ ts[y] = key
                    BY <3>2, <3>8, <3>10, <4>2
                <5>. QED
                    BY <3>6, <5>1
            <4>3. CASE y > i /\ x < i
                <5>1. x \in 1 .. i - 1 /\ ts[x] = ks[x] /\ y - 1 \in i .. l /\ ts[y] = ks[y - 1]
                      /\ x \in 1 .. l /\ y - 1 \in 1 .. l
                    BY <3>2, <3>8, <4>3
                <5>2. ks[x] < key /\ key < ks[y - 1] /\ ks[x] \in Nat /\ ks[y - 1] \in Nat
                    BY <3>1, <3>6, <3>9, <5>1
                <5>. QED
                    BY <1>7, <5>1, <5>2
            <4>4. CASE y > i /\ x = i
                <5>1. ts[x] = key /\ y - 1 \in i .. l /\ ts[y] = ks[y - 1]
                    BY <3>2, <3>8, <4>4
                <5>. QED
                    BY <3>9, <5>1
            <4>5. CASE x > i
                <5>1. x - 1 \in 1 .. l /\ ts[x] = ks[x - 1] /\ y - 1 \in 1 .. l /\ ts[y] = ks[y - 1]
                      /\ x - 1 < y - 1
                    BY <3>2, <3>8, <3>10, <4>5
                <5>. QED
                    BY <3>5, <5>1
            <4>. QED
                BY <3>2, <3>10, <4>1, <4>2, <4>3, <4>4, <4>5
        <3>11. Sorted(S[p])
            BY <3>7, <3>10 DEF Sorted, ts
        <3>12. \A x \in DOMAIN ts : ts[x] \in R[p]
            BY <1>12, <3>4, <3>7, <3>8
        <3>. QED
            BY <2>3, <3>11, <3>12 DEF ts
    <2>. QED
        BY <2>2, <2>3
<1>18. ChildRoutes(S, R, np, NoClimb)
    <2>. SUFFICES ASSUME NEW q \in 1 .. np - 1, ~ S[q].leaf, NEW j \in DOMAIN S[q].ptrs, NEW k \in Key
                  PROVE  k \in R[S[q].ptrs[j]] <=> k \in R[q] /\ Way(S[q], k) = j
        BY <1>9 DEF ChildRoutes
    <2>1. CASE q # p
        <3>1. ~ T[q].leaf /\ S[q] = T[q]
            BY <1>4, <2>1
        <3>2. T[q].ptrs[j] # left
            BY <1>4, <1>10, <2>1, <3>1
        <3>. QED
            BY <1>8, <1>10, <3>1, <3>2
    <2>2. CASE q = p
        <3>. DEFINE c == S[p].ptrs[j]
                    w == Way(T[p], k)
                    z == Way(S[p], k)
        <3>1. /\ w < i => z = w
              /\ w = i /\ k < key => z = i
              /\ w = i /\ ~ (k < key) => z = i + 1
              /\ w > i => z = w + 1
              /\ w \in Nat
            BY <1>14, <1>15
        <3>2. \A x \in DOMAIN T[p].ptrs : x # i => (k \in R[T[p].ptrs[x]] <=> k \in R[p] /\ w = x)
            <4>. SUFFICES ASSUME NEW x \in DOMAIN T[p].ptrs, x # i
                          PROVE  k \in R[T[p].ptrs[x]] <=> k \in R[p] /\ w = x
                OBVIOUS
            <4>1. T[p].ptrs[x] # left
                BY <1>1, <1>4, <1>10
            <4>. QED
                BY <1>1, <1>8, <1>10, <4>1
        <3>3. k \in R[left] <=> k \in R[p] /\ w = i /\ k < key
            BY <1>7, <1>11
        <3>4. k \in R[right] <=> k \in R[p] /\ w = i /\ ~ (k < key)
            BY <1>7, <1>11
        <3>5. j \in Nat /\ j \in DOMAIN S[p].ptrs
            BY <1>3, <2>2
        <3>. HIDE DEF w, z
        <3>6. CASE j \in DOMAIN T[p].ptrs /\ j < i
            <4>1. c = T[p].ptrs[j]
                BY <1>1, <1>2, <3>6
            <4>2. w = j <=> z = j
                BY <1>1, <3>1, <3>5, <3>6
            <4>. QED
                BY <1>1, <2>2, <3>2, <3>5, <3>6, <4>1, <4>2 DEF z
        <3>7. CASE j = i
            <4>1. c = left
                <5>1. i \in DOMAIN T[p].ptrs /\ T[p].ptrs[i] = left
                    BY <1>4
                <5>. QED
                    BY <1>2, <3>7, <5>1
            <4>2. w = i /\ k < key <=> z = i
                BY <1>1, <3>1
            <4>. QED
                BY <2>2, <3>3, <3>7, <4>1, <4>2 DEF z
        <3>8. CASE j = i + 1
            <4>1. c = right
                BY <1>1, <3>8
            <4>2. w = i /\ ~ (k < key) <=> z = i + 1
                BY <1>1, <3>1
            <4>. QED
                BY <2>2, <3>4, <3>8, <4>1, <4>2 DEF z
        <3>9. CASE j - 1 \in DOMAIN T[p].ptrs /\ j - 1 > i
            <4>1. c = T[p].ptrs[j - 1]
                <5>1. (j - 1) + 1 = j
                    BY <3>5
                <5>. QED
                    BY <1>2, <3>9, <5>1
            <4>2. w = j - 1 <=> z = j
                BY <1>1, <3>1, <3>5, <3>9
            <4>3. j - 1 # i
                BY <1>1, <3>5, <3>9
            <4>. QED
                BY <2>2, <3>2, <3>9, <4>1, <4>2, <4>3 DEF z
        <3>. QED
            BY <1>1, <1>3, <3>5, <3>6, <3>7, <3>8, <3>9
    <2>. QED
        BY <2>1, <2>2
<1>19. LeafRoutes(S, R, np, es)
    BY <1>1, <1>4 DEF Routes, LeafRoutes
<1>20. Apart(level, R, np) /\ CutRoutes(R, NoClimb)
    BY DEF Routes, CutRoutes
<1>21. NextRoutes(S, R, np)
    <2>1. \A q \in 1 .. np - 1 : (S[q].leaf <=> T[q].leaf) /\ (T[q].leaf => S[q].next = T[q].next)
        BY <1>1, <1>4, <1>5
    <2>2. NextRoutes(T, R, np) /\ np \in Nat
        BY DEF Routes
    <2>. QED
        BY <2>1, <2>2, NextKept
<1>. QED
    BY <1>16, <1>17, <1>18, <1>19, <1>20, <1>21 DEF Routes

\* Page np becomes the parent of both halves of what was a root.
Crowned(T, S, np, up) ==
    /\ T[up.left].parent = NoPage
    /\ ~ S[np].leaf /\ S[np].keys = <<up.key>> /\ S[np].ptrs = <<up.left, up.right>>
    /\ S[np].parent = NoPage
    /\ \A q \in 1 .. np - 1 :
          /\ S[q].leaf = T[q].leaf /\ S[q].keys = T[q].keys /\ S[q].ptrs = T[q].ptrs
          /\ S[q].parent = IF q = up.left \/ q = up.right THEN np ELSE T[q].parent
          /\ S[q].next = T[q].next

\* A new root keeps the shape.
LEMMA CrownShape ==
    ASSUME NEW np \in 1 .. MaxPages - 1, NEW T, NEW S, NEW level, NEW up \in Climb, Shape(T, level, np, up),
           Crowned(T, S, np, up), NEW lv \in [PageId -> Nat], lv[np] = level[up.left] + 1,
           \A q \in 1 .. np - 1 : lv[q] = level[q]
    PROVE  Shape(S, lv, np + 1, NoClimb)
<1>. DEFINE left == up.left
            right == up.right
<1>0. /\ 1 .. (np + 1) - 1 = 1 .. np /\ np \notin 1 .. np - 1 /\ np \in 1 .. np
      /\ \A q \in 1 .. np : q # np => q \in 1 .. np - 1
      /\ 1 .. np - 1 \subseteq 1 .. np /\ np \in Nat
    OBVIOUS
<1>1. np # NoPage /\ \A q \in 1 .. np : q # Catalog /\ q # NoPage
    BY BTreeAssumption DEF Catalog
<1>2. up # NoClimb /\ Unlinked(up) = right
    BY BTreeAssumption DEF Unlinked
<1>3. /\ left \in 1 .. np - 1 /\ right \in 1 .. np - 1 /\ left # right
      /\ level[left] = level[right] /\ T[left].parent = T[right].parent
      /\ T[left].keys # <<>> /\ T[right].keys # <<>>
    BY <1>2 DEF Shape, HalvesInv
<1>4. \A q \in 1 .. np - 1 :
         /\ S[q].leaf = T[q].leaf /\ S[q].keys = T[q].keys /\ S[q].ptrs = T[q].ptrs
         /\ S[q].parent = IF q = left \/ q = right THEN np ELSE T[q].parent
    BY DEF Crowned
<1>5. T[left].parent = NoPage /\ ~ S[np].leaf /\ S[np].ptrs = <<left, right>> /\ S[np].parent = NoPage
      /\ S[np].keys # <<>>
    BY DEF Crowned
<1>6. \A q \in 1 .. np - 1 : level[q] \in Nat /\ level[q] < np /\ (T[q].leaf <=> level[q] = 0)
    BY BTreeAssumption DEF Shape, LevelsInv, PageId
<1>7. DOMAIN <<left, right>> = {1, 2} /\ <<left, right>>[1] = left /\ <<left, right>>[2] = right
    OBVIOUS
<1>8. LevelsInv(S, lv, np + 1)
    <2>. SUFFICES ASSUME NEW q \in 1 .. np PROVE lv[q] < np + 1 /\ (S[q].leaf <=> lv[q] = 0)
        BY <1>0 DEF LevelsInv
    <2>1. CASE q = np
        BY <1>3, <1>5, <1>6, <2>1
    <2>2. CASE q # np
        BY <1>0, <1>4, <1>6, <2>2
    <2>. QED
        BY <2>1, <2>2
<1>9. ParentsInv(S, np + 1, NoClimb)
    <2>. SUFFICES ASSUME NEW q \in 1 .. np, S[q].parent # NoPage
                  PROVE  /\ S[q].parent \in 1 .. np /\ ~ S[S[q].parent].leaf
                         /\ IsChild(S, q, S[q].parent)
        BY <1>0 DEF ParentsInv
    <2>1. q \in 1 .. np - 1
        BY <1>0, <1>5
    <2>2. CASE q = left \/ q = right
        BY <1>0, <1>4, <1>5, <1>7, <2>1, <2>2 DEF IsChild
    <2>3. CASE ~ (q = left \/ q = right)
        <3>1. S[q].parent = T[q].parent /\ q # Unlinked(up)
            BY <1>2, <1>4, <2>1, <2>3
        <3>2. T[q].parent \in 1 .. np - 1 /\ ~ T[T[q].parent].leaf /\ IsChild(T, q, T[q].parent)
            BY <2>1, <3>1 DEF Shape, ParentsInv
        <3>3. IsChild(S, q, T[q].parent)
            BY <1>4, <3>2 DEF IsChild
        <3>. QED
            BY <1>0, <1>4, <3>1, <3>2, <3>3
    <2>. QED
        BY <2>2, <2>3
<1>10. ASSUME NEW q \in 1 .. np, ~ S[q].leaf, NEW i \in DOMAIN S[q].ptrs
       PROVE  /\ S[q].ptrs[i] \in 1 .. np
              /\ S[S[q].ptrs[i]].parent = q /\ lv[S[q].ptrs[i]] + 1 = lv[q]
              /\ S[S[q].ptrs[i]].keys # <<>>
              /\ \A j \in DOMAIN S[q].ptrs : S[q].ptrs[i] = S[q].ptrs[j] => i = j
    <2>1. CASE q = np
        <3>1. S[left].parent = np /\ S[right].parent = np /\ S[left].keys # <<>> /\ S[right].keys # <<>>
              /\ lv[left] + 1 = lv[np] /\ lv[right] + 1 = lv[np]
            BY <1>3, <1>4
        <3>. QED
            BY <1>0, <1>3, <1>5, <1>7, <1>10, <2>1, <3>1
    <2>2. CASE q # np
        <3>1. q \in 1 .. np - 1 /\ ~ T[q].leaf /\ S[q].ptrs = T[q].ptrs /\ lv[q] = level[q]
            BY <1>0, <1>4, <1>10, <2>2
        <3>. DEFINE c == T[q].ptrs[i]
        <3>2. /\ c \in 1 .. np - 1 /\ T[c].parent = q /\ level[c] + 1 = level[q] /\ T[c].keys # <<>>
              /\ \A j \in DOMAIN T[q].ptrs : c = T[q].ptrs[j] => i = j
            BY <1>10, <3>1 DEF Shape, ChildrenInv
        <3>. HIDE DEF c
        <3>3. c # left /\ c # right
            <4>1. T[left].parent = NoPage /\ T[right].parent = NoPage /\ q # NoPage
                BY <1>1, <1>3, <1>5
            <4>. QED
                BY <3>2, <4>1
        <3>4. S[c].parent = q /\ S[c].keys # <<>> /\ lv[c] = level[c]
            BY <1>4, <3>2, <3>3
        <3>. QED
            BY <1>0, <3>1, <3>2, <3>4 DEF c
    <2>. QED
        BY <2>1, <2>2
<1>11. ChildrenInv(S, lv, np + 1, NoClimb)
    BY <1>0, <1>1, <1>10, NoClimbFacts DEF ChildrenInv
<1>12. HalvesInv(S, lv, np + 1, NoClimb)
    BY DEF HalvesInv
<1>. QED
    BY <1>8, <1>9, <1>11, <1>12 DEF Shape

\* Two functions agree below page np.
SameBelow(np, f, g) == \A q \in 1 .. np - 1 : f[q] = g[q]

\* The keys find their ways from it.
LEMMA CrownKeeps ==
    ASSUME NEW np \in 1 .. MaxPages - 1, NEW T, NEW S, NEW level, NEW up \in Climb, Shape(T, level, np, up),
           Crowned(T, S, np, up), NEW lv \in [PageId -> Nat], lv[np] = level[up.left] + 1,
           SameBelow(np, lv, level), Formed(S[np]),
           NEW R, NEW root \in 1 .. np - 1, NEW es, Routes(T, level, R, np, up, root, es),
           NEW Q \in [PageId -> SUBSET Key], Q[np] = Key, SameBelow(np, Q, R)
    PROVE  Routes(S, lv, Q, np + 1, NoClimb, np, es)
<1>. (\A q \in 1 .. np - 1 : lv[q] = level[q]) /\ \A q \in 1 .. np - 1 : Q[q] = R[q]
    BY DEF SameBelow
<1>. DEFINE left == up.left
            right == up.right
            key == up.key
<1>0. /\ 1 .. (np + 1) - 1 = 1 .. np /\ np \notin 1 .. np - 1 /\ np \in 1 .. np
      /\ \A q \in 1 .. np : q # np => q \in 1 .. np - 1
      /\ 1 .. np - 1 \subseteq 1 .. np /\ np \in Nat
    OBVIOUS
<1>1. np # NoPage /\ (\A q \in 1 .. np : q # NoPage) /\ 1 .. np - 1 \subseteq PageId
    BY BTreeAssumption DEF PageId
<1>2. up # NoClimb /\ Unlinked(up) = right
    BY BTreeAssumption DEF Unlinked
<1>3. left \in 1 .. np - 1 /\ right \in 1 .. np - 1 /\ left # right /\ T[left].parent = NoPage
      /\ T[right].parent = NoPage
    BY <1>2 DEF Shape, HalvesInv, Crowned
<1>4. \A q \in 1 .. np - 1 :
         /\ S[q].leaf = T[q].leaf /\ S[q].keys = T[q].keys /\ S[q].ptrs = T[q].ptrs
         /\ S[q].parent = IF q = left \/ q = right THEN np ELSE T[q].parent
    BY DEF Crowned
<1>5. ~ S[np].leaf /\ S[np].keys = <<key>> /\ S[np].ptrs = <<left, right>> /\ S[np].parent = NoPage
    BY DEF Crowned
<1>6. /\ key \in Key /\ key \in Nat /\ (\A k \in Key : k \in Nat)
      /\ \A k \in R[left] : k < key
      /\ \A k \in R[right] : k >= key
    BY <1>2, BTreeAssumption DEF Climb, Key, Routes, CutRoutes
<1>7. /\ R \in [PageId -> SUBSET Key] /\ Whole(R, up, root) = Key
      /\ \A q \in 1 .. np - 1 : level[q] <= level[root] /\ (T[q].parent = NoPage /\ q # right => q = root)
    BY <1>2 DEF Routes, RootRoutes
<1>8. root = left /\ R[left] \cup R[right] = Key
    <2>1. root = left
        BY <1>3, <1>7
    <2>. QED
        BY <1>2, <1>7, <2>1 DEF Whole
<1>9. \A q \in 1 .. np - 1 : level[q] \in Nat /\ level[q] < lv[np]
    <2>1. \A q \in 1 .. np - 1 : level[q] \in Nat
        BY <1>1 DEF Shape, LevelsInv
    <2>. QED
        BY <1>7, <1>8, <2>1
<1>10. RootRoutes(S, lv, Q, np + 1, NoClimb, np)
    <2>1. Whole(Q, NoClimb, np) = Key
        BY NoClimbFacts
    <2>2. ASSUME NEW q \in 1 .. np PROVE lv[q] <= lv[np] /\ (S[q].parent = NoPage => q = np)
        <3>1. CASE q = np
            <4>1. np \in PageId
                BY BTreeAssumption DEF PageId
            <4>2. lv[np] \in Nat
                BY <4>1
            <4>. QED
                BY <3>1, <4>2
        <3>2. CASE q # np
            <4>1. q \in 1 .. np - 1 /\ lv[q] \in Nat /\ lv[q] < lv[np]
                BY <1>0, <1>9, <3>2
            <4>2. lv[np] \in Nat
                BY <1>3, <1>9
            <4>3. S[q].parent # NoPage
                BY <1>1, <1>4, <1>7, <1>8, <4>1
            <4>. QED
                BY <4>1, <4>2, <4>3
        <3>. QED
            BY <3>1, <3>2
    <2>. QED
        BY <1>0, <1>5, <2>1, <2>2 DEF RootRoutes
<1>11. KeyRoutes(S, Q, np + 1)
    <2>. SUFFICES ASSUME NEW q \in 1 .. np
                  PROVE  Sorted(S[q]) /\ \A i \in DOMAIN S[q].keys : S[q].keys[i] \in Q[q]
        BY <1>0 DEF KeyRoutes
    <2>1. CASE q = np
        <3>1. DOMAIN <<key>> = {1} /\ <<key>>[1] = key
            OBVIOUS
        <3>. QED
            BY <1>5, <1>6, <2>1, <3>1 DEF Sorted
    <2>2. CASE q # np
        <3>1. q \in 1 .. np - 1 /\ S[q].keys = T[q].keys /\ Q[q] = R[q]
            BY <1>0, <1>4, <2>2
        <3>2. Sorted(T[q]) /\ \A i \in DOMAIN T[q].keys : T[q].keys[i] \in R[q]
            BY <3>1 DEF Routes, KeyRoutes
        <3>. QED
            BY <3>1, <3>2 DEF Sorted
    <2>. QED
        BY <2>1, <2>2
<1>12. ChildRoutes(S, Q, np + 1, NoClimb)
    <2>. SUFFICES ASSUME NEW q \in 1 .. np, ~ S[q].leaf, NEW i \in DOMAIN S[q].ptrs, NEW k \in Key
                  PROVE  k \in Q[S[q].ptrs[i]] <=> k \in Q[q] /\ Way(S[q], k) = i
        BY <1>0, NoClimbFacts DEF ChildRoutes
    <2>1. CASE q = np
        <3>. DEFINE n == S[np]
        <3>1. Len(n.keys) = 1 /\ n.keys[1] = key /\ DOMAIN n.ptrs = {1, 2} /\ n.ptrs[1] = left /\ n.ptrs[2] = right
            BY <1>5
        <3>. HIDE DEF n
        <3>2. k < key => Way(n, k) = 1
            <4>. SUFFICES ASSUME k < key PROVE Way(n, k) = 1
                OBVIOUS
            <4>1. /\ 1 \in 1 .. Len(n.keys) + 1 /\ (\A j \in 1 .. 1 - 1 : n.keys[j] <= k)
                  /\ n.keys[1] > k /\ k \in Nat /\ Formed(n)
                BY <1>6, <3>1 DEF n
            <4>. QED
                BY <4>1, WayIs
        <3>3. ~ (k < key) => Way(n, k) = 2
            <4>. SUFFICES ASSUME ~ (k < key) PROVE Way(n, k) = 2
                OBVIOUS
            <4>1. /\ 2 \in 1 .. Len(n.keys) + 1 /\ (\A j \in 1 .. 2 - 1 : n.keys[j] <= k)
                  /\ ~ (2 <= Len(n.keys)) /\ k \in Nat /\ Formed(n)
                BY <1>6, <3>1 DEF n
            <4>. QED
                BY <4>1, WayIs
        <3>4. (k \in R[left] <=> k < key) /\ (k \in R[right] <=> ~ (k < key))
            BY <1>6, <1>8
        <3>5. Q[left] = R[left] /\ Q[right] = R[right]
            BY <1>3
        <3>6. i \in {1, 2} /\ S[q].ptrs[i] = n.ptrs[i] /\ k \in Q[q]
            BY <2>1, <3>1 DEF n
        <3>7. CASE i = 1
            BY <2>1, <3>1, <3>2, <3>3, <3>4, <3>5, <3>6, <3>7 DEF n
        <3>8. CASE i = 2
            BY <2>1, <3>1, <3>2, <3>3, <3>4, <3>5, <3>6, <3>8 DEF n
        <3>. QED
            BY <3>6, <3>7, <3>8
    <2>2. CASE q # np
        <3>1. q \in 1 .. np - 1 /\ ~ T[q].leaf /\ S[q].ptrs = T[q].ptrs /\ Q[q] = R[q] /\ S[q].keys = T[q].keys
            BY <1>0, <1>4, <2>2
        <3>. DEFINE c == T[q].ptrs[i]
        <3>2. c \in 1 .. np - 1 /\ T[c].parent = q
            BY <3>1 DEF Shape, ChildrenInv
        <3>3. k \in Whole(R, up, c) <=> k \in R[q] /\ Way(T[q], k) = i
            BY <3>1 DEF Routes, ChildRoutes
        <3>. HIDE DEF c
        <3>4. c # left
            BY <1>1, <1>3, <3>2
        <3>5. Whole(R, up, c) = R[c] /\ Q[c] = R[c]
            BY <3>2, <3>4 DEF Whole
        <3>6. Way(S[q], k) = Way(T[q], k)
            BY <3>1, WayOfKeys
        <3>. QED
            BY <3>1, <3>3, <3>5, <3>6 DEF c
    <2>. QED
        BY <2>1, <2>2
<1>13. LeafRoutes(S, Q, np + 1, es)
    <2>. SUFFICES ASSUME NEW q \in 1 .. np, S[q].leaf, NEW k \in Q[q], es[k] # NoValue
                  PROVE  Has(S[q], k)
        BY <1>0 DEF LeafRoutes
    <2>1. q \in 1 .. np - 1 /\ S[q].keys = T[q].keys /\ T[q].leaf /\ k \in R[q]
        BY <1>0, <1>4, <1>5
    <2>2. Has(T[q], k)
        BY <2>1 DEF Routes, LeafRoutes
    <2>. QED
        BY <2>1, <2>2 DEF Has
<1>14. Apart(lv, Q, np + 1)
    <2>. SUFFICES ASSUME NEW q \in 1 .. np, NEW r \in 1 .. np, lv[r] = lv[q], r # q
                  PROVE  Q[q] \cap Q[r] = {}
        BY <1>0 DEF Apart
    <2>0. lv[np] \in Nat
        BY <1>3, <1>9
    <2>1. q # np /\ r # np
        BY <1>0, <1>9, <2>0
    <2>2. q \in 1 .. np - 1 /\ r \in 1 .. np - 1
        BY <1>0, <2>1
    <2>. QED
        BY <2>2 DEF Routes, Apart
<1>15. NextRoutes(S, Q, np + 1)
    <2>1. \A q \in 1 .. np - 1 :
              (S[q].leaf <=> T[q].leaf) /\ (T[q].leaf => S[q].next = T[q].next /\ Q[q] = R[q])
        BY DEF Crowned
    <2>2. \A q \in 1 .. (np + 1) - 1 : S[q].leaf => q \in 1 .. np - 1
        BY <1>0, <1>5
    <2>3. NextRoutes(T, R, np) /\ np + 1 \in Nat /\ np <= np + 1
        BY <1>0 DEF Routes
    <2>. QED
        BY <1>0, <2>1, <2>2, <2>3, NextKept
<1>. QED
    BY <1>10, <1>11, <1>12, <1>13, <1>14, <1>15 DEF Routes, CutRoutes

-----------------------------------------------------------------------------
(* The halves of a node.                                                   *)

\* m is a part of n: the keys a .. b, the pointers a .. d.
CutOut(n, a, b, d, m) ==
    /\ a \in Nat /\ b \in Nat /\ 1 <= a /\ a <= b /\ b <= Len(n.keys)
    /\ d = b + (IF n.leaf THEN 0 ELSE 1)
    /\ \E x \in PageId \cup {NoPage} :
          m \in [leaf : {n.leaf}, keys : {SubSeq(n.keys, a, b)}, ptrs : {SubSeq(n.ptrs, a, d)},
                 parent : {n.parent}, next : {x}]

\* What is known of such a node.
Part(n, a, b, d, m) ==
    /\ Formed(m) /\ m.leaf = n.leaf /\ m.parent = n.parent
    /\ DOMAIN m.keys = 1 .. b - a + 1 /\ Len(m.keys) = b - a + 1 /\ m.keys # <<>>
    /\ \A i \in 1 .. b - a + 1 : a + i - 1 \in DOMAIN n.keys /\ m.keys[i] = n.keys[a + i - 1]
    /\ DOMAIN m.ptrs = 1 .. d - a + 1 /\ Len(m.ptrs) = d - a + 1
    /\ \A i \in 1 .. d - a + 1 : m.ptrs[i] = n.ptrs[a + i - 1]
    /\ Sorted(n) => Sorted(m)
    /\ \A es : Honest(n, es) => Honest(m, es)

\* A cut of a node is a part of it.
LEMMA PartFacts ==
    ASSUME NEW n, Formed(n), NEW a, NEW b, NEW d, NEW m, CutOut(n, a, b, d, m)
    PROVE  Part(n, a, b, d, m)
<1>0. /\ a \in Nat /\ b \in Nat /\ 1 <= a /\ a <= b /\ b <= Len(n.keys)
      /\ d = b + (IF n.leaf THEN 0 ELSE 1)
    BY DEF CutOut
<1>. DEFINE ks == SubSeq(n.keys, a, b)
            ps == SubSeq(n.ptrs, a, d)
            l == Len(n.keys)
<1>1. /\ n.leaf \in BOOLEAN /\ n.keys \in Seq(Key) /\ n.ptrs \in Seq(PageId \cup HeapPages)
      /\ n.parent \in PageId \cup {NoPage} /\ l \in Nat /\ DOMAIN n.keys = 1 .. l
      /\ (~ n.leaf => n.ptrs \in Seq(PageId))
    BY NodeFacts DEF Formed
<1>2. Len(n.ptrs) = l + (IF n.leaf THEN 0 ELSE 1)
    BY DEF Formed
<1>3. d \in Nat /\ d <= Len(n.ptrs) /\ a <= d + 1 /\ a <= b + 1 /\ d - a + 1 = b - a + (IF n.leaf THEN 1 ELSE 2)
    <2>1. CASE n.leaf
        BY <1>0, <1>1, <1>2, <2>1
    <2>2. CASE ~ n.leaf
        BY <1>0, <1>1, <1>2, <2>2
    <2>. QED
        BY <2>1, <2>2
<1>4. ks \in Seq(Key) /\ Len(ks) = b - a + 1 /\ \A i \in 1 .. b - a + 1 : ks[i] = n.keys[a + i - 1]
    <2>1. \A s \in Seq(Key) : b <= Len(s) =>
             /\ SubSeq(s, a, b) \in Seq(Key) /\ Len(SubSeq(s, a, b)) = b - a + 1
             /\ \A i \in 1 .. b - a + 1 : SubSeq(s, a, b)[i] = s[a + i - 1]
        BY <1>0, <1>3, SubSeqFacts
    <2>. QED
        BY <1>0, <1>1, <2>1, Zenon
<1>5. /\ ps \in Seq(PageId \cup HeapPages) /\ Len(ps) = d - a + 1 /\ \A i \in 1 .. d - a + 1 : ps[i] = n.ptrs[a + i - 1]
    <2>1. \A s \in Seq(PageId \cup HeapPages) : d <= Len(s) =>
             /\ SubSeq(s, a, d) \in Seq(PageId \cup HeapPages) /\ Len(SubSeq(s, a, d)) = d - a + 1
             /\ \A i \in 1 .. d - a + 1 : SubSeq(s, a, d)[i] = s[a + i - 1]
        BY <1>0, <1>3, SubSeqFacts
    <2>. QED
        BY <1>1, <1>3, <2>1, Zenon
<1>6. ~ n.leaf => ps \in Seq(PageId)
    <2>1. \A s \in Seq(PageId) : d <= Len(s) => SubSeq(s, a, d) \in Seq(PageId)
        BY <1>0, <1>3, SubSeqFacts
    <2>. QED
        BY <1>1, <1>3, <2>1, Zenon
<1>. HIDE DEF ks, ps, l
<1>7. PICK x \in PageId \cup {NoPage} :
          m \in [leaf : {n.leaf}, keys : {ks}, ptrs : {ps}, parent : {n.parent}, next : {x}]
    BY DEF CutOut, ks, ps
<1>8. m.leaf = n.leaf /\ m.keys = ks /\ m.ptrs = ps /\ m.parent = n.parent
    BY <1>7
<1>9. m \in Node
    BY <1>1, <1>4, <1>5, <1>7 DEF Node
<1>10. Formed(m)
    <2>1. Len(ps) = Len(ks) + (IF n.leaf THEN 0 ELSE 1)
        <3>1. CASE n.leaf
            BY <1>0, <1>3, <1>4, <1>5, <3>1
        <3>2. CASE ~ n.leaf
            BY <1>0, <1>3, <1>4, <1>5, <3>2
        <3>. QED
            BY <3>1, <3>2
    <2>. QED
        BY <1>6, <1>8, <1>9, <2>1, Zenon DEF Formed
<1>11. DOMAIN ks = 1 .. b - a + 1 /\ DOMAIN ps = 1 .. d - a + 1 /\ ks # <<>>
    BY <1>0, <1>3, <1>4, <1>5, LenProperties, EmptySeq
<1>12. \A i \in 1 .. b - a + 1 : a + i - 1 \in 1 .. l
    BY <1>0, <1>1 DEF l
<1>13. Sorted(n) => Sorted(m)
    <2>. SUFFICES ASSUME Sorted(n), NEW i \in 1 .. b - a + 1, NEW j \in 1 .. b - a + 1, i < j PROVE ks[i] < ks[j]
        BY <1>8, <1>11 DEF Sorted
    <2>1. a + i - 1 \in 1 .. l /\ a + j - 1 \in 1 .. l /\ a + i - 1 < a + j - 1
        <3>1. a + i - 1 < a + j - 1
            BY <1>0
        <3>. QED
            BY <1>12, <3>1
    <2>2. n.keys[a + i - 1] < n.keys[a + j - 1]
        BY <1>1, <2>1 DEF Sorted
    <2>. QED
        BY <1>4, <2>2
<1>14. ASSUME NEW es, Honest(n, es) PROVE Honest(m, es)
    <2>. SUFFICES ASSUME n.leaf
                  PROVE  Sorted(m) /\ \A i \in 1 .. b - a + 1 : ps[i] \in HeapPages /\ ps[i] = es[ks[i]]
        BY <1>8, <1>11 DEF Honest
    <2>1. Sorted(n) /\ \A i \in 1 .. l : n.ptrs[i] \in HeapPages /\ n.ptrs[i] = es[n.keys[i]]
        BY <1>1, <1>14 DEF Honest
    <2>2. ASSUME NEW i \in 1 .. b - a + 1 PROVE ps[i] \in HeapPages /\ ps[i] = es[ks[i]]
        <3>1. a + i - 1 \in 1 .. l /\ ks[i] = n.keys[a + i - 1]
            BY <1>4, <1>12
        <3>2. i \in 1 .. d - a + 1
            BY <1>0, <1>3
        <3>3. ps[i] = n.ptrs[a + i - 1]
            BY <1>5, <3>2
        <3>. QED
            BY <2>1, <3>1, <3>3
    <2>. QED
        BY <1>13, <2>1, <2>2
<1>. QED
    BY <1>1, <1>4, <1>5, <1>8, <1>10, <1>11, <1>12, <1>13, <1>14 DEF l, Part

\* The halves that splitLeaf makes.
LeafMid(n) == Len(n.keys) \div 2
LowLeaf(n, np) == [n EXCEPT !.keys = SubSeq(@, 1, LeafMid(n)), !.ptrs = SubSeq(@, 1, LeafMid(n)),
                            !.next = np]
HighLeaf(n) == [n EXCEPT !.keys = SubSeq(@, LeafMid(n) + 1, Len(@)),
                         !.ptrs = SubSeq(@, LeafMid(n) + 1, Len(@))]

\* Neither half is empty.
LEMMA HalfOf == ASSUME NEW l \in Nat, l >= 2 PROVE l \div 2 \in 1 .. l - 1 /\ l \div 2 \in Nat
OBVIOUS

\* The left half of a leaf.
LEMMA LowLeafFacts ==
    ASSUME NEW n, Formed(n), n.leaf, NEW mid \in 1 .. Len(n.keys), mid = LeafMid(n), NEW np \in PageId
    PROVE  Part(n, 1, mid, mid, LowLeaf(n, np))
<1>1. n \in Node /\ Len(n.keys) \in Nat
    BY NodeFacts DEF Formed
<1>2. LowLeaf(n, np) \in [leaf : {n.leaf}, keys : {SubSeq(n.keys, 1, mid)}, ptrs : {SubSeq(n.ptrs, 1, mid)},
                          parent : {n.parent}, next : {np}]
    BY <1>1 DEF LowLeaf, Node
<1>3. /\ mid = mid + (IF n.leaf THEN 0 ELSE 1) /\ mid \in Nat /\ 1 <= mid /\ mid <= Len(n.keys)
      /\ 1 \in Nat /\ 1 <= 1 /\ np \in PageId \cup {NoPage}
    BY <1>1
<1>4. CutOut(n, 1, mid, mid, LowLeaf(n, np))
    BY <1>2, <1>3, Zenon DEF CutOut
<1>. QED
    BY <1>4, PartFacts

\* The right half of a leaf.
LEMMA HighLeafFacts ==
    ASSUME NEW n, Formed(n), n.leaf, NEW mid \in 1 .. Len(n.keys) - 1, mid = LeafMid(n)
    PROVE  Part(n, mid + 1, Len(n.keys), Len(n.keys), HighLeaf(n))
<1>. DEFINE l == Len(n.keys)
<1>1. n \in Node /\ l \in Nat /\ Len(n.ptrs) = l
    BY NodeFacts DEF Formed
<1>2. /\ n.next \in PageId \cup {NoPage}
      /\ HighLeaf(n) \in [leaf : {n.leaf}, keys : {SubSeq(n.keys, mid + 1, l)},
                          ptrs : {SubSeq(n.ptrs, mid + 1, l)}, parent : {n.parent}, next : {n.next}]
    BY <1>1 DEF HighLeaf, Node
<1>3. l = l + (IF n.leaf THEN 0 ELSE 1) /\ mid + 1 \in Nat /\ 1 <= mid + 1 /\ mid + 1 <= l /\ l <= l
    BY <1>1
<1>4. CutOut(n, mid + 1, l, l, HighLeaf(n))
    BY <1>1, <1>2, <1>3 DEF CutOut
<1>. QED
    BY <1>4, PartFacts

\* splitLeaf splits, and divides the keys.
LEMMA LeafSplit ==
    ASSUME NEW np \in 1 .. MaxPages - 1, NEW T, NEW S, NEW p \in 1 .. np - 1,
           Formed(T[p]), T[p].leaf, Sorted(T[p]), Len(T[p].keys) >= 2,
           S[p] = LowLeaf(T[p], np), S[np] = HighLeaf(T[p]), \A q \in 1 .. np - 1 : q # p => S[q] = T[q]
    PROVE  LET mid == LeafMid(T[p]) IN
           /\ mid \in Nat /\ Split(T, S, np, p, mid)
           /\ S[np].keys[1] \in Key /\ Divided(T, S, np, p, mid, S[np].keys[1])
           /\ Formed(S[p]) /\ Formed(S[np])
           /\ Len(S[p].keys) = mid /\ Len(S[np].keys) = Len(T[p].keys) - mid
           /\ \A es : Honest(T[p], es) => Honest(S[p], es) /\ Honest(S[np], es)
<1>. DEFINE n == T[p]
            low == S[p]
            high == S[np]
            mid == LeafMid(n)
            l == Len(n.keys)
            key == high.keys[1]
<1>1. /\ Formed(n) /\ n.leaf /\ Sorted(n) /\ l = Len(n.keys) /\ l >= 2
      /\ low = LowLeaf(n, np) /\ high = HighLeaf(n) /\ mid = LeafMid(n) /\ key = high.keys[1]
    OBVIOUS
<1>2. np \in PageId
    BY BTreeAssumption DEF PageId
<1>. HIDE DEF n, low, high, mid, l, key
<1>3. /\ l \in Nat /\ DOMAIN n.keys = 1 .. l /\ \A i \in 1 .. l : n.keys[i] \in Key /\ n.keys[i] \in Nat
      /\ mid \in 1 .. l - 1 /\ mid \in 1 .. l /\ mid \in Nat
    <2>1. /\ Len(n.keys) \in Nat /\ DOMAIN n.keys = 1 .. Len(n.keys)
          /\ \A i \in 1 .. Len(n.keys) : n.keys[i] \in Key /\ n.keys[i] \in Nat
        BY <1>1, NodeFacts
    <2>2. mid \in 1 .. l - 1 /\ mid \in Nat
        BY <1>1, <2>1, HalfOf DEF LeafMid
    <2>. QED
        BY <1>1, <2>1, <2>2
<1>4. /\ Formed(low) /\ low.leaf = n.leaf /\ low.parent = n.parent
      /\ DOMAIN low.keys = 1 .. mid /\ Len(low.keys) = mid /\ low.keys # <<>>
      /\ \A i \in 1 .. mid : i \in DOMAIN n.keys /\ low.keys[i] = n.keys[i]
      /\ Sorted(n) => Sorted(low)
      /\ \A es : Honest(n, es) => Honest(low, es)
    <2>1. Part(n, 1, mid, mid, low)
        BY <1>1, <1>2, <1>3, LowLeafFacts
    <2>2. mid - 1 + 1 = mid /\ \A i \in 1 .. mid : 1 + i - 1 = i
        BY <1>3
    <2>. QED
        BY <2>1, <2>2 DEF Part
<1>5. /\ Formed(high) /\ high.leaf = n.leaf /\ high.parent = n.parent
      /\ DOMAIN high.keys = 1 .. l - mid /\ Len(high.keys) = l - mid /\ high.keys # <<>>
      /\ \A i \in 1 .. l - mid : mid + i \in DOMAIN n.keys /\ high.keys[i] = n.keys[mid + i]
      /\ Sorted(n) => Sorted(high)
      /\ \A es : Honest(n, es) => Honest(high, es)
    <2>1. Part(n, mid + 1, l, l, high)
        BY <1>1, <1>3, HighLeafFacts
    <2>2. l - (mid + 1) + 1 = l - mid /\ \A i \in 1 .. l - mid : (mid + 1) + i - 1 = mid + i
        BY <1>3
    <2>. QED
        BY <2>1, <2>2 DEF Part
<1>6. key \in Key /\ key = n.keys[mid + 1] /\ mid + 1 \in 1 .. l
    <2>1. 1 \in 1 .. l - mid /\ mid + 1 \in 1 .. l
        BY <1>3
    <2>. QED
        BY <1>1, <1>3, <1>5, <2>1
<1>7. \A i, j \in 1 .. l : i < j => n.keys[i] < n.keys[j]
    BY <1>1, <1>3 DEF Sorted
<1>8. Split(T, S, np, p, mid)
    <2>1. low.next = np /\ high.next = n.next
        BY <1>1, <1>2 DEF Formed, Node, LowLeaf, HighLeaf
    <2>. QED
        BY <1>1, <1>4, <1>5, <2>1 DEF Split, n, low, high
<1>9. ASSUME NEW i \in 1 .. mid PROVE low.keys[i] < key /\ \E j \in DOMAIN n.keys : low.keys[i] = n.keys[j]
    <2>1. i \in 1 .. l /\ mid + 1 \in 1 .. l /\ i < mid + 1
        BY <1>3
    <2>2. n.keys[i] < n.keys[mid + 1]
        BY <1>7, <2>1
    <2>. QED
        BY <1>4, <1>6, <2>2
<1>10. ASSUME NEW i \in 1 .. l - mid
       PROVE  high.keys[i] >= key /\ \E j \in DOMAIN n.keys : high.keys[i] = n.keys[j]
    <2>1. mid + i \in 1 .. l /\ mid + 1 \in 1 .. l /\ (i = 1 \/ mid + 1 < mid + i)
        BY <1>3
    <2>2. i = 1 \/ n.keys[mid + 1] < n.keys[mid + i]
        BY <1>7, <2>1
    <2>3. n.keys[mid + 1] \in Nat /\ n.keys[mid + i] \in Nat
        BY <1>3, <2>1
    <2>. QED
        BY <1>5, <1>6, <2>2, <2>3
<1>11. ASSUME NEW k \in Key, Has(n, k) PROVE IF k < key THEN Has(low, k) ELSE Has(high, k)
    <2>1. PICK i \in 1 .. l : n.keys[i] = k
        BY <1>3, <1>11 DEF Has
    <2>2. CASE i <= mid
        <3>1. i \in 1 .. mid /\ i \in DOMAIN low.keys
            BY <1>3, <1>4, <2>1, <2>2
        <3>2. low.keys[i] = k /\ k < key
            BY <1>4, <1>9, <2>1, <3>1
        <3>. QED
            BY <3>1, <3>2 DEF Has
    <2>3. CASE i > mid
        <3>1. i - mid \in 1 .. l - mid /\ i - mid \in DOMAIN high.keys /\ mid + (i - mid) = i
            BY <1>3, <1>5, <2>1, <2>3
        <3>2. high.keys[i - mid] = k
            BY <1>5, <2>1, <3>1
        <3>3. k >= key /\ k \in Nat /\ key \in Nat
            BY <1>3, <1>6, <1>10, <2>1, <3>1, <3>2
        <3>4. Has(high, k)
            BY <3>1, <3>2 DEF Has
        <3>. QED
            BY <3>3, <3>4
    <2>. QED
        BY <1>3, <2>2, <2>3
<1>12. Divided(T, S, np, p, mid, key)
    <2>1. \E i \in DOMAIN n.keys : n.keys[i] = key
        BY <1>3, <1>6
    <2>2. Sorted(low) /\ Sorted(high)
        BY <1>1, <1>4, <1>5
    <2>3. \E i \in DOMAIN n.keys : n.keys[i] < key
        BY <1>3, <1>4, <1>9
    <2>. QED
        BY <1>1, <1>4, <1>5, <1>9, <1>10, <1>11, <2>1, <2>2, <2>3 DEF Divided, n, low, high
<1>. QED
    BY <1>3, <1>4, <1>5, <1>6, <1>8, <1>12 DEF n, low, high, mid, l, key

\* The halves that splitInternal makes.
InnerMid(n) == 1 + Len(n.keys) \div 2
LowInner(n) == [n EXCEPT !.keys = SubSeq(@, 1, InnerMid(n) - 1), !.ptrs = SubSeq(@, 1, InnerMid(n))]
HighInner(n) == [n EXCEPT !.keys = SubSeq(@, InnerMid(n) + 1, Len(@)),
                          !.ptrs = SubSeq(@, InnerMid(n) + 1, Len(@)), !.next = NoPage]

\* Neither half is empty.
LEMMA InnerHalfOf == ASSUME NEW l \in Nat, l >= 3 PROVE 1 + l \div 2 \in 2 .. l - 1
OBVIOUS

\* The left half of an internal node.
LEMMA LowInnerFacts ==
    ASSUME NEW n, Formed(n), ~ n.leaf, NEW mid \in 2 .. Len(n.keys), mid = InnerMid(n)
    PROVE  Part(n, 1, mid - 1, mid, LowInner(n))
<1>1. n \in Node /\ Len(n.keys) \in Nat /\ n.next \in PageId \cup {NoPage}
    BY NodeFacts DEF Formed, Node
<1>2. LowInner(n) \in [leaf : {n.leaf}, keys : {SubSeq(n.keys, 1, mid - 1)}, ptrs : {SubSeq(n.ptrs, 1, mid)},
                       parent : {n.parent}, next : {n.next}]
    BY <1>1 DEF LowInner, Node
<1>3. /\ mid = (mid - 1) + (IF n.leaf THEN 0 ELSE 1) /\ mid - 1 \in Nat /\ 1 <= mid - 1 /\ mid - 1 <= Len(n.keys)
      /\ 1 \in Nat /\ 1 <= 1
    BY <1>1
<1>4. CutOut(n, 1, mid - 1, mid, LowInner(n))
    BY <1>1, <1>2, <1>3, Zenon DEF CutOut
<1>. QED
    BY <1>4, PartFacts

\* The right half of an internal node.
LEMMA HighInnerFacts ==
    ASSUME NEW n, Formed(n), ~ n.leaf, NEW mid \in 2 .. Len(n.keys) - 1, mid = InnerMid(n)
    PROVE  Part(n, mid + 1, Len(n.keys), Len(n.keys) + 1, HighInner(n))
<1>. DEFINE l == Len(n.keys)
<1>1. n \in Node /\ l \in Nat /\ Len(n.ptrs) = l + 1
    BY NodeFacts DEF Formed
<1>2. HighInner(n) \in [leaf : {n.leaf}, keys : {SubSeq(n.keys, mid + 1, l)},
                        ptrs : {SubSeq(n.ptrs, mid + 1, l + 1)}, parent : {n.parent}, next : {NoPage}]
    BY <1>1 DEF HighInner, Node
<1>3. /\ l + 1 = l + (IF n.leaf THEN 0 ELSE 1) /\ mid + 1 \in Nat /\ 1 <= mid + 1 /\ mid + 1 <= l /\ l <= l
      /\ NoPage \in PageId \cup {NoPage}
    BY <1>1
<1>4. CutOut(n, mid + 1, l, l + 1, HighInner(n))
    BY <1>1, <1>2, <1>3, Zenon DEF CutOut
<1>. QED
    BY <1>4, PartFacts

\* splitInternal splits, and divides the keys if they were sorted.
LEMMA InnerSplit ==
    ASSUME NEW np \in 1 .. MaxPages - 1, NEW T, NEW S, NEW p \in 1 .. np - 1,
           Formed(T[p]), ~ T[p].leaf, Len(T[p].keys) >= 3,
           S[p] = LowInner(T[p]), S[np] = HighInner(T[p]), NEW key, key = T[p].keys[InnerMid(T[p])],
           \A q \in 1 .. np - 1 : q # p =>
               /\ S[q].leaf = T[q].leaf /\ S[q].keys = T[q].keys /\ S[q].ptrs = T[q].ptrs
               /\ S[q].parent = IF ~ T[p].leaf /\ IsChild(S, q, np) THEN np ELSE T[q].parent
               /\ S[q].next = T[q].next
    PROVE  LET mid == InnerMid(T[p]) IN
           /\ mid \in Nat /\ Split(T, S, np, p, mid)
           /\ key \in Key /\ (Sorted(T[p]) => Divided(T, S, np, p, mid, key))
           /\ Formed(S[p]) /\ Formed(S[np])
           /\ Len(S[p].keys) = mid - 1 /\ Len(S[np].keys) = Len(T[p].keys) - mid
<1>. DEFINE n == T[p]
            low == S[p]
            high == S[np]
            mid == InnerMid(n)
            l == Len(n.keys)
<1>1. /\ Formed(n) /\ ~ n.leaf /\ l = Len(n.keys) /\ l >= 3
      /\ low = LowInner(n) /\ high = HighInner(n) /\ mid = InnerMid(n) /\ key = n.keys[mid]
    OBVIOUS
<1>. HIDE DEF n, low, high, mid, l
<1>2. /\ l \in Nat /\ DOMAIN n.keys = 1 .. l /\ \A i \in 1 .. l : n.keys[i] \in Key /\ n.keys[i] \in Nat
      /\ mid \in 2 .. l - 1 /\ mid \in 2 .. l /\ mid \in Nat /\ mid \in 1 .. l
      /\ Len(n.ptrs) = l + 1 /\ DOMAIN n.ptrs = 1 .. l + 1
    <2>1. /\ Len(n.keys) \in Nat /\ DOMAIN n.keys = 1 .. Len(n.keys)
          /\ \A i \in 1 .. Len(n.keys) : n.keys[i] \in Key /\ n.keys[i] \in Nat
          /\ Len(n.ptrs) = l + 1 /\ DOMAIN n.ptrs = 1 .. l + 1
        BY <1>1, NodeFacts
    <2>2. mid \in 2 .. l - 1
        BY <1>1, <2>1, InnerHalfOf DEF InnerMid
    <2>. QED
        BY <1>1, <2>1, <2>2
<1>3. /\ Formed(low) /\ low.leaf = n.leaf /\ low.parent = n.parent
      /\ DOMAIN low.keys = 1 .. mid - 1 /\ Len(low.keys) = mid - 1 /\ low.keys # <<>>
      /\ \A i \in 1 .. mid - 1 : i \in DOMAIN n.keys /\ low.keys[i] = n.keys[i]
      /\ DOMAIN low.ptrs = 1 .. mid /\ \A i \in 1 .. mid : low.ptrs[i] = n.ptrs[i]
      /\ Sorted(n) => Sorted(low)
    <2>1. Part(n, 1, mid - 1, mid, low)
        BY <1>1, <1>2, LowInnerFacts
    <2>2. (mid - 1) - 1 + 1 = mid - 1 /\ mid - 1 + 1 = mid /\ \A i \in 1 .. mid : 1 + i - 1 = i
        BY <1>2
    <2>3. \A i \in 1 .. mid - 1 : i \in 1 .. mid
        BY <1>2
    <2>. QED
        BY <1>1, <2>1, <2>2, <2>3 DEF Part
<1>4. /\ Formed(high) /\ high.leaf = n.leaf /\ high.parent = n.parent
      /\ DOMAIN high.keys = 1 .. l - mid /\ Len(high.keys) = l - mid /\ high.keys # <<>>
      /\ \A i \in 1 .. l - mid : mid + i \in DOMAIN n.keys /\ high.keys[i] = n.keys[mid + i]
      /\ DOMAIN high.ptrs = 1 .. Len(n.ptrs) - mid /\ \A i \in 1 .. Len(n.ptrs) - mid : high.ptrs[i] = n.ptrs[mid + i]
      /\ Sorted(n) => Sorted(high)
    <2>1. Part(n, mid + 1, l, l + 1, high)
        BY <1>1, <1>2, HighInnerFacts
    <2>2. l - (mid + 1) + 1 = l - mid /\ (l + 1) - (mid + 1) + 1 = Len(n.ptrs) - mid
        BY <1>2
    <2>3. /\ \A i \in 1 .. l - mid : (mid + 1) + i - 1 = mid + i
          /\ \A i \in 1 .. Len(n.ptrs) - mid : (mid + 1) + i - 1 = mid + i
        BY <1>2
    <2>4. /\ Formed(high) /\ high.leaf = n.leaf /\ high.parent = n.parent /\ (Sorted(n) => Sorted(high))
          /\ DOMAIN high.keys = 1 .. l - mid /\ Len(high.keys) = l - mid /\ high.keys # <<>>
          /\ DOMAIN high.ptrs = 1 .. Len(n.ptrs) - mid
        BY <1>1, <2>1, <2>2 DEF Part
    <2>5. \A i \in 1 .. l - mid : mid + i \in DOMAIN n.keys /\ high.keys[i] = n.keys[mid + i]
        BY <2>1, <2>2, <2>3 DEF Part
    <2>6. \A i \in 1 .. Len(n.ptrs) - mid : high.ptrs[i] = n.ptrs[mid + i]
        BY <2>1, <2>2, <2>3 DEF Part
    <2>. QED
        BY <2>4, <2>5, <2>6
<1>5. key \in Key /\ key \in Nat
    BY <1>1, <1>2
<1>6. Sorted(n) => \A i, j \in 1 .. l : i < j => n.keys[i] < n.keys[j]
    BY <1>1, <1>2 DEF Sorted
<1>7. Split(T, S, np, p, mid)
    <2>1. mid \in DOMAIN n.ptrs
        BY <1>2
    <2>. QED
        BY <1>1, <1>3, <1>4, <2>1 DEF Split, n, low, high
<1>8. ASSUME Sorted(n), NEW i \in 1 .. mid - 1 PROVE low.keys[i] < key /\ \E j \in DOMAIN n.keys : low.keys[i] = n.keys[j]
    <2>1. i \in 1 .. l /\ i < mid
        BY <1>2
    <2>2. n.keys[i] < n.keys[mid]
        BY <1>2, <1>6, <1>8, <2>1
    <2>. QED
        BY <1>1, <1>3, <2>2
<1>9. ASSUME Sorted(n), NEW i \in 1 .. l - mid
      PROVE  high.keys[i] >= key /\ \E j \in DOMAIN n.keys : high.keys[i] = n.keys[j]
    <2>1. mid + i \in 1 .. l /\ mid < mid + i
        BY <1>2
    <2>2. n.keys[mid] < n.keys[mid + i] /\ n.keys[mid + i] \in Nat
        BY <1>2, <1>6, <1>9, <2>1
    <2>. QED
        BY <1>1, <1>4, <1>5, <2>2, SMTT(60)
<1>10. ASSUME Sorted(n), NEW k \in Key
       PROVE  IF k < key THEN Way(n, k) = Way(low, k) /\ Way(low, k) \in 1 .. mid
              ELSE Way(n, k) = mid + Way(high, k) /\ Way(high, k) \in Nat \ {0}
    <2>. DEFINE w == Way(n, k)
    <2>0. k \in Nat
        BY BTreeAssumption DEF Key
    <2>1. w \in 1 .. l + 1 /\ (\A j \in 1 .. w - 1 : n.keys[j] <= k) /\ (w <= l => n.keys[w] > k)
        BY <1>1, <2>0, WayFacts
    <2>. HIDE DEF w
    <2>2. CASE k < key
        <3>1. ~ (w > mid)
            <4>. SUFFICES ASSUME w > mid PROVE FALSE
                OBVIOUS
            <4>1. mid \in 1 .. w - 1
                BY <1>2, <2>1
            <4>2. key <= k
                BY <1>1, <2>1, <4>1
            <4>. QED
                BY <1>5, <2>0, <2>2, <4>2
        <3>2. w \in 1 .. mid /\ w \in 1 .. Len(low.keys) + 1
            BY <1>2, <1>3, <2>1, <3>1
        <3>3. \A j \in 1 .. w - 1 : low.keys[j] <= k
            <4>. TAKE j \in 1 .. w - 1
            <4>1. j \in 1 .. mid - 1
                BY <1>2, <3>2
            <4>. QED
                BY <1>3, <2>1, <4>1
        <3>4. w <= Len(low.keys) => low.keys[w] > k
            <4>. SUFFICES ASSUME w <= Len(low.keys) PROVE low.keys[w] > k
                OBVIOUS
            <4>1. w \in 1 .. mid - 1 /\ w <= l
                BY <1>2, <1>3, <3>2
            <4>. QED
                BY <1>3, <2>1, <4>1
        <3>5. Way(low, k) = w
            BY <1>3, <2>0, <3>2, <3>3, <3>4, WayIs
        <3>. QED
            BY <2>2, <3>2, <3>5 DEF w
    <2>3. CASE ~ (k < key)
        <3>1. ~ (w <= mid)
            <4>. SUFFICES ASSUME w <= mid PROVE FALSE
                OBVIOUS
            <4>1. w \in 1 .. l /\ w <= l
                BY <1>2, <2>1
            <4>2. n.keys[w] > k /\ n.keys[w] \in Nat /\ (w = mid \/ n.keys[w] < key)
                BY <1>1, <1>2, <1>6, <1>10, <2>1, <4>1
            <4>. QED
                BY <1>1, <1>5, <2>0, <2>3, <4>2
        <3>. DEFINE z == w - mid
        <3>2. z \in Nat \ {0} /\ w = mid + z /\ z \in 1 .. Len(high.keys) + 1
            BY <1>2, <1>4, <2>1, <3>1
        <3>3. \A j \in 1 .. z - 1 : high.keys[j] <= k
            <4>. TAKE j \in 1 .. z - 1
            <4>1. j \in 1 .. l - mid /\ mid + j \in 1 .. w - 1
                BY <1>2, <1>4, <2>1, <3>2
            <4>. QED
                BY <1>4, <2>1, <4>1
        <3>4. z <= Len(high.keys) => high.keys[z] > k
            <4>. SUFFICES ASSUME z <= Len(high.keys) PROVE high.keys[z] > k
                OBVIOUS
            <4>1. z \in 1 .. l - mid /\ mid + z <= l /\ mid + z = w
                BY <1>2, <1>4, <2>1, <3>2
            <4>. QED
                BY <1>4, <2>1, <4>1
        <3>. HIDE DEF z
        <3>5. Way(high, k) = z
            BY <1>4, <2>0, <3>2, <3>3, <3>4, WayIs
        <3>. QED
            BY <2>3, <3>2, <3>5 DEF w
    <2>. QED
        BY <2>2, <2>3
<1>11. ASSUME Sorted(n) PROVE Divided(T, S, np, p, mid, key)
    <2>1. \E i \in DOMAIN n.keys : n.keys[i] = key
        BY <1>1, <1>2
    <2>. QED
        BY <1>1, <1>3, <1>4, <1>8, <1>9, <1>10, <1>11, <2>1 DEF Divided, n, low, high
<1>. QED
    BY <1>1, <1>2, <1>3, <1>4, <1>5, <1>7, <1>11 DEF n, low, high, mid, l

-----------------------------------------------------------------------------
(* The pages T after the writes Q to pages P: the last write to a page     *)
(* counts.                                                                 *)

\* T is what the writes Q make of the pages P.
Becomes(P, Q, T) ==
    /\ T \in [PageId -> Node]
    /\ \A p \in PageId :
          \/ T[p] = P[p] /\ \A i \in DOMAIN Q : Q[i].id # p
          \/ \E i \in DOMAIN Q : /\ Q[i].id = p /\ Q[i].node = T[p]
                                 /\ \A j \in DOMAIN Q : j > i => Q[j].id # p

\* No writes change nothing.
LEMMA BecomesNone ==
    ASSUME NEW P \in [PageId -> Node], NEW T
    PROVE  Becomes(P, <<>>, T) <=> T = P
BY DEF Becomes

\* More writes at the end.
LEMMA BecomesMore ==
    ASSUME NEW X, NEW P, NEW Q \in Seq(X), NEW W \in Seq(X), NEW T, Becomes(P, Q, T),
           NEW S \in [PageId -> Node], \A i \in DOMAIN W : S[W[i].id] = W[i].node,
           \A p \in PageId : (\A i \in DOMAIN W : W[i].id # p) => S[p] = T[p]
    PROVE  Becomes(P, Q \o W, S)
<1>. DEFINE a == Len(Q)
            b == Len(W)
            Z == Q \o W
<1>1. a \in Nat /\ b \in Nat /\ DOMAIN Q = 1 .. a /\ DOMAIN W = 1 .. b
    BY LenProperties
<1>2. Len(Z) = a + b /\ DOMAIN Z = 1 .. a + b /\ \A i \in 1 .. a + b : Z[i] = IF i <= a THEN Q[i] ELSE W[i - a]
    <2>1. Z \in Seq(X) /\ Len(Z) = a + b /\ \A i \in 1 .. a + b : Z[i] = IF i <= a THEN Q[i] ELSE W[i - a]
        BY ConcatProperties
    <2>. QED
        BY <2>1, LenProperties
<1>. HIDE DEF Z, a, b
<1>3. (\A i \in 1 .. a : i \in 1 .. a + b /\ Z[i] = Q[i]) /\ (\A i \in 1 .. b : a + i \in 1 .. a + b /\ Z[a + i] = W[i])
    <2>1. ASSUME NEW i \in 1 .. a PROVE i \in 1 .. a + b /\ Z[i] = Q[i]
        BY <1>1, <1>2
    <2>2. ASSUME NEW i \in 1 .. b PROVE a + i \in 1 .. a + b /\ Z[a + i] = W[i]
        <3>1. a + i \in 1 .. a + b /\ ~ (a + i <= a) /\ (a + i) - a = i
            BY <1>1
        <3>. QED
            BY <1>2, <3>1
    <2>. QED
        BY <2>1, <2>2
<1>4. \A j \in 1 .. a + b : j \in 1 .. a \/ (j - a \in 1 .. b /\ a + (j - a) = j)
    BY <1>1
<1>5. ASSUME NEW p \in PageId
      PROVE  \/ S[p] = P[p] /\ \A i \in DOMAIN Z : Z[i].id # p
             \/ \E i \in DOMAIN Z : /\ Z[i].id = p /\ Z[i].node = S[p]
                                    /\ \A j \in DOMAIN Z : j > i => Z[j].id # p
    <2>1. CASE \E i \in 1 .. b : W[i].id = p
        <3>. DEFINE I == {i \in 1 .. b : W[i].id = p}
        <3>1. PICK i \in I : \A j \in I : j <= i
            BY <1>1, <2>1, LargestOf
        <3>2. i \in 1 .. b /\ i \in DOMAIN W /\ W[i].id = p
            BY <1>1, <3>1
        <3>5. S[p] = W[i].node
            BY <3>2
        <3>6. a + i \in 1 .. a + b /\ Z[a + i].id = p /\ Z[a + i].node = S[p]
            BY <1>3, <3>2, <3>5
        <3>3. ASSUME NEW j \in 1 .. a + b, j > a + i PROVE Z[j].id # p
            <4>1. j - a \in 1 .. b /\ a + (j - a) = j /\ ~ (j - a <= i)
                BY <1>1, <1>4, <3>1, <3>3
            <4>2. W[j - a].id # p /\ Z[j] = W[j - a]
                BY <1>3, <3>1, <4>1
            <4>. QED
                BY <4>2
        <3>. QED
            BY <1>2, <3>6, <3>3
    <2>2. CASE \A i \in 1 .. b : W[i].id # p
        <3>1. S[p] = T[p]
            BY <1>1, <2>2
        <3>2. CASE T[p] = P[p] /\ \A i \in 1 .. a : Q[i].id # p
            <4>. SUFFICES ASSUME NEW j \in 1 .. a + b PROVE Z[j].id # p
                BY <1>2, <3>1, <3>2
            <4>. QED
                BY <1>3, <1>4, <2>2, <3>2
        <3>3. CASE \E i \in 1 .. a : /\ Q[i].id = p /\ Q[i].node = T[p]
                                     /\ \A j \in 1 .. a : j > i => Q[j].id # p
            <4>1. PICK i \in 1 .. a : /\ Q[i].id = p /\ Q[i].node = T[p]
                                      /\ \A j \in 1 .. a : j > i => Q[j].id # p
                BY <3>3
            <4>2. ASSUME NEW j \in 1 .. a + b, j > i PROVE Z[j].id # p
                BY <1>3, <1>4, <2>2, <4>1, <4>2
            <4>3. i \in 1 .. a + b /\ Z[i].id = p /\ Z[i].node = S[p]
                BY <1>3, <3>1, <4>1
            <4>. QED
                BY <1>2, <4>2, <4>3
        <3>. QED
            BY <1>1, <3>2, <3>3, SMTT(60) DEF Becomes
    <2>. QED
        BY <2>1, <2>2
<1>. QED
    BY <1>5 DEF Becomes, Z

\* The first write is made.
LEMMA BecomesWritten ==
    ASSUME NEW P \in [PageId -> Node], NEW Q \in Seq([id : PageId, node : Node]), Q # <<>>, NEW T,
           Becomes(P, Q, T)
    PROVE  Becomes([P EXCEPT ![Head(Q).id] = Head(Q).node], Tail(Q), T)
<1>. DEFINE P2 == [P EXCEPT ![Head(Q).id] = Head(Q).node]
            V == Tail(Q)
            a == Len(Q)
<1>1. a \in Nat \ {0} /\ DOMAIN Q = 1 .. a /\ Head(Q) = Q[1]
    BY LenProperties, EmptySeq, HeadTailProperties
<1>2. Len(V) = a - 1 /\ DOMAIN V = 1 .. a - 1 /\ \A i \in 1 .. a - 1 : V[i] = Q[i + 1]
    <2>1. V \in Seq([id : PageId, node : Node]) /\ Len(V) = a - 1 /\ \A i \in 1 .. a - 1 : V[i] = Q[i + 1]
        BY HeadTailProperties
    <2>. QED
        BY <2>1, LenProperties
<1>3. \A p \in PageId : P2[p] = IF p = Q[1].id THEN Q[1].node ELSE P[p]
    BY <1>1
<1>. HIDE DEF P2, V, a
<1>4. ASSUME NEW p \in PageId
      PROVE  \/ T[p] = P2[p] /\ \A i \in DOMAIN V : V[i].id # p
             \/ \E i \in DOMAIN V : /\ V[i].id = p /\ V[i].node = T[p]
                                    /\ \A j \in DOMAIN V : j > i => V[j].id # p
    <2>0. \A j \in 1 .. a - 1 : j + 1 \in 1 .. a /\ j + 1 > 1
        BY <1>1
    <2>1. CASE T[p] = P[p] /\ \A i \in 1 .. a : Q[i].id # p
        <3>1. 1 \in 1 .. a
            BY <1>1
        <3>. QED
            BY <1>2, <1>3, <2>0, <2>1, <3>1
    <2>2. ASSUME NEW i \in 1 .. a, Q[i].id = p, Q[i].node = T[p], \A j \in 1 .. a : j > i => Q[j].id # p
          PROVE  \/ T[p] = P2[p] /\ \A z \in DOMAIN V : V[z].id # p
                 \/ \E z \in DOMAIN V : /\ V[z].id = p /\ V[z].node = T[p]
                                        /\ \A j \in DOMAIN V : j > z => V[j].id # p
        <3>1. CASE i = 1
            BY <1>2, <1>3, <2>0, <2>2, <3>1
        <3>2. CASE i # 1
            <4>1. i - 1 \in 1 .. a - 1 /\ (i - 1) + 1 = i
                BY <1>1, <3>2
            <4>2. V[i - 1] = Q[i]
                BY <1>2, <4>1
            <4>3. ASSUME NEW j \in 1 .. a - 1, j > i - 1 PROVE V[j].id # p
                <5>1. j + 1 \in 1 .. a /\ j + 1 > i
                    BY <1>1, <4>3
                <5>. QED
                    BY <1>2, <2>2, <5>1
            <4>. QED
                BY <1>2, <2>2, <4>1, <4>2, <4>3
        <3>. QED
            BY <3>1, <3>2
    <2>3. \/ T[p] = P[p] /\ \A i \in 1 .. a : Q[i].id # p
          \/ \E i \in 1 .. a : Q[i].id = p /\ Q[i].node = T[p] /\ \A j \in 1 .. a : j > i => Q[j].id # p
        BY <1>1 DEF Becomes
    <2>. QED
        BY <2>1, <2>2, <2>3, ZenonT(60)
<1>. QED
    BY <1>4 DEF Becomes, P2, V

-----------------------------------------------------------------------------
(* The invariant.                                                          *)

\* The roots, and the types of the rest.
RootsInv ==
    /\ nextPage \in 2 .. MaxPages
    /\ rootID \in 1 .. nextPage - 1 /\ catRoot \in (1 .. nextPage - 1) \cup {NoPage}
    /\ climb \in Climb \cup {NoClimb}
    /\ failed \in BOOLEAN /\ (failed => Idle)
    /\ entries \in [Key -> HeapPages \cup {NoValue}]

\* The keys find their ways as long as the root is one.
Ways(T, level, np, up, root, es) ==
    T[root].parent = NoPage => \E R : Routes(T, level, R, np, up, root, es)

\* T is the tree that the writes of the queue make.  Its root can only be lost
\* once the catalog has one.
Tree(T, level) ==
    /\ Becomes(pages, queue, T) /\ Shape(T, level, nextPage, climb)
    /\ catRoot = NoPage => T[rootID].parent = NoPage
    /\ Ways(T, level, nextPage, climb, RootInUse, entries)

\* Until a write fails there is such a tree.
TreeInv == ~ failed => \E T, level : Tree(T, level)

\* The inductive invariant.
IInv == NodesInv /\ RootsInv /\ TreeInv

\* The writes that may be queued.
Good(es) == {w \in [id : PageId, node : Node] : Typed(w.node) /\ Honest(w.node, es)}

\* The root in use is an allocated page.
LEMMA RootsFacts ==
    ASSUME RootsInv
    PROVE  /\ nextPage \in 1 .. MaxPages /\ RootInUse \in 1 .. nextPage - 1
           /\ nextPage \in Nat /\ 1 .. nextPage - 1 \subseteq PageId /\ RootInUse \in PageId
<1>1. nextPage \in 1 .. MaxPages /\ nextPage \in Nat /\ 1 .. nextPage - 1 \subseteq PageId
    BY BTreeAssumption DEF RootsInv, PageId
<1>. QED
    BY <1>1 DEF RootsInv, RootInUse

\* A sequence of elements of a set.
LEMMA SeqOfSet ==
    ASSUME NEW X, NEW Y, NEW s \in Seq(X), \A i \in 1 .. Len(s) : s[i] \in Y
    PROVE  s \in Seq(Y)
BY SeqDef, LenProperties

\* The queue consists of good writes,
LEMMA QueueIsGood == ASSUME NodesInv PROVE queue \in Seq(Good(entries))
<1>1. \A i \in 1 .. Len(queue) : queue[i] \in Good(entries)
    BY LenProperties DEF NodesInv, Good
<1>. QED
    BY <1>1, SeqOfSet DEF NodesInv

\* and a queue of good writes satisfies NodesInv.
LEMMA GoodQueue ==
    ASSUME NEW es, NEW Q \in Seq(Good(es))
    PROVE  /\ Q \in Seq([id : PageId, node : Node])
           /\ \A i \in DOMAIN Q : Typed(Q[i].node) /\ Honest(Q[i].node, es)
<1>1. \A i \in 1 .. Len(Q) : Q[i] \in Good(es)
    BY ElementOfSeq
<1>2. \A i \in 1 .. Len(Q) : Q[i] \in [id : PageId, node : Node] /\ Typed(Q[i].node) /\ Honest(Q[i].node, es)
    BY <1>1 DEF Good
<1>3. Q \in Seq([id : PageId, node : Node])
    BY <1>2, SeqOfSet
<1>. QED
    BY <1>2, <1>3, LenProperties

\* The nodes of the tree are typed and honest.
LEMMA TreeNodes ==
    ASSUME NodesInv, NEW T, Becomes(pages, queue, T)
    PROVE  Forms(T) /\ \A p \in PageId : Typed(T[p]) /\ Honest(T[p], entries)
<1>1. ASSUME NEW p \in PageId PROVE Typed(T[p]) /\ Honest(T[p], entries)
    BY DEF Becomes, NodesInv
<1>. QED
    BY <1>1 DEF Becomes, Forms, Typed

\* Between insertions the tree is in the pages.
LEMMA IdleTree ==
    ASSUME NodesInv, Idle, NEW T, NEW level, Tree(T, level)
    PROVE  T = pages /\ Shape(pages, level, nextPage, NoClimb)
<1>1. T = pages
    BY BecomesNone DEF Tree, Idle, NodesInv
<1>. QED
    BY <1>1 DEF Tree, Idle

\* A leaf stays honest when a key gets a value that had none.
LEMMA HonestKept ==
    ASSUME NEW n, Formed(n), NEW es \in [Key -> HeapPages \cup {NoValue}], Honest(n, es),
           NEW k \in Key, es[k] = NoValue, NEW v
    PROVE  Honest(n, [es EXCEPT ![k] = v])
<1>1. CASE n.leaf
    <2>1. \A i \in DOMAIN n.keys : n.keys[i] \in Key /\ n.ptrs[i] \in HeapPages /\ n.ptrs[i] = es[n.keys[i]]
        BY <1>1, NodeFacts DEF Honest
    <2>2. \A i \in DOMAIN n.keys : n.keys[i] # k
        BY <2>1, BTreeAssumption
    <2>. QED
        BY <1>1, <2>1, <2>2 DEF Honest
<1>. QED
    BY <1>1 DEF Honest

\* A node with another parent.
LEMMA Reparented ==
    ASSUME NEW n, Formed(n), NEW q \in PageId, NEW m, m = [n EXCEPT !.parent = q]
    PROVE  /\ Formed(m) /\ m.leaf = n.leaf /\ m.keys = n.keys /\ m.ptrs = n.ptrs /\ m.parent = q
           /\ m.next = n.next
           /\ \A es : Honest(n, es) => Honest(m, es)
           /\ n.parent = q => m = n
<1>1. n \in Node
    BY DEF Formed
<1>2. m \in Node /\ m.leaf = n.leaf /\ m.keys = n.keys /\ m.ptrs = n.ptrs /\ m.parent = q /\ m.next = n.next
    BY <1>1 DEF Node
<1>3. Formed(m)
    BY <1>2 DEF Formed
<1>4. \A es : Honest(n, es) => Honest(m, es)
    BY <1>2 DEF Honest, Sorted
<1>5. n.parent = q => m = n
    BY <1>1 DEF Node
<1>. QED
    BY <1>2, <1>3, <1>4, <1>5

\* m is leaf p with the new key.
KeyIsPut(level, k, p, m, es) ==
    /\ p \in 1 .. nextPage - 1 /\ p \in PageId /\ pages[p].leaf /\ Formed(pages[p])
    /\ Formed(m) /\ m.leaf /\ m.parent = pages[p].parent
    /\ Len(m.keys) = Len(pages[p].keys) + 1 /\ Len(m.keys) <= Order + 1 /\ m.keys # <<>>
    /\ entries[k] = NoValue /\ Honest(m, es) /\ es \in [Key -> HeapPages \cup {NoValue}]
    /\ \A T : T[p] = m /\ (\A q \in 1 .. nextPage - 1 : q # p => T[q] = pages[q]) =>
              Shape(T, level, nextPage, NoClimb) /\ Ways(T, level, nextPage, NoClimb, RootInUse, es)

\* A key that is put where findLeaf leads to.
LEMMA InsertedKey ==
    ASSUME NodesInv, RootsInv, Idle, NEW level, Tree(pages, level), Shape(pages, level, nextPage, NoClimb),
           NEW k \in Key, NEW v \in HeapPages, Bounded(k),
           NEW p, p = FindLeaf(RootInUse, k), ~ Has(pages[p], k), NEW m, m = InLeaf(pages[p], k, v),
           NEW es, es = [entries EXCEPT ![k] = v]
    PROVE  KeyIsPut(level, k, p, m, es)
<1>1. nextPage \in 1 .. MaxPages /\ RootInUse \in 1 .. nextPage - 1 /\ 1 .. nextPage - 1 \subseteq PageId
    BY RootsFacts
<1>2. p \in 1 .. nextPage - 1 /\ p \in PageId /\ pages[p].leaf
    BY <1>1, LeafFound
<1>3. Formed(pages[p]) /\ Len(pages[p].keys) <= Order /\ Honest(pages[p], entries)
    BY <1>2 DEF NodesInv, Typed
<1>4. Sorted(pages[p])
    BY <1>2, <1>3 DEF Honest
<1>5. /\ Formed(m) /\ m.leaf /\ m.parent = pages[p].parent /\ m.next = pages[p].next
      /\ Len(m.keys) = Len(pages[p].keys) + 1
      /\ Sorted(m) /\ Has(m, k) /\ \A j \in DOMAIN pages[p].keys : Has(m, pages[p].keys[j])
      /\ \A j \in DOMAIN m.keys :
            \/ m.keys[j] = k /\ m.ptrs[j] = v
            \/ \E i \in DOMAIN pages[p].keys : m.keys[j] = pages[p].keys[i] /\ m.ptrs[j] = pages[p].ptrs[i]
    BY <1>2, <1>3, <1>4, InLeafFacts
<1>6. Len(m.keys) <= Order + 1 /\ m.keys # <<>>
    BY <1>3, <1>5, OrderFacts, NodeFacts, EmptySeq
<1>7. \A R : Routes(pages, level, R, nextPage, NoClimb, RootInUse, entries) => k \in R[p]
    <2>. SUFFICES ASSUME NEW R, Routes(pages, level, R, nextPage, NoClimb, RootInUse, entries) PROVE k \in R[p]
        OBVIOUS
    <2>1. k \in R[RootInUse]
        BY NoClimbFacts DEF Routes, RootRoutes
    <2>. QED
        BY <1>1, <2>1, LeafFound
<1>8. entries[k] = NoValue
    <2>1. CASE pages[RootInUse].parent = NoPage
        <3>1. PICK R : Routes(pages, level, R, nextPage, NoClimb, RootInUse, entries)
            BY <2>1 DEF Tree, Ways, Idle
        <3>. QED
            BY <1>2, <1>7, <3>1 DEF Routes, LeafRoutes
    <2>2. CASE pages[RootInUse].parent # NoPage
        BY <2>2 DEF Bounded, RootIsKnown
    <2>. QED
        BY <2>1, <2>2
<1>9. es \in [Key -> HeapPages \cup {NoValue}] /\ es[k] = v /\ \A x \in Key : x # k => es[x] = entries[x]
    BY DEF RootsInv
<1>10. Honest(m, es)
    <2>1. Honest(pages[p], es)
        BY <1>3, <1>8, HonestKept DEF RootsInv
    <2>. SUFFICES ASSUME NEW j \in DOMAIN m.keys PROVE m.ptrs[j] \in HeapPages /\ m.ptrs[j] = es[m.keys[j]]
        BY <1>5 DEF Honest
    <2>. QED
        BY <1>2, <1>5, <1>9, <2>1 DEF Honest
<1>11. ASSUME NEW T, T[p] = m, \A q \in 1 .. nextPage - 1 : q # p => T[q] = pages[q]
       PROVE  Shape(T, level, nextPage, NoClimb) /\ Ways(T, level, nextPage, NoClimb, RootInUse, es)
    <2>1. Shape(T, level, nextPage, NoClimb)
        BY <1>1, <1>2, <1>5, <1>6, <1>11, LeafShape
    <2>2. ASSUME pages[RootInUse].parent = NoPage
          PROVE  \E R : Routes(T, level, R, nextPage, NoClimb, RootInUse, es)
        <3>1. PICK R : Routes(pages, level, R, nextPage, NoClimb, RootInUse, entries)
            BY <2>2 DEF Tree, Ways, Idle
        <3>2. k \in R[p]
            BY <1>7, <3>1
        <3>3. \A j \in DOMAIN T[p].keys :
                  T[p].keys[j] = k \/ \E i \in DOMAIN pages[p].keys : T[p].keys[j] = pages[p].keys[i]
            BY <1>5, <1>11
        <3>4. T[p].leaf /\ T[p].parent = pages[p].parent /\ T[p].next = pages[p].next
              /\ Sorted(T[p]) /\ Has(T[p], k)
              /\ \A j \in DOMAIN pages[p].keys : Has(T[p], pages[p].keys[j])
            BY <1>5, <1>11
        <3>5. PutIn(pages, T, nextPage, p, k)
            BY <1>2, <1>11, <3>3, <3>4 DEF PutIn
        <3>6. Routes(T, level, R, nextPage, NoClimb, RootInUse, es)
            BY <1>1, <1>2, <1>9, <3>1, <3>2, <3>5, LeafKeeps
        <3>. QED
            BY <3>6
    <2>3. T[RootInUse].parent = pages[RootInUse].parent
        BY <1>1, <1>2, <1>5, <1>11
    <2>. QED
        BY <2>1, <2>2, <2>3 DEF Ways
<1>. QED
    BY <1>2, <1>3, <1>5, <1>6, <1>8, <1>9, <1>10, <1>11 DEF KeyIsPut

\* The writes W alone.
LEMMA BecomesAll ==
    ASSUME NEW P \in [PageId -> Node], NEW X, NEW W \in Seq(X), NEW S \in [PageId -> Node],
           \A i \in DOMAIN W : S[W[i].id] = W[i].node,
           \A p \in PageId : (\A i \in DOMAIN W : W[i].id # p) => S[p] = P[p]
    PROVE  Becomes(P, W, S)
<1>1. Becomes(P, <<>>, P) /\ <<>> \in Seq(X)
    BY BecomesNone
<1>2. Becomes(P, <<>> \o W, S)
    BY <1>1, BecomesMore
<1>. QED
    BY <1>2, ConcatEmptySeq

\* After a split: the same roots, and a tree with two halves.
Halved(T, S, np, up, root, es) ==
    /\ \A q \in 1 .. np - 1 : S[q].parent = NoPage <=> T[q].parent = NoPage
    /\ \E lv : Shape(S, lv, np + 1, up) /\ Ways(S, lv, np + 1, up, root, es)

\* Either kind of split, in a tree whose root may be lost.
LEMMA SplitTree ==
    ASSUME NEW np \in 1 .. MaxPages - 1, NEW T, NEW S, NEW level, Shape(T, level, np, NoClimb),
           NEW p \in 1 .. np - 1, NEW mid \in Nat, Formed(T[p]), Split(T, S, np, p, mid),
           NEW key \in Key, NEW up, up = [left |-> p, key |-> key, right |-> np],
           Sorted(T[p]) => Divided(T, S, np, p, mid, key), NEW root \in 1 .. np - 1, NEW es,
           Ways(T, level, np, NoClimb, root, es)
    PROVE  Halved(T, S, np, up, root, es)
<1>1. \A q \in 1 .. np - 1 : S[q].parent = NoPage <=> T[q].parent = NoPage
    <2>0. np # NoPage /\ p # NoPage
        BY BTreeAssumption
    <2>. SUFFICES ASSUME NEW q \in 1 .. np - 1 PROVE S[q].parent = NoPage <=> T[q].parent = NoPage
        OBVIOUS
    <2>1. CASE q = p \/ T[p].leaf \/ ~ IsChild(S, q, np)
        BY <2>1 DEF Split
    <2>2. CASE q # p /\ ~ T[p].leaf /\ IsChild(S, q, np)
        <3>1. IsChild(T, q, p)
            BY <2>2, SplitChildren
        <3>2. T[q].parent = p
            BY <2>2, <3>1 DEF Shape, ChildrenInv, IsChild
        <3>3. S[q].parent = np
            BY <2>2 DEF Split
        <3>. QED
            BY <2>0, <3>2, <3>3
    <2>. QED
        BY <2>1, <2>2
<1>. DEFINE lv == [level EXCEPT ![np] = level[p]]
<1>2. lv \in [PageId -> Nat] /\ lv[np] = level[p] /\ \A q \in 1 .. np - 1 : lv[q] = level[q]
    <2>1. np \in PageId /\ 1 .. np - 1 \subseteq PageId /\ np \notin 1 .. np - 1
        BY BTreeAssumption DEF PageId
    <2>2. level \in [PageId -> Nat]
        BY DEF Shape, LevelsInv
    <2>. QED
        BY <2>1, <2>2
<1>. HIDE DEF lv
<1>3. Shape(S, lv, np + 1, up)
    BY <1>2, SplitShape
<1>4. ASSUME T[root].parent = NoPage PROVE \E R : Routes(S, lv, R, np + 1, up, root, es)
    <2>1. PICK R : Routes(T, level, R, np, NoClimb, root, es)
        BY <1>4 DEF Ways
    <2>2. Divided(T, S, np, p, mid, key)
        BY <2>1 DEF Routes, KeyRoutes
    <2>. DEFINE Q == [q \in PageId |-> IF q = p THEN {k \in R[p] : k < key}
                                       ELSE IF q = np THEN {k \in R[p] : k >= key} ELSE R[q]]
    <2>3. /\ Q \in [PageId -> SUBSET Key] /\ Q[p] = {k \in R[p] : k < key}
          /\ Q[np] = {k \in R[p] : k >= key} /\ \A q \in 1 .. np - 1 : q # p => Q[q] = R[q]
        <3>1. np \in PageId /\ 1 .. np - 1 \subseteq PageId /\ np \notin 1 .. np - 1
            BY BTreeAssumption DEF PageId
        <3>2. R \in [PageId -> SUBSET Key]
            BY <2>1 DEF Routes, RootRoutes
        <3>. QED
            BY <3>1, <3>2
    <2>. HIDE DEF Q
    <2>4. Routes(S, lv, Q, np + 1, up, root, es)
        BY <1>2, <2>1, <2>2, <2>3, SplitKeeps
    <2>. QED
        BY <2>4
<1>. QED
    BY <1>1, <1>3, <1>4 DEF Ways, Halved

-----------------------------------------------------------------------------
(* The steps.                                                              *)

\* Insert, in a leaf with room and in a full one.
LEMMA InsertStep ==
    ASSUME IInv, NEW k \in Key, NEW v \in PagesOf[k], Insert(k, v)
    PROVE  IInv'
<1>. DEFINE np == nextPage
            p == FindLeaf(RootInUse, k)
            m == InLeaf(pages[p], k, v)
            es == [entries EXCEPT ![k] = v]
<1>0. p = FindLeaf(RootInUse, k) /\ m = InLeaf(pages[p], k, v) /\ es = [entries EXCEPT ![k] = v]
    OBVIOUS
<1>1. /\ Idle /\ ~ failed /\ Bounded(k) /\ ~ Has(pages[p], k)
      /\ rootID' = RootInUse /\ entries' = es /\ pages' = pages /\ catRoot' = catRoot /\ failed' = failed
    BY DEF Insert
<1>2. NodesInv /\ RootsInv /\ v \in HeapPages
    BY BTreeAssumption DEF IInv
<1>3. PICK level : Tree(pages, level) /\ Shape(pages, level, np, NoClimb)
    BY <1>1, <1>2, IdleTree DEF IInv, TreeInv
<1>. HIDE DEF p, m, es
<1>4. np \in 1 .. MaxPages - 1 /\ np \in Nat /\ np + 1 \in 2 .. MaxPages /\ np \in 2 .. MaxPages
    BY <1>1, <1>2, BTreeAssumption DEF Bounded, RootsInv
<1>5. RootInUse \in 1 .. np - 1 /\ 1 .. np - 1 \subseteq PageId /\ np \in PageId /\ np \notin 1 .. np - 1
    BY <1>2, <1>4, RootsFacts, BTreeAssumption DEF PageId
<1>6. /\ p \in 1 .. np - 1 /\ p \in PageId /\ pages[p].leaf /\ Formed(pages[p])
      /\ Formed(m) /\ m.leaf /\ m.parent = pages[p].parent
      /\ Len(m.keys) = Len(pages[p].keys) + 1 /\ Len(m.keys) <= Order + 1 /\ m.keys # <<>>
      /\ entries[k] = NoValue /\ Honest(m, es) /\ es \in [Key -> HeapPages \cup {NoValue}]
      /\ \A T : T[p] = m /\ (\A q \in 1 .. np - 1 : q # p => T[q] = pages[q]) =>
                Shape(T, level, np, NoClimb) /\ Ways(T, level, np, NoClimb, RootInUse, es)
    <2>1. KeyIsPut(level, k, p, m, es)
        BY <1>0, <1>1, <1>2, <1>3, InsertedKey
    <2>. QED
        BY <2>1 DEF KeyIsPut
<1>7. pages \in [PageId -> Node] /\ \A q \in PageId : Typed(pages[q]) /\ Honest(pages[q], es)
    BY <1>0, <1>2, <1>6, HonestKept DEF NodesInv, Typed, RootsInv
<1>8. RootInUse' = RootInUse
    BY <1>1 DEF RootInUse
<1>9. catRoot = NoPage => pages[RootInUse].parent = NoPage
    BY <1>1, <1>3 DEF Tree, Idle, RootInUse
<1>10. (~ failed)' /\ (failed \in BOOLEAN /\ (failed => Idle))'
    BY <1>1, <1>2 DEF Idle, RootsInv
<1>12. PICK T1 \in [PageId -> Node] : T1[p] = m /\ \A q \in PageId : q # p => T1[q] = pages[q]
    <2>. DEFINE U == [q \in PageId |-> IF q = p THEN m ELSE pages[q]]
    <2>1. U \in [PageId -> Node] /\ U[p] = m /\ \A q \in PageId : q # p => U[q] = pages[q]
        BY <1>6, <1>7 DEF Formed
    <2>. HIDE DEF U
    <2>. QED
        BY <2>1
<1>13. Shape(T1, level, np, NoClimb) /\ Ways(T1, level, np, NoClimb, RootInUse, es)
    BY <1>5, <1>6, <1>12
<1>14. CASE ~ IsOver(m) /\ queue' = <<Write(p, m)>> /\ UNCHANGED <<climb, nextPage>>
    <2>1. Typed(m)
        BY <1>6, <1>14, OrderFacts, NodeFacts DEF Typed, IsOver
    <2>2. Write(p, m) \in Good(es) /\ Write(p, m) \in [id : PageId, node : Node]
        BY <1>6, <2>1 DEF Good, Write, Typed, Formed
    <2>3. queue' \in Seq(Good(es))
        BY <1>14, <2>2
    <2>4. NodesInv'
        BY <1>1, <1>7, <2>3, GoodQueue DEF NodesInv
    <2>5. Becomes(pages', queue', T1)
        <3>1. queue' = <<Write(p, m)>> /\ queue' \in Seq([id : PageId, node : Node])
            BY <1>14, <2>2
        <3>2. \A i \in DOMAIN queue' : T1[queue'[i].id] = queue'[i].node
            BY <1>12, <3>1 DEF Write
        <3>3. ASSUME NEW q \in PageId, \A i \in DOMAIN queue' : queue'[i].id # q PROVE T1[q] = pages[q]
            <4>1. queue'[1].id = p /\ 1 \in DOMAIN queue'
                BY <3>1 DEF Write
            <4>. QED
                BY <1>12, <3>3, <4>1
        <3>. QED
            BY <1>1, <1>7, <1>12, <3>1, <3>2, <3>3, BecomesAll
    <2>6. Tree(T1, level)'
        <3>1. T1[RootInUse].parent = pages[RootInUse].parent
            BY <1>5, <1>6, <1>12
        <3>. QED
            BY <1>1, <1>8, <1>9, <1>13, <1>14, <2>5, <3>1 DEF Tree, Idle
    <2>7. RootsInv'
        BY <1>1, <1>2, <1>5, <1>6, <1>10, <1>14 DEF RootsInv
    <2>. QED
        BY <2>4, <2>6, <2>7 DEF IInv, TreeInv
<1>15. CASE IsOver(m) /\ SplitLeaf(p, m)
    <2>. DEFINE low == LowLeaf(m, np)
                high == HighLeaf(m)
                up == [left |-> p, key |-> high.keys[1], right |-> np]
    <2>1. queue' = <<Write(p, low), Write(np, high)>> /\ climb' = up /\ nextPage' = np + 1
        BY <1>15 DEF SplitLeaf, LowLeaf, HighLeaf, LeafMid
    <2>2. Len(m.keys) = Order + 1 /\ Len(m.keys) >= 2 /\ Sorted(m)
        BY <1>6, <1>15, OrderFacts, NodeFacts DEF IsOver, Honest
    <2>. DEFINE mid == LeafMid(m)
    <2>. DEFINE U == [q \in PageId |-> IF q = p THEN low ELSE IF q = np THEN high ELSE pages[q]]
    <2>3. PICK S : /\ S = [q \in PageId |-> S[q]] /\ S[p] = low /\ S[np] = high /\ p # np
                   /\ \A q \in PageId : q # p /\ q # np => S[q] = T1[q]
        <3>1. /\ U = [q \in PageId |-> U[q]] /\ U[p] = low /\ U[np] = high /\ p # np
              /\ \A q \in PageId : q # p /\ q # np => U[q] = T1[q]
            BY <1>5, <1>6, <1>12
        <3>. HIDE DEF U
        <3>. QED
            BY <3>1
    <2>4. /\ mid \in Nat /\ Split(T1, S, np, p, mid)
          /\ high.keys[1] \in Key /\ Divided(T1, S, np, p, mid, high.keys[1])
          /\ Formed(low) /\ Formed(high)
          /\ Len(low.keys) = mid /\ Len(high.keys) = Len(m.keys) - mid
          /\ \A fs : Honest(m, fs) => Honest(low, fs) /\ Honest(high, fs)
        <3>1. \A q \in 1 .. np - 1 : q # p => S[q] = T1[q]
            BY <1>5, <2>3
        <3>2. /\ LeafMid(T1[p]) \in Nat /\ Split(T1, S, np, p, LeafMid(T1[p]))
              /\ S[np].keys[1] \in Key /\ Divided(T1, S, np, p, LeafMid(T1[p]), S[np].keys[1])
              /\ Formed(S[p]) /\ Formed(S[np])
              /\ Len(S[p].keys) = LeafMid(T1[p]) /\ Len(S[np].keys) = Len(T1[p].keys) - LeafMid(T1[p])
              /\ \A fs : Honest(T1[p], fs) => Honest(S[p], fs) /\ Honest(S[np], fs)
            BY <1>4, <1>6, <1>12, <2>2, <2>3, <3>1, LeafSplit
        <3>. QED
            BY <1>12, <2>3, <3>2
    <2>5. mid \in 1 .. Order
        BY <2>2, OrderFacts, HalfOf DEF LeafMid
    <2>. HIDE DEF low, high, mid
    <2>6. Typed(low) /\ Typed(high) /\ Honest(low, es) /\ Honest(high, es)
        BY <1>6, <2>2, <2>4, <2>5, OrderFacts DEF Typed
    <2>7. Write(p, low) \in Good(es) /\ Write(np, high) \in Good(es)
        BY <1>5, <1>6, <2>6 DEF Good, Write, Typed, Formed
    <2>8. queue' \in Seq(Good(es))
        BY <2>1, <2>7
    <2>9. NodesInv'
        BY <1>1, <1>7, <2>8, GoodQueue DEF NodesInv
    <2>10. S \in [PageId -> Node]
        <3>1. \A q \in PageId : S[q] \in Node
            BY <1>12, <2>3, <2>6 DEF Typed, Formed
        <3>. QED
            BY <2>3, <3>1
    <2>11. Becomes(pages', queue', S)
        <3>1. \A i \in DOMAIN queue' : S[queue'[i].id] = queue'[i].node
            BY <2>1, <2>3 DEF Write
        <3>2. ASSUME NEW q \in PageId, \A i \in DOMAIN queue' : queue'[i].id # q PROVE S[q] = pages[q]
            <4>1. queue'[1].id = p /\ queue'[2].id = np /\ 1 \in DOMAIN queue' /\ 2 \in DOMAIN queue'
                BY <2>1 DEF Write
            <4>. QED
                BY <1>12, <2>3, <3>2, <4>1
        <3>. QED
            BY <1>1, <1>7, <2>8, <2>10, <3>1, <3>2, BecomesAll
    <2>12. /\ \A q \in 1 .. np - 1 : S[q].parent = NoPage <=> T1[q].parent = NoPage
           /\ \E lv : Shape(S, lv, np + 1, up) /\ Ways(S, lv, np + 1, up, RootInUse, es)
        <3>. DEFINE key == high.keys[1]
        <3>1. Formed(T1[p]) /\ (Sorted(T1[p]) => Divided(T1, S, np, p, mid, key))
            BY <1>6, <1>12, <2>4
        <3>2. up = [left |-> p, key |-> key, right |-> np] /\ key \in Key
            BY <2>4
        <3>. HIDE DEF up, key
        <3>3. Halved(T1, S, np, up, RootInUse, es)
            BY <1>4, <1>5, <1>6, <1>13, <2>4, <3>1, <3>2, SplitTree
        <3>. QED
            BY <3>3 DEF Halved
    <2>13. PICK lv : Shape(S, lv, np + 1, up) /\ Ways(S, lv, np + 1, up, RootInUse, es)
        BY <2>12
    <2>14. Tree(S, lv)'
        <3>1. T1[RootInUse].parent = pages[RootInUse].parent
            BY <1>5, <1>6, <1>12
        <3>. HIDE DEF up
        <3>. QED
            BY <1>1, <1>5, <1>8, <1>9, <2>1, <2>11, <2>12, <2>13, <3>1 DEF Tree
    <2>15. RootsInv'
        <3>1. climb' \in Climb
            BY <1>5, <1>6, <2>1, <2>4 DEF Climb
        <3>2. rootID' \in 1 .. nextPage' - 1 /\ catRoot' \in (1 .. nextPage' - 1) \cup {NoPage}
            BY <1>1, <1>2, <1>4, <1>5, <2>1 DEF RootsInv
        <3>. QED
            BY <1>1, <1>4, <1>6, <1>10, <2>1, <3>1, <3>2 DEF RootsInv
    <2>. QED
        BY <2>9, <2>14, <2>15 DEF IInv, TreeInv
<1>. QED
    BY <1>14, <1>15 DEF Insert, p, m

\* An internal node with one more key and child.
Wider(n, i, key, right) == [n EXCEPT !.keys = InsertAt(@, i, key), !.ptrs = InsertAt(@, i + 1, right)]

LEMMA WiderNode ==
    ASSUME NEW n, Formed(n), ~ n.leaf, NEW i \in 1 .. Len(n.keys) + 1, NEW key \in Key, NEW right \in PageId,
           NEW m, m = Wider(n, i, key, right)
    PROVE  /\ Formed(m) /\ m.leaf = n.leaf /\ m.parent = n.parent /\ Len(m.keys) = Len(n.keys) + 1
           /\ m.keys = InsertAt(n.keys, i, key) /\ m.ptrs = InsertAt(n.ptrs, i + 1, right)
<1>. DEFINE ks == InsertAt(n.keys, i, key)
            ps == InsertAt(n.ptrs, i + 1, right)
<1>1. /\ n \in Node /\ n.keys \in Seq(Key) /\ n.ptrs \in Seq(PageId)
      /\ Len(n.keys) \in Nat /\ Len(n.ptrs) = Len(n.keys) + 1
    BY NodeFacts DEF Formed
<1>2. ks \in Seq(Key) /\ Len(ks) = Len(n.keys) + 1
    BY <1>1, InsertedKeys
<1>3. i + 1 \in 1 .. Len(n.ptrs) + 1
    BY <1>1
<1>4. ps \in Seq(PageId) /\ Len(ps) = Len(n.ptrs) + 1
    <2>1. \A s \in Seq(PageId) : \A j \in 1 .. Len(s) + 1 :
              InsertAt(s, j, right) \in Seq(PageId) /\ Len(InsertAt(s, j, right)) = Len(s) + 1
        BY InsertedPages
    <2>. QED
        BY <1>1, <1>3, <2>1, Zenon
<1>5. ps \in Seq(PageId \cup HeapPages)
    BY <1>4
<1>6. m = [n EXCEPT !.keys = ks, !.ptrs = ps]
    BY <1>1 DEF Node, Wider
<1>. HIDE DEF ks, ps
<1>7. /\ m \in [leaf : {n.leaf}, keys : {ks}, ptrs : {ps}, parent : {n.parent}, next : {n.next}]
      /\ m \in Node
    BY <1>1, <1>2, <1>5, <1>6 DEF Node
<1>8. m.leaf = n.leaf /\ m.keys = ks /\ m.ptrs = ps /\ m.parent = n.parent
    BY <1>7
<1>9. Formed(m)
    BY <1>1, <1>2, <1>4, <1>7, <1>8 DEF Formed
<1>. QED
    BY <1>2, <1>8, <1>9 DEF ks, ps

\* Both halves are written, and their parent is still to learn of the right one.
LEMMA ClimbStart ==
    ASSUME IInv, queue = <<>>, climb # NoClimb, nextPage < MaxPages
    PROVE  /\ ~ failed /\ climb \in Climb /\ nextPage \in 1 .. MaxPages - 1 /\ nextPage + 1 \in 2 .. MaxPages
           /\ \E level : Tree(pages, level) /\ Shape(pages, level, nextPage, climb)
           /\ climb.left \in 1 .. nextPage - 1 /\ climb.right \in 1 .. nextPage - 1 /\ climb.left # climb.right
           /\ climb.key \in Key /\ pages[climb.left].parent = pages[climb.right].parent
           /\ RootInUse \in 1 .. nextPage - 1 /\ 1 .. nextPage - 1 \subseteq PageId /\ nextPage \in PageId
           /\ nextPage \in Nat /\ nextPage \notin 1 .. nextPage - 1
<1>1. ~ failed /\ climb \in Climb
    BY DEF IInv, RootsInv, Idle
<1>2. nextPage \in 1 .. MaxPages - 1 /\ nextPage + 1 \in 2 .. MaxPages
    BY BTreeAssumption DEF IInv, RootsInv
<1>3. PICK T, level : Tree(T, level)
    BY <1>1 DEF IInv, TreeInv
<1>4. T = pages
    BY <1>3, BecomesNone DEF Tree, IInv, NodesInv
<1>5. Tree(pages, level) /\ Shape(pages, level, nextPage, climb)
    BY <1>3, <1>4 DEF Tree
<1>6. /\ climb.left \in 1 .. nextPage - 1 /\ climb.right \in 1 .. nextPage - 1 /\ climb.left # climb.right
      /\ pages[climb.left].parent = pages[climb.right].parent
    BY <1>5 DEF Shape, HalvesInv
<1>7. climb.key \in Key
    BY <1>1 DEF Climb
<1>8. /\ RootInUse \in 1 .. nextPage - 1 /\ 1 .. nextPage - 1 \subseteq PageId /\ nextPage \in PageId
      /\ nextPage \in Nat /\ nextPage \notin 1 .. nextPage - 1
    BY <1>2, RootsFacts, BTreeAssumption DEF IInv, PageId
<1>. QED
    BY <1>1, <1>2, <1>5, <1>6, <1>7, <1>8

\* T is the tree with the right half below its parent p, whose node is n then.
LEMMA LinkedTree ==
    ASSUME IInv, queue = <<>>, climb # NoClimb, nextPage < MaxPages,
           pages[climb.left].parent # NoPage, NEW p, p = pages[climb.left].parent,
           NEW i \in DOMAIN pages[p].ptrs, pages[p].ptrs[i] = climb.left,
           NEW n, n = Wider(pages[p], i, climb.key, climb.right)
    PROVE  /\ p \in 1 .. nextPage - 1 /\ p # climb.right /\ Typed(pages[p])
           /\ Formed(n) /\ ~ n.leaf /\ n.parent = pages[p].parent /\ Len(n.keys) = Len(pages[p].keys) + 1
           /\ \E T \in [PageId -> Node] :
                 /\ T[p] = n /\ \A q \in PageId : q # p => T[q] = pages[q]
                 /\ \E level : /\ Shape(T, level, nextPage, NoClimb)
                               /\ Ways(T, level, nextPage, NoClimb, RootInUse, entries)
<1>0. PICK level : Tree(pages, level) /\ Shape(pages, level, nextPage, climb)
    BY ClimbStart
<1>1. /\ Tree(pages, level) /\ Shape(pages, level, nextPage, climb)
      /\ ~ failed /\ climb \in Climb /\ nextPage \in 1 .. MaxPages /\ nextPage \in 1 .. MaxPages - 1
      /\ climb.left \in 1 .. nextPage - 1 /\ climb.right \in 1 .. nextPage - 1
      /\ climb.left # climb.right /\ climb.key \in Key /\ climb.right \in PageId
      /\ RootInUse \in 1 .. nextPage - 1 /\ 1 .. nextPage - 1 \subseteq PageId
    BY <1>0, ClimbStart, RootsFacts DEF IInv
<1>2. pages \in [PageId -> Node] /\ \A q \in PageId : Typed(pages[q])
    BY DEF IInv, NodesInv
<1>3. p \in 1 .. nextPage - 1 /\ ~ pages[p].leaf /\ IsChild(pages, climb.left, p)
    BY <1>1 DEF Shape, ParentsInv, Unlinked
<1>4. i \in DOMAIN pages[p].ptrs /\ pages[p].ptrs[i] = climb.left
    OBVIOUS
<1>5. Formed(pages[p]) /\ i \in 1 .. Len(pages[p].keys) + 1
    BY <1>1, <1>2, <1>3, <1>4, NodeFacts DEF Typed
<1>6. /\ Formed(n) /\ n.leaf = pages[p].leaf /\ n.parent = pages[p].parent /\ Len(n.keys) = Len(pages[p].keys) + 1
      /\ n.keys = InsertAt(pages[p].keys, i, climb.key) /\ n.ptrs = InsertAt(pages[p].ptrs, i + 1, climb.right)
    <2>. DEFINE o == pages[p]
    <2>1. /\ Formed(o) /\ ~ o.leaf /\ i \in 1 .. Len(o.keys) + 1 /\ climb.key \in Key /\ climb.right \in PageId
          /\ n = Wider(o, i, climb.key, climb.right)
        BY <1>1, <1>3, <1>5
    <2>. HIDE DEF o
    <2>2. /\ Formed(n) /\ n.leaf = o.leaf /\ n.parent = o.parent /\ Len(n.keys) = Len(o.keys) + 1
          /\ n.keys = InsertAt(o.keys, i, climb.key) /\ n.ptrs = InsertAt(o.ptrs, i + 1, climb.right)
        BY <2>1, WiderNode
    <2>. QED
        BY <2>2 DEF o
<1>7. PICK T \in [PageId -> Node] : T[p] = n /\ \A q \in PageId : q # p => T[q] = pages[q]
    <2>. DEFINE U == [q \in PageId |-> IF q = p THEN n ELSE pages[q]]
    <2>1. U \in [PageId -> Node] /\ U[p] = n /\ \A q \in PageId : q # p => U[q] = pages[q]
        BY <1>1, <1>2, <1>3, <1>6 DEF Formed
    <2>. HIDE DEF U
    <2>. QED
        BY <2>1
<1>8. Linked(pages, T, nextPage, climb, p, i)
    BY <1>1, <1>4, <1>6, <1>7 DEF Linked
<1>9. Forms(pages) /\ Formed(T[p])
    BY <1>2, <1>6, <1>7 DEF Forms, Typed
<1>10. Shape(T, level, nextPage, NoClimb)
    BY <1>1, <1>8, <1>9, LinkShape
<1>11. Ways(T, level, nextPage, NoClimb, RootInUse, entries)
    <2>. SUFFICES ASSUME T[RootInUse].parent = NoPage
                  PROVE  \E R : Routes(T, level, R, nextPage, NoClimb, RootInUse, entries)
        BY DEF Ways
    <2>1. pages[RootInUse].parent = NoPage
        BY <1>1, <1>3, <1>6, <1>7
    <2>2. PICK R : Routes(pages, level, R, nextPage, climb, RootInUse, entries)
        BY <1>1, <2>1 DEF Tree, Ways
    <2>3. Routes(T, level, R, nextPage, NoClimb, RootInUse, entries)
        BY <1>1, <1>8, <1>9, <2>2, LinkKeeps
    <2>. QED
        BY <2>3
<1>12. p # climb.right
    <2>1. level[pages[p].ptrs[i]] + 1 = level[p]
        BY <1>1, <1>3, <1>4 DEF Shape, ChildrenInv
    <2>2. level[climb.left] = level[climb.right]
        BY <1>1 DEF Shape, HalvesInv
    <2>3. level[climb.left] \in Nat
        BY <1>1 DEF Shape, LevelsInv
    <2>. QED
        BY <1>4, <2>1, <2>2, <2>3
<1>. QED
    BY <1>1, <1>2, <1>3, <1>6, <1>7, <1>10, <1>11, <1>12

\* The right half is written once more, with the parent that it has already.
LEMMA WrittenAgain ==
    ASSUME IInv, queue = <<>>, climb # NoClimb, nextPage < MaxPages,
           pages[climb.left].parent # NoPage, NEW p, p = pages[climb.left].parent, p \in 1 .. nextPage - 1,
           NEW w, w = Write(climb.right, [pages[climb.right] EXCEPT !.parent = p])
    PROVE  w.id = climb.right /\ w.node = pages[climb.right] /\ w \in Good(entries)
<1>1. climb.right \in PageId /\ p \in PageId /\ pages[climb.right].parent = p
    BY ClimbStart
<1>2. Typed(pages[climb.right]) /\ Honest(pages[climb.right], entries)
    BY <1>1 DEF IInv, NodesInv
<1>3. [pages[climb.right] EXCEPT !.parent = p] = pages[climb.right]
    BY <1>1, <1>2, Reparented DEF Typed
<1>. QED
    BY <1>1, <1>2, <1>3 DEF Write, Good, Typed, Formed

\* The left half is a child of its parent.
LEMMA ParentOfLeft ==
    ASSUME IInv, queue = <<>>, climb # NoClimb, nextPage < MaxPages,
           pages[climb.left].parent # NoPage, NEW p, p = pages[climb.left].parent
    PROVE  p \in 1 .. nextPage - 1 /\ \E i \in DOMAIN pages[p].ptrs : pages[p].ptrs[i] = climb.left
<1>1. PICK level : Shape(pages, level, nextPage, climb)
    BY ClimbStart
<1>2. climb.left \in 1 .. nextPage - 1 /\ climb.left # climb.right
    BY ClimbStart
<1>. QED
    BY <1>1, <1>2 DEF Shape, ParentsInv, Unlinked, IsChild

\* insertIntoParent, in a parent with room.
LEMMA LinkStep ==
    ASSUME IInv, queue = <<>>, climb # NoClimb, nextPage < MaxPages,
           pages[climb.left].parent # NoPage, NEW p, p = pages[climb.left].parent,
           NEW i \in DOMAIN pages[p].ptrs, pages[p].ptrs[i] = climb.left,
           NEW n, n = Wider(pages[p], i, climb.key, climb.right), ~ IsOver(n),
           NEW w, w = Write(climb.right, [pages[climb.right] EXCEPT !.parent = p]),
           queue' = <<w, Write(p, n)>>, climb' = NoClimb,
           UNCHANGED <<nextPage, rootID, pages, catRoot, failed, entries>>
    PROVE  IInv'
<1>1. /\ p \in 1 .. nextPage - 1 /\ p # climb.right /\ Typed(pages[p])
      /\ Formed(n) /\ ~ n.leaf /\ n.parent = pages[p].parent /\ Len(n.keys) = Len(pages[p].keys) + 1
    BY LinkedTree
<1>2. PICK T \in [PageId -> Node] :
          /\ T[p] = n /\ \A q \in PageId : q # p => T[q] = pages[q]
          /\ \E level : /\ Shape(T, level, nextPage, NoClimb)
                        /\ Ways(T, level, nextPage, NoClimb, RootInUse, entries)
    BY LinkedTree
<1>3. PICK level : Shape(T, level, nextPage, NoClimb) /\ Ways(T, level, nextPage, NoClimb, RootInUse, entries)
    BY <1>2
<1>4. w.id = climb.right /\ w.node = pages[climb.right] /\ w \in Good(entries)
    BY <1>1, WrittenAgain
<1>5. /\ climb.right \in PageId /\ 1 .. nextPage - 1 \subseteq PageId /\ RootInUse \in 1 .. nextPage - 1
      /\ ~ failed
    BY ClimbStart
<1>6. Typed(n) /\ Honest(n, entries)
    <2>1. Len(n.keys) \in Nat
        BY <1>1, NodeFacts
    <2>2. Len(n.keys) <= Order
        BY <2>1, OrderFacts DEF IsOver
    <2>. QED
        BY <1>1, <2>2 DEF Typed, Honest
<1>7. Write(p, n) \in Good(entries)
    BY <1>1, <1>5, <1>6 DEF Good, Write, Formed
<1>8. queue' \in Seq(Good(entries))
    BY <1>4, <1>7
<1>9. NodesInv'
    BY <1>8, GoodQueue, ZenonT(60) DEF NodesInv, IInv
<1>10. Becomes(pages', queue', T)
    <2>1. pages \in [PageId -> Node] /\ p \in PageId
        BY <1>1, <1>5 DEF IInv, NodesInv
    <2>2. queue'[1].id = climb.right /\ queue'[1].node = pages[climb.right] /\ 1 \in DOMAIN queue'
          /\ queue'[2].id = p /\ queue'[2].node = n /\ 2 \in DOMAIN queue' /\ DOMAIN queue' = {1, 2}
        BY <1>4 DEF Write
    <2>3. \A j \in DOMAIN queue' : T[queue'[j].id] = queue'[j].node
        <3>1. T[climb.right] = pages[climb.right] /\ T[p] = n
            BY <1>1, <1>2, <1>5
        <3>. QED
            BY <2>2, <3>1
    <2>4. ASSUME NEW q \in PageId, \A j \in DOMAIN queue' : queue'[j].id # q PROVE T[q] = pages[q]
        BY <1>2, <2>2, <2>4
    <2>. QED
        BY <1>8, <2>1, <2>3, <2>4, BecomesAll, ZenonT(60)
<1>11. RootInUse' = RootInUse
    BY DEF RootInUse
<1>12. Tree(T, level)'
    <2>1. \A q \in PageId : T[q].parent = pages[q].parent
        BY <1>1, <1>2
    <2>2. rootID \in PageId /\ (catRoot = NoPage => pages[rootID].parent = NoPage)
        BY <1>5, ClimbStart DEF IInv, RootsInv, Tree
    <2>. QED
        BY <1>3, <1>10, <1>11, <2>1, <2>2 DEF Tree
<1>13. RootsInv'
    BY <1>5 DEF RootsInv, IInv, Idle
<1>. QED
    BY <1>9, <1>12, <1>13 DEF IInv, TreeInv

\* The writes of the children that get a new parent.
LEMMA ReparentFacts ==
    ASSUME NodesInv, NEW c \in Seq(PageId), NEW q \in PageId
    PROVE  /\ Reparent(c, q) \in Seq(Good(entries)) /\ DOMAIN Reparent(c, q) = DOMAIN c
           /\ \A j \in DOMAIN c : /\ Reparent(c, q)[j].id = c[j]
                                  /\ Reparent(c, q)[j].node = [pages[c[j]] EXCEPT !.parent = q]
<1>. DEFINE W == Reparent(c, q)
<1>1. Len(c) \in Nat /\ DOMAIN c = 1 .. Len(c) /\ \A j \in 1 .. Len(c) : c[j] \in PageId
    BY LenProperties, ElementOfSeq
<1>2. /\ W = [j \in 1 .. Len(c) |-> W[j]] /\ DOMAIN W = 1 .. Len(c)
      /\ \A j \in 1 .. Len(c) : /\ W[j].id = c[j] /\ W[j].node = [pages[c[j]] EXCEPT !.parent = q]
                                /\ W[j] = [id |-> c[j], node |-> [pages[c[j]] EXCEPT !.parent = q]]
    BY <1>1 DEF Reparent, Write
<1>. HIDE DEF W
<1>3. ASSUME NEW j \in 1 .. Len(c) PROVE W[j] \in Good(entries)
    <2>. DEFINE m == [pages[c[j]] EXCEPT !.parent = q]
    <2>1. Typed(pages[c[j]]) /\ Honest(pages[c[j]], entries)
        BY <1>1 DEF NodesInv
    <2>2. Formed(m) /\ m.keys = pages[c[j]].keys /\ Honest(m, entries)
        BY <2>1, Reparented DEF Typed
    <2>3. W[j] = [id |-> c[j], node |-> m]
        BY <1>2
    <2>. HIDE DEF m
    <2>4. Typed(m) /\ m \in Node /\ c[j] \in PageId
        BY <1>1, <2>1, <2>2 DEF Typed, Formed
    <2>5. W[j] \in [id : PageId, node : Node] /\ W[j].node = m
        BY <2>3, <2>4
    <2>. QED
        BY <2>2, <2>4, <2>5 DEF Good
<1>4. W \in Seq(Good(entries))
    BY <1>1, <1>2, <1>3, SeqDef
<1>. QED
    BY <1>1, <1>2, <1>4 DEF W

\* The halves of an internal node n with one key too many, in a tree T that has it.
InnerHalves(T, S, np, p, n, low, high, key, root, es) ==
    /\ Formed(low) /\ ~ low.leaf /\ Len(low.keys) = InnerMid(n) - 1
    /\ Formed(high) /\ ~ high.leaf /\ Len(high.keys) = Len(n.keys) - InnerMid(n)
    /\ InnerMid(n) \in 2 .. Len(n.keys) - 1 /\ key \in Key
    /\ \A j \in DOMAIN high.ptrs : high.ptrs[j] \in 1 .. np - 1 /\ high.ptrs[j] # p
    /\ Halved(T, S, np, [left |-> p, key |-> key, right |-> np], root, es)

\* They are halves of its page, and the children of the right one lie elsewhere.
LEMMA SplitInner ==
    ASSUME NEW np \in 1 .. MaxPages - 1, NEW T \in [PageId -> Node], NEW level, Shape(T, level, np, NoClimb),
           NEW p \in 1 .. np - 1, NEW n, T[p] = n, Formed(n), ~ n.leaf, Len(n.keys) >= 3,
           NEW root \in 1 .. np - 1, NEW es, Ways(T, level, np, NoClimb, root, es),
           NEW low, low = LowInner(n), NEW high, high = HighInner(n),
           NEW key, key = n.keys[InnerMid(n)], NEW S, S[p] = low, S[np] = high,
           \A q \in 1 .. np - 1 : q # p =>
               S[q] = IF \E j \in DOMAIN high.ptrs : high.ptrs[j] = q THEN [T[q] EXCEPT !.parent = np] ELSE T[q]
    PROVE  InnerHalves(T, S, np, p, n, low, high, key, root, es)
<1>. DEFINE mid == InnerMid(n)
            up == [left |-> p, key |-> key, right |-> np]
<1>0. np \in PageId /\ 1 .. np - 1 \subseteq PageId /\ np \in 1 .. MaxPages
    BY BTreeAssumption DEF PageId
<1>1. \A q \in 1 .. np - 1 : q # p =>
          /\ S[q].leaf = T[q].leaf /\ S[q].keys = T[q].keys /\ S[q].ptrs = T[q].ptrs
          /\ S[q].parent = IF ~ T[p].leaf /\ IsChild(S, q, np) THEN np ELSE T[q].parent
          /\ S[q].next = T[q].next
    <2>. SUFFICES ASSUME NEW q \in 1 .. np - 1, q # p
                  PROVE  /\ S[q].leaf = T[q].leaf /\ S[q].keys = T[q].keys /\ S[q].ptrs = T[q].ptrs
                         /\ S[q].parent = IF ~ T[p].leaf /\ IsChild(S, q, np) THEN np ELSE T[q].parent
                         /\ S[q].next = T[q].next
        OBVIOUS
    <2>1. T[q] \in Node
        BY <1>0
    <2>2. IsChild(S, q, np) <=> \E j \in DOMAIN high.ptrs : high.ptrs[j] = q
        BY DEF IsChild
    <2>3. CASE IsChild(S, q, np)
        <3>1. S[q] = [T[q] EXCEPT !.parent = np]
            BY <2>2, <2>3
        <3>. QED
            BY <2>1, <2>3, <3>1 DEF Node
    <2>4. CASE ~ IsChild(S, q, np)
        BY <2>2, <2>4
    <2>. QED
        BY <2>3, <2>4
<1>2. /\ InnerMid(T[p]) \in Nat /\ Split(T, S, np, p, InnerMid(T[p]))
      /\ key \in Key /\ (Sorted(T[p]) => Divided(T, S, np, p, InnerMid(T[p]), key))
      /\ Formed(S[p]) /\ Formed(S[np])
      /\ Len(S[p].keys) = InnerMid(T[p]) - 1 /\ Len(S[np].keys) = Len(T[p].keys) - InnerMid(T[p])
    BY <1>1, InnerSplit, SMTT(60)
<1>3. /\ mid \in Nat /\ Split(T, S, np, p, mid) /\ key \in Key /\ (Sorted(T[p]) => Divided(T, S, np, p, mid, key))
      /\ Formed(low) /\ Formed(high) /\ Len(low.keys) = mid - 1 /\ Len(high.keys) = Len(n.keys) - mid
    BY <1>2
<1>4. mid \in 2 .. Len(n.keys) - 1
    BY InnerHalfOf, NodeFacts DEF InnerMid
<1>5. up = [left |-> p, key |-> key, right |-> np]
    OBVIOUS
<1>. HIDE DEF mid, up
<1>6. Halved(T, S, np, up, root, es)
    BY <1>3, <1>5, SplitTree
<1>7. low.leaf = n.leaf /\ high.leaf = n.leaf
    BY <1>3 DEF Split
<1>8. ASSUME NEW j \in DOMAIN high.ptrs PROVE high.ptrs[j] \in 1 .. np - 1 /\ high.ptrs[j] # p
    <2>1. PICK z \in DOMAIN n.ptrs : high.ptrs[j] = n.ptrs[z]
        <3>1. IsChild(S, high.ptrs[j], np)
            BY <1>8 DEF IsChild
        <3>2. Formed(T[p]) /\ ~ T[p].leaf
            OBVIOUS
        <3>3. \A d : IsChild(S, d, np) => IsChild(T, d, p)
            BY <1>3, <3>2, SplitChildren
        <3>. QED
            BY <3>1, <3>3 DEF IsChild
    <2>2. n.ptrs[z] \in 1 .. np - 1 /\ level[n.ptrs[z]] + 1 = level[p]
        BY DEF Shape, ChildrenInv
    <2>3. level[p] \in Nat /\ level[n.ptrs[z]] \in Nat
        BY <1>0, <2>2 DEF Shape, LevelsInv
    <2>. QED
        BY <2>1, <2>2, <2>3
<1>. QED
    BY <1>3, <1>4, <1>6, <1>7, <1>8 DEF InnerHalves, mid, up

\* insertIntoParent, in a full parent.
LEMMA SplitInternalStep ==
    ASSUME IInv, queue = <<>>, climb # NoClimb, nextPage < MaxPages,
           pages[climb.left].parent # NoPage, NEW p, p = pages[climb.left].parent,
           NEW i \in DOMAIN pages[p].ptrs, pages[p].ptrs[i] = climb.left,
           NEW n, n = Wider(pages[p], i, climb.key, climb.right), IsOver(n),
           NEW w, w = Write(climb.right, [pages[climb.right] EXCEPT !.parent = p]),
           SplitInternal(p, n, w), UNCHANGED <<rootID, pages, catRoot, failed, entries>>
    PROVE  IInv'
<1>. DEFINE np == nextPage
            low == LowInner(n)
            high == HighInner(n)
            key == n.keys[InnerMid(n)]
            up == [left |-> p, key |-> key, right |-> np]
            W == Reparent(high.ptrs, np)
            V == <<Write(p, low), Write(np, high)>>
<1>1. /\ p \in 1 .. np - 1 /\ p # climb.right /\ Typed(pages[p])
      /\ Formed(n) /\ ~ n.leaf /\ n.parent = pages[p].parent /\ Len(n.keys) = Len(pages[p].keys) + 1
    BY LinkedTree
<1>2. PICK T \in [PageId -> Node] :
          /\ T[p] = n /\ \A q \in PageId : q # p => T[q] = pages[q]
          /\ \E level : /\ Shape(T, level, np, NoClimb)
                        /\ Ways(T, level, np, NoClimb, RootInUse, entries)
    BY LinkedTree
<1>3. PICK level : Shape(T, level, np, NoClimb) /\ Ways(T, level, np, NoClimb, RootInUse, entries)
    BY <1>2
<1>4. w.id = climb.right /\ w.node = pages[climb.right] /\ w \in Good(entries)
    BY <1>1, WrittenAgain
<1>5. /\ climb.right \in PageId /\ 1 .. np - 1 \subseteq PageId /\ RootInUse \in 1 .. np - 1
      /\ ~ failed /\ np \in 1 .. MaxPages - 1 /\ np + 1 \in 2 .. MaxPages /\ np \in PageId /\ np \in Nat
      /\ np \notin 1 .. np - 1
    BY ClimbStart
<1>6. Len(n.keys) = Order + 1 /\ Len(n.keys) >= 3
    <2>1. Len(n.keys) \in Nat /\ Len(pages[p].keys) \in Nat
        BY <1>1, NodeFacts DEF Typed
    <2>2. Len(pages[p].keys) <= Order
        BY <1>1 DEF Typed
    <2>. QED
        BY <1>1, <2>1, <2>2, OrderFacts DEF IsOver
<1>7. queue' = <<w>> \o W \o V /\ climb' = up /\ nextPage' = np + 1
    BY DEF SplitInternal, LowInner, HighInner, InnerMid
<1>8. /\ low = LowInner(n) /\ high = HighInner(n) /\ key = n.keys[InnerMid(n)]
      /\ up = [left |-> p, key |-> key, right |-> np] /\ W = Reparent(high.ptrs, np)
      /\ V = <<Write(p, low), Write(np, high)>>
    OBVIOUS
<1>. HIDE DEF low, high, key, up, W, V
<1>9. /\ pages \in [PageId -> Node] /\ p \in PageId
      /\ \A q \in PageId : Formed(pages[q]) /\ pages[q] \in Node
    BY <1>1, <1>5 DEF IInv, NodesInv, Typed, Formed
<1>10. PICK U : /\ U = [q \in PageId |-> U[q]]
                /\ \A q \in PageId : U[q] = IF \E j \in DOMAIN high.ptrs : high.ptrs[j] = q
                                            THEN [pages[q] EXCEPT !.parent = np] ELSE pages[q]
    <2>. DEFINE X == [q \in PageId |-> IF \E j \in DOMAIN high.ptrs : high.ptrs[j] = q
                                       THEN [pages[q] EXCEPT !.parent = np] ELSE pages[q]]
    <2>1. /\ X = [q \in PageId |-> X[q]]
          /\ \A q \in PageId : X[q] = IF \E j \in DOMAIN high.ptrs : high.ptrs[j] = q
                                      THEN [pages[q] EXCEPT !.parent = np] ELSE pages[q]
        OBVIOUS
    <2>. HIDE DEF X
    <2>. QED
        BY <2>1
<1>11. PICK S : /\ S = [q \in PageId |-> S[q]] /\ S[p] = low /\ S[np] = high
                /\ \A q \in PageId : q # p /\ q # np => S[q] = U[q]
    <2>. DEFINE X == [q \in PageId |-> IF q = p THEN low ELSE IF q = np THEN high ELSE U[q]]
    <2>1. /\ X = [q \in PageId |-> X[q]] /\ X[p] = low /\ X[np] = high
          /\ \A q \in PageId : q # p /\ q # np => X[q] = U[q]
        BY <1>1, <1>5, <1>9
    <2>. HIDE DEF X
    <2>. QED
        BY <2>1
<1>12. /\ Formed(low) /\ ~ low.leaf /\ Len(low.keys) = InnerMid(n) - 1
       /\ Formed(high) /\ ~ high.leaf /\ Len(high.keys) = Len(n.keys) - InnerMid(n)
       /\ InnerMid(n) \in 2 .. Len(n.keys) - 1 /\ key \in Key
       /\ \A j \in DOMAIN high.ptrs : high.ptrs[j] \in 1 .. np - 1 /\ high.ptrs[j] # p
       /\ Halved(T, S, np, up, RootInUse, entries)
    <2>1. \A q \in 1 .. np - 1 : q # p =>
              S[q] = IF \E j \in DOMAIN high.ptrs : high.ptrs[j] = q THEN [T[q] EXCEPT !.parent = np] ELSE T[q]
        BY <1>2, <1>5, <1>10, <1>11
    <2>2. InnerHalves(T, S, np, p, n, low, high, key, RootInUse, entries)
        BY <1>1, <1>2, <1>3, <1>5, <1>6, <1>8, <1>11, <2>1, SplitInner
    <2>. QED
        BY <1>8, <2>2 DEF InnerHalves
<1>13. Typed(low) /\ Typed(high) /\ Honest(low, entries) /\ Honest(high, entries)
    BY <1>6, <1>12, OrderFacts DEF Typed, Honest
<1>14. high.ptrs \in Seq(PageId)
    BY <1>12 DEF Formed
<1>15. /\ W \in Seq(Good(entries)) /\ DOMAIN W = DOMAIN high.ptrs
       /\ \A j \in DOMAIN high.ptrs : W[j].id = high.ptrs[j] /\ W[j].node = [pages[high.ptrs[j]] EXCEPT !.parent = np]
    <2>. DEFINE c == high.ptrs
    <2>1. c \in Seq(PageId) /\ np \in PageId /\ NodesInv
        BY <1>5, <1>14 DEF IInv
    <2>. HIDE DEF c
    <2>2. /\ Reparent(c, np) \in Seq(Good(entries)) /\ DOMAIN Reparent(c, np) = DOMAIN c
          /\ \A j \in DOMAIN c : /\ Reparent(c, np)[j].id = c[j]
                                 /\ Reparent(c, np)[j].node = [pages[c[j]] EXCEPT !.parent = np]
        BY <2>1, ReparentFacts
    <2>. QED
        BY <1>8, <2>2 DEF c
<1>16. /\ V \in Seq(Good(entries)) /\ DOMAIN V = {1, 2} /\ V[1].id = p /\ V[1].node = low
       /\ V[2].id = np /\ V[2].node = high
    <2>1. Write(p, low) \in Good(entries) /\ Write(np, high) \in Good(entries)
        BY <1>5, <1>9, <1>12, <1>13 DEF Good, Write, Formed
    <2>2. \A x, y \in Good(entries) : /\ <<x, y>> \in Seq(Good(entries)) /\ DOMAIN <<x, y>> = {1, 2}
                                      /\ <<x, y>>[1] = x /\ <<x, y>>[2] = y
        OBVIOUS
    <2>3. V = <<Write(p, low), Write(np, high)>>
        BY <1>8
    <2>4. V \in Seq(Good(entries)) /\ DOMAIN V = {1, 2} /\ V[1] = Write(p, low) /\ V[2] = Write(np, high)
        BY <2>1, <2>2, <2>3, ZenonT(60)
    <2>. QED
        BY <2>4 DEF Write
<1>17. U \in [PageId -> Node] /\ S \in [PageId -> Node]
    <2>1. ASSUME NEW q \in PageId PROVE U[q] \in Node
        <3>1. pages[q] \in Node /\ [pages[q] EXCEPT !.parent = np] \in Node
            BY <1>5, <1>9, ZenonT(60) DEF Node
        <3>. QED
            BY <1>10, <3>1
    <2>2. \A q \in PageId : S[q] \in Node
        BY <1>11, <1>12, <2>1 DEF Formed
    <2>. QED
        BY <1>10, <1>11, <2>1, <2>2
<1>18. Becomes(pages, <<w>>, pages)
    <2>1. <<w>> \in Seq(Good(entries)) /\ DOMAIN <<w>> = {1} /\ <<w>>[1] = w
        BY <1>4
    <2>2. \A j \in DOMAIN <<w>> : pages[<<w>>[j].id] = <<w>>[j].node
        BY <1>4, <2>1
    <2>. QED
        BY <1>9, <2>1, <2>2, BecomesAll
<1>19. Becomes(pages, <<w>> \o W, U)
    <2>1. ASSUME NEW j \in DOMAIN W PROVE U[W[j].id] = W[j].node
        <3>1. j \in DOMAIN high.ptrs /\ high.ptrs[j] \in PageId
            BY <1>5, <1>12, <1>15
        <3>2. U[high.ptrs[j]] = [pages[high.ptrs[j]] EXCEPT !.parent = np]
            BY <1>10, <3>1
        <3>. QED
            BY <1>15, <3>1, <3>2
    <2>2. \A q \in PageId : (\A j \in DOMAIN W : W[j].id # q) => U[q] = pages[q]
        BY <1>10, <1>15
    <2>3. <<w>> \in Seq(Good(entries))
        BY <1>4
    <2>. QED
        BY <1>15, <1>17, <1>18, <2>1, <2>2, <2>3, BecomesMore, ZenonT(60)
<1>20. queue' \in Seq(Good(entries)) /\ Becomes(pages, queue', S)
    <2>1. <<w>> \in Seq(Good(entries)) /\ <<w>> \o W \in Seq(Good(entries))
        BY <1>4, <1>15, ConcatProperties
    <2>2. \A j \in DOMAIN V : S[V[j].id] = V[j].node
        BY <1>11, <1>16
    <2>3. \A q \in PageId : (\A j \in DOMAIN V : V[j].id # q) => S[q] = U[q]
        BY <1>11, <1>16
    <2>4. Becomes(pages, (<<w>> \o W) \o V, S)
        BY <1>16, <1>17, <1>19, <2>1, <2>2, <2>3, BecomesMore
    <2>5. (<<w>> \o W) \o V \in Seq(Good(entries))
        BY <1>16, <2>1, ConcatProperties
    <2>. QED
        BY <1>7, <2>4, <2>5
<1>21. NodesInv'
    BY <1>20, GoodQueue DEF NodesInv, IInv
<1>22. RootInUse' = RootInUse
    BY DEF RootInUse
<1>23. PICK lv : Shape(S, lv, np + 1, up) /\ Ways(S, lv, np + 1, up, RootInUse, entries)
    BY <1>12 DEF Halved
<1>24. Tree(S, lv)'
    <2>1. \A q \in 1 .. np - 1 : S[q].parent = NoPage <=> pages[q].parent = NoPage
        BY <1>1, <1>2, <1>5, <1>12 DEF Halved
    <2>2. rootID \in 1 .. np - 1 /\ (catRoot = NoPage => pages[rootID].parent = NoPage)
        BY <1>5, ClimbStart DEF IInv, RootsInv, Tree
    <2>. QED
        BY <1>7, <1>20, <1>22, <1>23, <2>1, <2>2 DEF Tree
<1>25. RootsInv'
    <2>1. up \in Climb
        BY <1>5, <1>8, <1>9, <1>12 DEF Climb
    <2>2. rootID' \in 1 .. nextPage' - 1 /\ catRoot' \in (1 .. nextPage' - 1) \cup {NoPage}
        BY <1>5, <1>7 DEF RootsInv, IInv
    <2>. QED
        BY <1>5, <1>7, <2>1, <2>2 DEF RootsInv, IInv
<1>. QED
    BY <1>21, <1>24, <1>25 DEF IInv, TreeInv

\* createNewRoot: where the catalog has a root, that root is lost.
LEMMA CrownStep ==
    ASSUME IInv, queue = <<>>, climb # NoClimb, nextPage < MaxPages, pages[climb.left].parent = NoPage,
           CreateNewRoot(climb.left, climb.key, climb.right), UNCHANGED <<pages, catRoot, failed, entries>>
    PROVE  IInv'
<1>. DEFINE np == nextPage
            left == climb.left
            right == climb.right
            root == [leaf |-> FALSE, keys |-> <<climb.key>>, ptrs |-> <<climb.left, climb.right>>,
                     parent |-> NoPage, next |-> NoPage]
            a == [pages[left] EXCEPT !.parent = np]
            b == [pages[right] EXCEPT !.parent = np]
<1>1. PICK level : Tree(pages, level) /\ Shape(pages, level, np, climb)
    BY ClimbStart
<1>2. /\ ~ failed /\ climb \in Climb /\ np \in 1 .. MaxPages - 1 /\ np + 1 \in 2 .. MaxPages
      /\ left \in 1 .. np - 1 /\ right \in 1 .. np - 1 /\ left # right /\ climb.key \in Key
      /\ pages[right].parent = NoPage /\ left \in PageId /\ right \in PageId
      /\ RootInUse \in 1 .. np - 1 /\ 1 .. np - 1 \subseteq PageId /\ np \in PageId
      /\ np \in Nat /\ np \notin 1 .. np - 1 /\ np # NoPage
    BY ClimbStart, BTreeAssumption
<1>3. /\ queue' = <<Write(left, a), Write(right, b), Write(np, root)>> /\ climb' = NoClimb
      /\ nextPage' = np + 1 /\ rootID' = np
    BY DEF CreateNewRoot
<1>4. pages \in [PageId -> Node] /\ \A q \in PageId : Typed(pages[q]) /\ Honest(pages[q], entries)
    BY DEF IInv, NodesInv
<1>5. /\ Formed(a) /\ a.leaf = pages[left].leaf /\ a.keys = pages[left].keys /\ a.ptrs = pages[left].ptrs
      /\ a.parent = np /\ a.next = pages[left].next /\ Honest(a, entries)
    BY <1>2, <1>4, Reparented DEF Typed
<1>6. /\ Formed(b) /\ b.leaf = pages[right].leaf /\ b.keys = pages[right].keys /\ b.ptrs = pages[right].ptrs
      /\ b.parent = np /\ b.next = pages[right].next /\ Honest(b, entries)
    BY <1>2, <1>4, Reparented DEF Typed
<1>7. /\ ~ root.leaf /\ root.keys = <<climb.key>> /\ root.ptrs = <<left, right>> /\ root.parent = NoPage
      /\ Formed(root) /\ Len(root.keys) = 1
    <2>1. root \in Node /\ root.ptrs \in Seq(PageId)
        BY <1>2 DEF Node
    <2>. QED
        BY <2>1 DEF Formed
<1>. HIDE DEF a, b, root
<1>8. Typed(a) /\ Typed(b) /\ Typed(root) /\ Honest(root, entries)
    BY <1>2, <1>4, <1>5, <1>6, <1>7, OrderFacts DEF Typed, Honest
<1>9. /\ queue' \in Seq(Good(entries)) /\ DOMAIN queue' = {1, 2, 3}
      /\ queue'[1].id = left /\ queue'[1].node = a /\ queue'[2].id = right /\ queue'[2].node = b
      /\ queue'[3].id = np /\ queue'[3].node = root
    <2>1. /\ Write(left, a) \in Good(entries) /\ Write(right, b) \in Good(entries)
          /\ Write(np, root) \in Good(entries)
        BY <1>2, <1>5, <1>6, <1>7, <1>8 DEF Good, Write, Formed
    <2>. QED
        BY <1>3, <2>1 DEF Write
<1>10. PICK S \in [PageId -> Node] :
           /\ S[left] = a /\ S[right] = b /\ S[np] = root
           /\ \A q \in PageId : q # left /\ q # right /\ q # np => S[q] = pages[q]
    <2>. DEFINE X == [q \in PageId |-> IF q = left THEN a ELSE IF q = right THEN b
                                       ELSE IF q = np THEN root ELSE pages[q]]
    <2>1. X \in [PageId -> Node]
        BY <1>4, <1>5, <1>6, <1>7 DEF Formed
    <2>2. /\ X[left] = a /\ X[right] = b /\ X[np] = root
          /\ \A q \in PageId : q # left /\ q # right /\ q # np => X[q] = pages[q]
        BY <1>2
    <2>. HIDE DEF X
    <2>. QED
        BY <2>1, <2>2
<1>11. NodesInv'
    BY <1>9, GoodQueue DEF NodesInv, IInv
<1>12. Becomes(pages', queue', S)
    <2>1. \A j \in DOMAIN queue' : S[queue'[j].id] = queue'[j].node
        BY <1>9, <1>10
    <2>2. \A q \in PageId : (\A j \in DOMAIN queue' : queue'[j].id # q) => S[q] = pages[q]
        BY <1>9, <1>10
    <2>. QED
        BY <1>4, <1>9, <2>1, <2>2, BecomesAll
<1>13. Crowned(pages, S, np, climb)
    <2>1. \A q \in 1 .. np - 1 :
              /\ S[q].leaf = pages[q].leaf /\ S[q].keys = pages[q].keys /\ S[q].ptrs = pages[q].ptrs
              /\ S[q].parent = IF q = left \/ q = right THEN np ELSE pages[q].parent
              /\ S[q].next = pages[q].next
        BY <1>2, <1>5, <1>6, <1>10
    <2>. QED
        BY <1>7, <1>10, <2>1 DEF Crowned
<1>14. PICK lv \in [PageId -> Nat] : lv[np] = level[left] + 1 /\ \A q \in 1 .. np - 1 : lv[q] = level[q]
    <2>. DEFINE X == [level EXCEPT ![np] = level[left] + 1]
    <2>1. level \in [PageId -> Nat]
        BY <1>1 DEF Shape, LevelsInv
    <2>2. X \in [PageId -> Nat] /\ X[np] = level[left] + 1 /\ \A q \in 1 .. np - 1 : X[q] = level[q]
        BY <1>2, <2>1
    <2>. HIDE DEF X
    <2>. QED
        BY <2>2
<1>15. Shape(S, lv, np + 1, NoClimb)
    BY <1>1, <1>2, <1>13, <1>14, CrownShape
<1>16. ASSUME catRoot = NoPage PROVE Tree(S, lv)'
    <2>1. RootInUse' = np /\ RootInUse = rootID
        BY <1>3, <1>16 DEF RootInUse
    <2>2. pages[RootInUse].parent = NoPage
        BY <1>1, <1>16, <2>1 DEF Tree
    <2>3. PICK R : Routes(pages, level, R, np, climb, RootInUse, entries)
        BY <1>1, <2>2 DEF Tree, Ways
    <2>4. PICK Q \in [PageId -> SUBSET Key] : Q[np] = Key /\ \A q \in 1 .. np - 1 : Q[q] = R[q]
        <3>. DEFINE X == [q \in PageId |-> IF q = np THEN Key ELSE R[q]]
        <3>1. R \in [PageId -> SUBSET Key]
            BY <2>3 DEF Routes, RootRoutes
        <3>2. X \in [PageId -> SUBSET Key] /\ X[np] = Key /\ \A q \in 1 .. np - 1 : X[q] = R[q]
            BY <1>2, <3>1
        <3>. HIDE DEF X
        <3>. QED
            BY <3>2
    <2>5. Formed(S[np])
        BY <1>7, <1>10
    <2>6. Routes(S, lv, Q, np + 1, NoClimb, np, entries)
        <3>1. np \in 1 .. MaxPages - 1 /\ climb \in Climb /\ RootInUse \in 1 .. np - 1
              /\ Shape(pages, level, np, climb) /\ lv[np] = level[climb.left] + 1
              /\ SameBelow(np, lv, level) /\ SameBelow(np, Q, R)
            BY <1>1, <1>2, <1>14, <2>4 DEF SameBelow
        <3>. QED
            BY <1>13, <1>14, <2>3, <2>4, <2>5, <3>1, CrownKeeps
    <2>7. S[rootID'].parent = NoPage
        BY <1>3, <1>7, <1>10
    <2>. QED
        BY <1>3, <1>12, <1>15, <2>1, <2>6, <2>7 DEF Tree, Ways
<1>17. ASSUME catRoot # NoPage PROVE Tree(S, lv)'
    <2>1. RootInUse' = RootInUse
        BY <1>17 DEF RootInUse
    <2>2. ASSUME S[RootInUse].parent = NoPage PROVE FALSE
        <3>1. RootInUse # left /\ RootInUse # right
            BY <1>2, <1>5, <1>6, <1>10, <2>2
        <3>2. pages[RootInUse].parent = NoPage
            BY <1>2, <1>10, <2>2, <3>1
        <3>3. PICK R : Routes(pages, level, R, np, climb, RootInUse, entries)
            BY <1>1, <3>2 DEF Tree, Ways
        <3>4. left = RootInUse
            BY <1>2, <3>3 DEF Routes, RootRoutes, Unlinked
        <3>. QED
            BY <3>1, <3>4
    <2>. QED
        BY <1>3, <1>12, <1>15, <1>17, <2>1, <2>2 DEF Tree, Ways
<1>18. Tree(S, lv)'
    BY <1>16, <1>17
<1>19. RootsInv'
    <2>1. rootID' \in 1 .. nextPage' - 1
        BY <1>2, <1>3
    <2>2. catRoot' \in (1 .. nextPage' - 1) \cup {NoPage}
        BY <1>2, <1>3 DEF RootsInv, IInv
    <2>. QED
        BY <1>2, <1>3, <2>1, <2>2 DEF RootsInv, IInv
<1>. QED
    BY <1>11, <1>18, <1>19 DEF IInv, TreeInv

\* Each case of the climb.
LEMMA ClimbStep == ASSUME IInv, ClimbUp PROVE IInv'
<1>1. queue = <<>> /\ climb # NoClimb /\ nextPage < MaxPages /\ UNCHANGED <<pages, catRoot, failed, entries>>
    BY DEF ClimbUp
<1>2. CASE pages[climb.left].parent = NoPage /\ CreateNewRoot(climb.left, climb.key, climb.right)
    BY <1>1, <1>2, CrownStep
<1>3. CASE /\ pages[climb.left].parent # NoPage
           /\ InsertIntoParent(climb.left, climb.key, climb.right) /\ UNCHANGED rootID
    <2>. DEFINE p == pages[climb.left].parent
                i == CHOOSE j \in DOMAIN pages[p].ptrs : pages[p].ptrs[j] = climb.left
                n == Wider(pages[p], i, climb.key, climb.right)
                w == Write(climb.right, [pages[climb.right] EXCEPT !.parent = p])
    <2>1. \E j \in DOMAIN pages[p].ptrs : pages[p].ptrs[j] = climb.left
        BY <1>1, <1>3, ParentOfLeft
    <2>2. i \in DOMAIN pages[p].ptrs /\ pages[p].ptrs[i] = climb.left
        BY <2>1
    <2>3. \/ ~ IsOver(n) /\ queue' = <<w, Write(p, n)>> /\ climb' = NoClimb /\ UNCHANGED nextPage
          \/ IsOver(n) /\ SplitInternal(p, n, w)
        BY <1>3 DEF InsertIntoParent, Wider
    <2>4. p = pages[climb.left].parent
        OBVIOUS
    <2>. HIDE DEF i
    <2>5. n = Wider(pages[p], i, climb.key, climb.right)
        OBVIOUS
    <2>6. w = Write(climb.right, [pages[climb.right] EXCEPT !.parent = p])
        OBVIOUS
    <2>. HIDE DEF p, n, w
    <2>7. CASE ~ IsOver(n) /\ queue' = <<w, Write(p, n)>> /\ climb' = NoClimb /\ UNCHANGED nextPage
        BY <1>1, <1>3, <2>2, <2>4, <2>5, <2>6, <2>7, LinkStep
    <2>8. CASE IsOver(n) /\ SplitInternal(p, n, w)
        BY <1>1, <1>3, <2>2, <2>4, <2>5, <2>6, <2>8, SplitInternalStep
    <2>. QED
        BY <2>3, <2>7, <2>8
<1>. QED
    BY <1>2, <1>3 DEF ClimbUp

\* A write of the queue.
LEMMA WriteStep == ASSUME IInv, WriteNode PROVE IInv'
<1>. DEFINE h == Head(queue)
<1>1. /\ queue # <<>> /\ pages' = [pages EXCEPT ![h.id] = h.node] /\ queue' = Tail(queue)
      /\ UNCHANGED <<nextPage, rootID, catRoot, climb, failed, entries>> /\ RootInUse' = RootInUse
    BY DEF WriteNode, RootInUse
<1>2. NodesInv /\ RootsInv /\ TreeInv /\ ~ failed
    BY <1>1 DEF IInv, RootsInv, Idle
<1>3. queue \in Seq(Good(entries)) /\ h \in Good(entries) /\ Tail(queue) \in Seq(Good(entries))
    BY <1>1, <1>2, QueueIsGood, HeadTailProperties
<1>4. h.id \in PageId /\ h.node \in Node /\ Typed(h.node) /\ Honest(h.node, entries)
    BY <1>3 DEF Good
<1>. HIDE DEF h
<1>5. NodesInv'
    <2>1. /\ pages' \in [PageId -> Node]
          /\ \A p \in PageId : Typed(pages'[p]) /\ Honest(pages'[p], entries)
        BY <1>1, <1>2, <1>4 DEF NodesInv
    <2>. QED
        BY <1>1, <1>3, <2>1, GoodQueue DEF NodesInv
<1>6. RootsInv'
    BY <1>1, <1>2 DEF RootsInv
<1>7. PICK T, level : Tree(T, level)
    BY <1>2 DEF TreeInv
<1>8. Becomes(pages', queue', T)
    <2>1. pages \in [PageId -> Node] /\ queue \in Seq([id : PageId, node : Node]) /\ Becomes(pages, queue, T)
        BY <1>2, <1>7 DEF NodesInv, Tree
    <2>. QED
        BY <1>1, <2>1, BecomesWritten DEF h
<1>9. Tree(T, level)'
    BY <1>1, <1>7, <1>8 DEF Tree
<1>. QED
    BY <1>5, <1>6, <1>9 DEF IInv, TreeInv

\* A failure: only the nodes matter from then on.
LEMMA FailStep == ASSUME IInv, InsertFails PROVE IInv'
<1>. DEFINE h == Head(queue)
<1>1. /\ queue' = <<>> /\ climb' = NoClimb /\ failed' = TRUE
      /\ UNCHANGED <<nextPage, rootID, catRoot, entries>>
      /\ pages' = pages \/ (queue # <<>> /\ pages' = [pages EXCEPT ![h.id] = h.node])
    BY DEF InsertFails
<1>2. NodesInv /\ RootsInv
    BY DEF IInv
<1>3. pages' \in [PageId -> Node] /\ \A p \in PageId : Typed(pages'[p]) /\ Honest(pages'[p], entries)
    <2>1. CASE pages' = pages
        BY <1>2, <2>1 DEF NodesInv
    <2>2. CASE queue # <<>> /\ pages' = [pages EXCEPT ![h.id] = h.node]
        <3>1. h \in Good(entries)
            BY <1>2, <2>2, QueueIsGood, HeadTailProperties
        <3>2. h.id \in PageId /\ h.node \in Node /\ Typed(h.node) /\ Honest(h.node, entries)
            BY <3>1 DEF Good
        <3>. HIDE DEF h
        <3>. QED
            BY <1>2, <2>2, <3>2 DEF NodesInv
    <2>. QED
        BY <1>1, <2>1, <2>2
<1>4. NodesInv'
    BY <1>1, <1>3 DEF NodesInv
<1>5. RootsInv' /\ TreeInv'
    BY <1>1, <1>2 DEF RootsInv, TreeInv, Idle
<1>. QED
    BY <1>4, <1>5 DEF IInv

\* The catalog gets the root.
LEMMA RegisterStep == ASSUME IInv, Register PROVE IInv'
<1>1. /\ ~ failed /\ catRoot = NoPage /\ catRoot' = rootID
      /\ UNCHANGED <<pages, nextPage, rootID, queue, climb, failed, entries>>
    BY DEF Register
<1>2. NodesInv /\ RootsInv /\ TreeInv
    BY DEF IInv
<1>3. RootInUse' = RootInUse /\ catRoot' # NoPage
    BY <1>1, <1>2, BTreeAssumption DEF RootInUse, RootsInv
<1>4. PICK T, level : Tree(T, level)
    BY <1>1, <1>2 DEF TreeInv
<1>5. Tree(T, level)'
    BY <1>1, <1>3, <1>4 DEF Tree
<1>6. NodesInv'
    BY <1>1, <1>2 DEF NodesInv
<1>7. RootsInv'
    BY <1>1, <1>2 DEF RootsInv, Idle
<1>. QED
    BY <1>5, <1>6, <1>7 DEF IInv, TreeInv

\* An empty leaf is a tree.
LEMMA FirstState == ASSUME Init PROVE IInv
<1>1. /\ pages = [p \in PageId |-> IF p = 1 THEN EmptyLeaf ELSE Zero] /\ nextPage = 2 /\ rootID = 1
      /\ catRoot = NoPage /\ queue = <<>> /\ climb = NoClimb /\ failed = FALSE
      /\ entries = [k \in Key |-> NoValue]
    BY DEF Init
<1>2. 0 \in PageId /\ 1 \in PageId /\ NoPage \notin Nat /\ 2 \in 2 .. MaxPages
    BY BTreeAssumption DEF PageId
<1>3. /\ Typed(EmptyLeaf) /\ EmptyLeaf \in Node /\ EmptyLeaf.leaf /\ DOMAIN EmptyLeaf.keys = {}
      /\ EmptyLeaf.parent = NoPage /\ EmptyLeaf.next = NoPage /\ Sorted(EmptyLeaf)
    BY OrderFacts DEF EmptyLeaf, Typed, Formed, Node, Sorted
<1>4. Typed(Zero) /\ Zero \in Node /\ ~ Zero.leaf
    BY <1>2, OrderFacts DEF Zero, Typed, Formed, Node, Catalog
<1>5. Honest(EmptyLeaf, entries) /\ Honest(Zero, entries)
    BY <1>3, <1>4 DEF Honest
<1>. HIDE DEF EmptyLeaf, Zero
<1>6. NodesInv
    BY <1>1, <1>3, <1>4, <1>5 DEF NodesInv
<1>7. RootsInv
    BY <1>1, <1>2 DEF RootsInv, Idle
<1>. DEFINE level == [p \in PageId |-> 0]
            R == [p \in PageId |-> IF p = 1 THEN Key ELSE {}]
<1>8. /\ level \in [PageId -> Nat] /\ level[1] = 0 /\ R \in [PageId -> SUBSET Key] /\ R[1] = Key
      /\ pages[1] = EmptyLeaf
    BY <1>1, <1>2
<1>. HIDE DEF level, R
<1>9. 1 .. 2 - 1 = {1} /\ RootInUse = 1
    BY <1>1 DEF RootInUse
<1>10. Shape(pages, level, 2, NoClimb)
    BY <1>3, <1>8, <1>9 DEF Shape, LevelsInv, ParentsInv, ChildrenInv, HalvesInv
<1>11. Routes(pages, level, R, 2, NoClimb, 1, entries)
    <2>1. RootRoutes(pages, level, R, 2, NoClimb, 1)
        BY <1>3, <1>8, <1>9, NoClimbFacts DEF RootRoutes
    <2>2. KeyRoutes(pages, R, 2) /\ ChildRoutes(pages, R, 2, NoClimb)
        BY <1>3, <1>8, <1>9 DEF KeyRoutes, ChildRoutes
    <2>3. LeafRoutes(pages, R, 2, entries)
        BY <1>1, <1>8, <1>9 DEF LeafRoutes
    <2>4. Apart(level, R, 2) /\ CutRoutes(R, NoClimb)
        BY <1>9 DEF Apart, CutRoutes
    <2>5. NextRoutes(pages, R, 2)
        BY <1>3, <1>8, <1>9 DEF NextRoutes
    <2>. QED
        BY <2>1, <2>2, <2>3, <2>4, <2>5 DEF Routes
<1>12. Becomes(pages, queue, pages)
    BY <1>1, <1>6, BecomesNone DEF NodesInv
<1>13. Tree(pages, level)
    BY <1>1, <1>3, <1>8, <1>9, <1>10, <1>11, <1>12 DEF Tree, Ways
<1>. QED
    BY <1>6, <1>7, <1>13 DEF IInv, TreeInv

\* Every step keeps the invariant.
LEMMA AnyStep == ASSUME IInv, [Next]_vars PROVE IInv'
<1>1. ASSUME NEW k \in Key, NEW v \in PagesOf[k], Insert(k, v) PROVE IInv'
    BY <1>1, InsertStep
<1>2. CASE WriteNode
    BY <1>2, WriteStep
<1>3. CASE ClimbUp
    BY <1>3, ClimbStep
<1>4. CASE InsertFails
    BY <1>4, FailStep
<1>5. CASE Register
    BY <1>5, RegisterStep
<1>6. CASE UNCHANGED vars
    <2>1. /\ pages' = pages /\ nextPage' = nextPage /\ rootID' = rootID /\ catRoot' = catRoot /\ queue' = queue
          /\ climb' = climb /\ failed' = failed /\ entries' = entries
        BY <1>6 DEF vars
    <2>2. NodesInv' /\ RootsInv'
        BY <2>1 DEF IInv, NodesInv, RootsInv, Idle
    <2>3. RootInUse' = RootInUse
        BY <2>1 DEF RootInUse
    <2>4. TreeInv'
        BY <2>1, <2>3 DEF IInv, TreeInv, Tree
    <2>. QED
        BY <2>2, <2>4 DEF IInv
<1>. QED
    BY <1>1, <1>2, <1>3, <1>4, <1>5, <1>6 DEF Next

\* Every state that the index reaches has the invariant: whatever is still to be
\* written makes a tree, in which the keys find their ways from a root in use.
THEOREM IndexInvAlways == Spec => []IInv
<1>1. Init => IInv
    BY FirstState
<1>2. IInv /\ [Next]_vars => IInv'
    BY AnyStep
<1>. QED
    BY <1>1, <1>2, PTL DEF Spec

-----------------------------------------------------------------------------
(* What a scan finds.                                                      *)

\* What is expected of a range, key by key.
LEMMA ExpectedSteps ==
    ASSUME RootsInv, NEW low \in Key
    PROVE  \A k \in 0 .. MaxKey :
              /\ Expected(low, k) \in Seq(HeapPages)
              /\ k < low => Expected(low, k) = <<>>
              /\ ~ (k < low) => Expected(low, k) = IF entries[k] = NoValue THEN Expected(low, k - 1)
                                                   ELSE Append(Expected(low, k - 1), entries[k])
<1>. DEFINE Rec(upTo) ==
                upTo = [k \in 0 .. MaxKey |->
                    IF k < low THEN <<>>
                    ELSE IF entries[k] = NoValue THEN upTo[k - 1] ELSE Append(upTo[k - 1], entries[k])]
            F == [k \in 1 .. MaxKey |-> [s \in Seq(HeapPages) |->
                    IF k < low THEN <<>> ELSE IF entries[k] = NoValue THEN s ELSE Append(s, entries[k])]]
            upTo == CHOOSE upTo : Rec(upTo)
<1>0. MaxKey \in Nat /\ low \in Nat /\ 0 < low /\ \A k \in 1 .. MaxKey : entries[k] \in HeapPages \cup {NoValue}
    BY BTreeAssumption DEF RootsInv, Key
<1>1. /\ StepsOf(F, MaxKey, Seq(HeapPages)) /\ <<>> \in Seq(HeapPages)
      /\ \A k \in 1 .. MaxKey : \A s \in Seq(HeapPages) :
            F[k][s] = IF k < low THEN <<>> ELSE IF entries[k] = NoValue THEN s ELSE Append(s, entries[k])
    BY <1>0, AppendProperties DEF StepsOf
<1>. HIDE DEF F
<1>2. PICK f : Goes(f, MaxKey, Seq(HeapPages), <<>>, F)
    BY <1>0, <1>1, Iteration
<1>3. f \in [0 .. MaxKey -> Seq(HeapPages)] /\ f[0] = <<>>
      /\ \A k \in 1 .. MaxKey : f[k] = IF k < low THEN <<>>
            ELSE IF entries[k] = NoValue THEN f[k - 1] ELSE Append(f[k - 1], entries[k])
    <2>1. \A k \in 1 .. MaxKey : k - 1 \in 0 .. MaxKey
        BY <1>0
    <2>. QED
        BY <1>1, <1>2, <2>1 DEF Goes
<1>4. Rec(f)
    <2>1. ASSUME NEW k \in 0 .. MaxKey
          PROVE  f[k] = IF k < low THEN <<>>
                        ELSE IF entries[k] = NoValue THEN f[k - 1] ELSE Append(f[k - 1], entries[k])
        <3>1. k = 0 \/ k \in 1 .. MaxKey
            BY <1>0
        <3>2. CASE k = 0
            BY <1>0, <1>3, <3>2
        <3>. QED
            BY <1>3, <3>1, <3>2
    <2>2. f = [k \in 0 .. MaxKey |-> f[k]]
        BY <1>3
    <2>. QED
        BY <2>1, <2>2, Zenon
<1>5. Rec(upTo)
    BY <1>4
<1>6. \A k : Expected(low, k) = upTo[k]
    BY DEF Expected
<1>. HIDE DEF upTo
<1>7. \A k \in 0 .. MaxKey : upTo[k] = IF k < low THEN <<>>
            ELSE IF entries[k] = NoValue THEN upTo[k - 1] ELSE Append(upTo[k - 1], entries[k])
    BY <1>5
<1>8. upTo = [k \in 0 .. MaxKey |-> upTo[k]]
    BY <1>5
<1>9. upTo \in [0 .. MaxKey -> Seq(HeapPages)]
    <2>1. upTo[0] \in Seq(HeapPages)
        <3>1. 0 \in 0 .. MaxKey /\ 0 < low
            BY <1>0
        <3>2. upTo[0] = <<>>
            BY <1>7, <3>1
        <3>. QED
            BY <1>1, <3>2
    <2>2. ASSUME NEW k \in 1 .. MaxKey, upTo[k - 1] \in Seq(HeapPages) PROVE upTo[k] \in Seq(HeapPages)
        <3>1. k \in 0 .. MaxKey
            BY <1>0
        <3>2. entries[k] # NoValue => Append(upTo[k - 1], entries[k]) \in Seq(HeapPages)
            BY <1>0, <2>2, AppendProperties
        <3>. QED
            BY <1>1, <1>7, <2>2, <3>1, <3>2
    <2>. QED
        BY <1>0, <1>8, <2>1, <2>2, StaysIn
<1>10. \A k \in 0 .. MaxKey : upTo[k] \in Seq(HeapPages)
    BY <1>9
<1>. QED
    BY <1>6, <1>7, <1>10

\* A greater key has no place before that of a smaller one.
LEMMA PlaceGrows ==
    ASSUME NEW n \in Node, NEW k \in Nat, NEW m \in Nat, k <= m
    PROVE  Place(n, k) <= Place(n, m)
<1>. DEFINE i == Place(n, k)
            j == Place(n, m)
<1>1. i \in 1 .. Len(n.keys) + 1 /\ \A x \in 1 .. i - 1 : n.keys[x] < k
    BY PlaceFacts
<1>2. j \in 1 .. Len(n.keys) + 1 /\ (j <= Len(n.keys) => n.keys[j] >= m)
    BY PlaceFacts
<1>3. Len(n.keys) \in Nat /\ \A x \in 1 .. Len(n.keys) : n.keys[x] \in Nat
    BY LenProperties, BTreeAssumption DEF Node, Key
<1>. HIDE DEF i, j
<1>4. ~ (j < i)
    <2>. SUFFICES ASSUME j < i PROVE FALSE
        OBVIOUS
    <2>1. j \in 1 .. i - 1 /\ j \in 1 .. Len(n.keys)
        BY <1>1, <1>2, <1>3
    <2>. QED
        BY <1>1, <1>2, <1>3, <2>1
<1>. QED
    BY <1>1, <1>2, <1>3, <1>4 DEF i, j

\* What a scan takes from leaf n for the keys from low to j.
Taken(n, low, j) == SubSeq(n.ptrs, Place(n, low), Place(n, j + 1) - 1)

\* These are pointers of the leaf.
LEMMA TakenFacts ==
    ASSUME NEW n, Formed(n), NEW low \in Key, NEW j \in Nat, low <= j + 1
    PROVE  Taken(n, low, j) \in Seq(PageId \cup HeapPages)
<1>1. n \in Node /\ low \in Nat /\ j + 1 \in Nat
    BY BTreeAssumption DEF Formed, Key
<1>2. /\ Place(n, low) \in 1 .. Len(n.keys) + 1 /\ Place(n, j + 1) \in 1 .. Len(n.keys) + 1
      /\ Place(n, low) <= Place(n, j + 1)
    BY <1>1, PlaceFacts, PlaceGrows
<1>3. /\ Len(n.keys) \in Nat /\ Len(n.ptrs) \in Nat /\ Len(n.keys) <= Len(n.ptrs)
      /\ n.ptrs \in Seq(PageId \cup HeapPages)
    BY NodeFacts
<1>. QED
    BY <1>2, <1>3, SubSeqFacts DEF Taken

\* The states of a scan.
ScanState == [at : PageId \cup {NoPage}, out : Seq(PageId \cup HeapPages)]

\* A scan takes values that the leaves have.
LEMMA ScanLeafFacts ==
    ASSUME NodesInv, NEW low \in Key, NEW high \in Key, low <= high, NEW s \in ScanState
    PROVE  /\ ScanLeaf(s, low, high) \in ScanState
           /\ s.at = NoPage => ScanLeaf(s, low, high) = s
           /\ s.at # NoPage =>
                 ScanLeaf(s, low, high) =
                     [at |-> IF \E i \in DOMAIN pages[s.at].keys : pages[s.at].keys[i] > high
                             THEN NoPage ELSE pages[s.at].next,
                      out |-> s.out \o Taken(pages[s.at], low, high)]
<1>. DEFINE n == pages[s.at]
            V == PageId \cup HeapPages
<1>1. /\ s.at = NoPage => ScanLeaf(s, low, high) = s
      /\ s.at # NoPage => ScanLeaf(s, low, high) =
            [at |-> IF \E i \in DOMAIN n.keys : n.keys[i] > high THEN NoPage ELSE n.next,
             out |-> s.out \o Taken(n, low, high)]
    BY DEF ScanLeaf, Taken
<1>2. CASE s.at = NoPage
    BY <1>1, <1>2
<1>3. CASE s.at # NoPage
    <2>1. s.at \in PageId /\ s.out \in Seq(V)
        BY <1>3 DEF ScanState
    <2>2. Formed(n) /\ n \in Node
        BY <2>1 DEF NodesInv, Typed
    <2>3. n.next \in PageId \cup {NoPage} /\ n.ptrs \in Seq(V)
        BY <2>2 DEF Node
    <2>. HIDE DEF n
    <2>4. Taken(n, low, high) \in Seq(V)
        <3>1. high \in Nat /\ low <= high + 1
            BY BTreeAssumption DEF Key
        <3>. QED
            BY <2>2, <3>1, TakenFacts
    <2>5. s.out \o Taken(n, low, high) \in Seq(V)
        BY <2>1, <2>4, ConcatProperties
    <2>6. [at |-> IF \E i \in DOMAIN n.keys : n.keys[i] > high THEN NoPage ELSE n.next,
           out |-> s.out \o Taken(n, low, high)] \in ScanState
        BY <2>3, <2>5 DEF ScanState
    <2>. QED
        BY <1>1, <1>3, <2>6 DEF n
<1>. QED
    BY <1>2, <1>3

\* RangeScan goes from leaf to leaf.
LEMMA ScanSteps ==
    ASSUME NodesInv, NEW from \in PageId, NEW low \in Key, NEW high \in Key, low <= high
    PROVE  \E scan \in [0 .. MaxPages -> ScanState] :
              /\ scan[0] = [at |-> FindLeaf(from, low), out |-> <<>>]
              /\ \A i \in 1 .. MaxPages : scan[i] = ScanLeaf(scan[i - 1], low, high)
              /\ RangeScan(from, low, high) = scan[MaxPages].out
<1>. DEFINE first == [at |-> FindLeaf(from, low), out |-> <<>>]
            Rec(scan) == scan = [i \in 0 .. MaxPages |->
                             IF i = 0 THEN [at |-> FindLeaf(from, low), out |-> <<>>]
                             ELSE ScanLeaf(scan[i - 1], low, high)]
            F == [i \in 1 .. MaxPages |-> [s \in ScanState |-> ScanLeaf(s, low, high)]]
            scan == CHOOSE scan : Rec(scan)
<1>0. MaxPages \in Nat
    BY BTreeAssumption
<1>1. first \in ScanState /\ \A s \in ScanState : ScanLeaf(s, low, high) \in ScanState
    <2>1. \A s \in ScanState : ScanLeaf(s, low, high) \in ScanState
        BY ScanLeafFacts
    <2>2. first \in ScanState
        BY FindLeafFacts, EmptySeq DEF ScanState
    <2>. QED
        BY <2>1, <2>2
<1>2. StepsOf(F, MaxPages, ScanState) /\ \A i \in 1 .. MaxPages : \A s \in ScanState : F[i][s] = ScanLeaf(s, low, high)
    BY <1>1 DEF StepsOf
<1>. HIDE DEF F
<1>3. PICK f : Goes(f, MaxPages, ScanState, first, F)
    BY <1>0, <1>1, <1>2, Iteration
<1>4. /\ f \in [0 .. MaxPages -> ScanState] /\ f[0] = first
      /\ \A i \in 1 .. MaxPages : f[i] = ScanLeaf(f[i - 1], low, high)
    <2>1. \A i \in 1 .. MaxPages : i - 1 \in 0 .. MaxPages
        BY <1>0
    <2>. QED
        BY <1>2, <1>3, <2>1 DEF Goes
<1>5. Rec(f)
    BY <1>0, <1>4
<1>6. Rec(scan)
    BY <1>5
<1>7. RangeScan(from, low, high) = scan[MaxPages].out
    BY DEF RangeScan
<1>. HIDE DEF scan
<1>8. scan[0] = first /\ \A i \in 1 .. MaxPages : scan[i] = ScanLeaf(scan[i - 1], low, high)
    <2>. DEFINE step(i) == IF i = 0 THEN first ELSE ScanLeaf(scan[i - 1], low, high)
    <2>1. scan = [i \in 0 .. MaxPages |-> step(i)]
        BY <1>6
    <2>. HIDE DEF step, first
    <2>2. \A i \in 0 .. MaxPages : scan[i] = step(i)
        BY <2>1
    <2>. QED
        BY <1>0, <2>2 DEF step
<1>9. scan = [i \in 0 .. MaxPages |-> scan[i]]
    BY <1>6
<1>10. scan \in [0 .. MaxPages -> ScanState]
    <2>1. scan[0] \in ScanState /\ \A i \in 1 .. MaxPages : scan[i - 1] \in ScanState => scan[i] \in ScanState
        BY <1>1, <1>8
    <2>. QED
        BY <1>0, <1>9, <2>1, StaysIn
<1>. QED
    BY <1>7, <1>8, <1>10

\* A key that leaf n has is taken with its value, and no other.
LEMMA TakenSteps ==
    ASSUME NEW n, Formed(n), n.leaf, Sorted(n), NEW low \in Key, NEW j \in Key, low <= j
    PROVE  /\ Has(n, j) => /\ Taken(n, low, j) = Taken(n, low, j - 1) \o <<n.ptrs[Place(n, j)]>>
                           /\ Place(n, j) \in DOMAIN n.keys /\ n.keys[Place(n, j)] = j
           /\ ~ Has(n, j) => Taken(n, low, j) = Taken(n, low, j - 1)
<1>. DEFINE l == Len(n.keys)
            p == Place(n, j)
            a == Place(n, low)
<1>1. n \in Node /\ low \in Nat /\ j \in Nat /\ j + 1 \in Nat /\ (j - 1) + 1 = j
    BY BTreeAssumption DEF Formed, Key
<1>2. /\ l \in Nat /\ DOMAIN n.keys = 1 .. l /\ Len(n.ptrs) = l /\ n.ptrs \in Seq(PageId \cup HeapPages)
      /\ \A x \in 1 .. l : n.keys[x] \in Nat
    BY NodeFacts
<1>3. /\ p \in 1 .. l + 1 /\ (\A x \in 1 .. p - 1 : n.keys[x] < j) /\ (p <= l => n.keys[p] >= j)
      /\ a \in 1 .. l + 1 /\ a <= p
    BY <1>1, PlaceFacts, PlaceGrows
<1>4. Has(n, j) => p \in 1 .. l /\ n.keys[p] = j
    BY KeyIsInPlace
<1>5. Taken(n, low, j) = SubSeq(n.ptrs, a, Place(n, j + 1) - 1) /\ Taken(n, low, j - 1) = SubSeq(n.ptrs, a, p - 1)
    BY <1>1 DEF Taken
<1>. HIDE DEF l, p, a
<1>6. ASSUME Has(n, j) PROVE Taken(n, low, j) = Taken(n, low, j - 1) \o <<n.ptrs[p]>>
    <2>1. p \in 1 .. l /\ n.keys[p] = j
        BY <1>4, <1>6
    <2>2. \A x \in 1 .. (p + 1) - 1 : n.keys[x] < j + 1
        <3>. SUFFICES ASSUME NEW x \in 1 .. p PROVE n.keys[x] < j + 1
            BY <2>1
        <3>1. x \in 1 .. l /\ (x = p \/ x \in 1 .. p - 1)
            BY <1>2, <2>1
        <3>. QED
            BY <1>1, <1>2, <1>3, <2>1, <3>1
    <2>3. p + 1 <= l => n.keys[p + 1] >= j + 1
        <3>. SUFFICES ASSUME p + 1 <= l PROVE n.keys[p + 1] >= j + 1
            OBVIOUS
        <3>1. p + 1 \in 1 .. l /\ p < p + 1
            BY <1>2, <2>1
        <3>2. n.keys[p] < n.keys[p + 1]
            BY <1>2, <2>1, <3>1 DEF Sorted
        <3>. QED
            BY <1>1, <1>2, <2>1, <3>1, <3>2
    <2>4. Place(n, j + 1) = p + 1
        <3>1. p + 1 \in 1 .. Len(n.keys) + 1 /\ (p + 1 <= Len(n.keys) => n.keys[p + 1] >= j + 1)
            BY <1>2, <2>1, <2>3 DEF l
        <3>. QED
            BY <1>1, <2>2, <3>1, PlaceIs
    <2>5. a \in 1 .. Len(n.ptrs) /\ p \in a .. Len(n.ptrs) /\ (p + 1) - 1 = p
        BY <1>2, <1>3, <2>1
    <2>6. SubSeq(n.ptrs, a, p) = SubSeq(n.ptrs, a, p - 1) \o <<n.ptrs[p]>>
        BY <1>2, <2>5, SubSeqRecursiveSecond
    <2>. QED
        BY <1>5, <2>4, <2>5, <2>6
<1>7. ASSUME ~ Has(n, j) PROVE Taken(n, low, j) = Taken(n, low, j - 1)
    <2>1. \A x \in 1 .. l : n.keys[x] # j
        BY <1>2, <1>7 DEF Has
    <2>2. \A x \in 1 .. p - 1 : n.keys[x] < j + 1
        <3>. SUFFICES ASSUME NEW x \in 1 .. p - 1 PROVE n.keys[x] < j + 1
            OBVIOUS
        <3>1. x \in 1 .. l
            BY <1>2, <1>3
        <3>. QED
            BY <1>1, <1>2, <1>3, <3>1
    <2>3. p <= l => n.keys[p] >= j + 1
        <3>. SUFFICES ASSUME p <= l PROVE n.keys[p] >= j + 1
            OBVIOUS
        <3>1. p \in 1 .. l
            BY <1>2, <1>3
        <3>. QED
            BY <1>1, <1>2, <1>3, <2>1, <3>1
    <2>4. Place(n, j + 1) = p
        BY <1>1, <1>3, <2>2, <2>3, PlaceIs DEF l
    <2>. QED
        BY <1>5, <2>4
<1>. QED
    BY <1>2, <1>4, <1>6, <1>7 DEF p

\* Without keys from low to j nothing is taken.
LEMMA NothingTaken ==
    ASSUME NEW n \in Node, NEW low \in Nat, NEW j \in Nat, low <= j + 1,
           \A i \in 1 .. Len(n.keys) : n.keys[i] >= low => n.keys[i] > j
    PROVE  Taken(n, low, j) = <<>>
<1>. DEFINE a == Place(n, low)
<1>1. /\ a \in 1 .. Len(n.keys) + 1 /\ \A x \in 1 .. a - 1 : n.keys[x] < low
      /\ a <= Len(n.keys) => n.keys[a] >= low
    BY PlaceFacts
<1>2. Len(n.keys) \in Nat /\ \A x \in 1 .. Len(n.keys) : n.keys[x] \in Nat
    BY LenProperties, BTreeAssumption DEF Node, Key
<1>. HIDE DEF a
<1>3. \A x \in 1 .. a - 1 : n.keys[x] < j + 1
    <2>. SUFFICES ASSUME NEW x \in 1 .. a - 1 PROVE n.keys[x] < j + 1
        OBVIOUS
    <2>1. x \in 1 .. Len(n.keys)
        BY <1>1, <1>2
    <2>. QED
        BY <1>1, <1>2, <2>1
<1>4. a <= Len(n.keys) => n.keys[a] >= j + 1
    <2>. SUFFICES ASSUME a <= Len(n.keys) PROVE n.keys[a] >= j + 1
        OBVIOUS
    <2>1. a \in 1 .. Len(n.keys)
        BY <1>1, <1>2
    <2>. QED
        BY <1>1, <1>2, <2>1
<1>5. Place(n, j + 1) = a
    <2>1. j + 1 \in Nat
        OBVIOUS
    <2>. QED
        BY <1>1, <1>3, <1>4, <2>1, PlaceIs
<1>6. SubSeq(n.ptrs, a, a - 1) = <<>>
    BY <1>1, SubSeqEmpty
<1>. QED
    BY <1>5, <1>6 DEF Taken, a

\* Without keys above j nothing more.
LEMMA NoMoreTaken ==
    ASSUME NEW n \in Node, NEW low, NEW j \in Nat, NEW m \in Nat, j <= m, \A i \in 1 .. Len(n.keys) : n.keys[i] <= j
    PROVE  Taken(n, low, m) = Taken(n, low, j)
<1>. DEFINE e == Len(n.keys) + 1
<1>1. Len(n.keys) \in Nat /\ \A x \in 1 .. Len(n.keys) : n.keys[x] \in Nat
    BY LenProperties, BTreeAssumption DEF Node, Key
<1>2. ASSUME NEW k \in Nat, j <= k PROVE Place(n, k + 1) = e
    <2>1. \A x \in 1 .. e - 1 : n.keys[x] < k + 1
        BY <1>1, <1>2
    <2>2. e \in 1 .. Len(n.keys) + 1 /\ ~ (e <= Len(n.keys)) /\ k + 1 \in Nat
        BY <1>1
    <2>. HIDE DEF e
    <2>. QED
        BY <2>1, <2>2, PlaceIs
<1>3. Place(n, j + 1) = e
    <2>. HIDE DEF e
    <2>1. j <= j
        OBVIOUS
    <2>. QED
        BY <1>2, <2>1
<1>4. Place(n, m + 1) = e
    BY <1>2
<1>. HIDE DEF e
<1>. QED
    BY <1>3, <1>4 DEF Taken

\* The lesser of two numbers.
Lesser(a, b) == IF a <= b THEN a ELSE b

\* Leaf n has the keys of K that have a value, and no others: K is the range from
\* c, the first key that the scan wants of it, to r, with others below low.
Holds(n, K, low, c, r) ==
    /\ Formed(n) /\ n.leaf /\ Sorted(n) /\ Honest(n, entries) /\ K \subseteq Key
    /\ \A i \in DOMAIN n.keys : n.keys[i] \in K
    /\ \A k \in K : entries[k] # NoValue => Has(n, k)
    /\ c \in K /\ low <= c /\ \A k \in K : k >= low => k >= c
    /\ r \in K /\ (\A k \in K : k <= r) /\ \A k \in c .. r : k \in K

\* What leaf n adds to what is expected below c is expected up to r.
Adds(n, low, high, c, r) ==
    Expected(low, Lesser(c - 1, high)) \o Taken(n, low, high) = Expected(low, Lesser(r, high))

\* The leaf that holds these keys does.
LEMMA LeafTaken ==
    ASSUME RootsInv, NEW n, NEW K, NEW low \in Key, NEW high \in Key, low <= high, NEW c, NEW r, Holds(n, K, low, c, r)
    PROVE  Adds(n, low, high, c, r)
<1>. DEFINE e == Lesser(c - 1, high)
            f == Lesser(r, high)
            V == PageId \cup HeapPages
<1>1. /\ Formed(n) /\ n \in Node /\ n.leaf /\ Sorted(n) /\ Honest(n, entries)
      /\ \A i \in DOMAIN n.keys : n.keys[i] \in K
      /\ \A k \in K : entries[k] # NoValue => Has(n, k)
      /\ c \in K /\ low <= c /\ \A k \in K : k >= low => k >= c
      /\ r \in K /\ (\A k \in K : k <= r) /\ \A k \in c .. r : k \in K
      /\ \A k \in K : k \in Key
    BY DEF Holds, Formed
<1>2. /\ MaxKey \in Nat /\ low \in 1 .. MaxKey /\ high \in 1 .. MaxKey /\ c \in 1 .. MaxKey /\ r \in 1 .. MaxKey
      /\ c <= r
    BY <1>1, BTreeAssumption DEF Key
<1>3. /\ e \in Nat /\ f \in Nat /\ e <= f /\ low <= e + 1 /\ e <= c - 1 /\ e <= high /\ f <= r /\ f <= high
      /\ f <= MaxKey /\ (e = high \/ e = c - 1) /\ (f = high \/ (f = r /\ r <= high))
    BY <1>1, <1>2 DEF Lesser
<1>. HIDE DEF e, f
<1>4. /\ DOMAIN n.keys = 1 .. Len(n.keys) /\ Len(n.keys) \in Nat
      /\ \A i \in 1 .. Len(n.keys) : n.keys[i] \in Nat
    BY <1>1, NodeFacts
<1>5. \A k \in 0 .. MaxKey : Expected(low, k) \in Seq(V) /\ Expected(low, k) \in Seq(HeapPages)
    BY ExpectedSteps, SeqMonotonic
<1>6. Taken(n, low, e) = <<>>
    <2>1. \A i \in 1 .. Len(n.keys) : n.keys[i] >= low => n.keys[i] > e
        BY <1>1, <1>2, <1>3, <1>4
    <2>. QED
        BY <1>1, <1>2, <1>3, <2>1, NothingTaken
<1>7. Taken(n, low, high) = Taken(n, low, f)
    <2>1. CASE f = high
        BY <2>1
    <2>2. CASE f = r /\ r <= high
        <3>1. \A i \in 1 .. Len(n.keys) : n.keys[i] <= r
            BY <1>1, <1>4
        <3>. QED
            BY <1>1, <1>2, <2>2, <3>1, NoMoreTaken
    <2>. QED
        BY <1>3, <2>1, <2>2
<1>. DEFINE Bad == {j \in e .. f : Expected(low, j) # Expected(low, e) \o Taken(n, low, j)}
<1>8. Bad = {}
    <2>. SUFFICES ASSUME Bad # {} PROVE FALSE
        OBVIOUS
    <2>1. Bad \in SUBSET Nat
        BY <1>3
    <2>2. PICK j \in Bad : \A i \in Bad : j <= i
        BY <2>1, SmallestOf
    <2>3. j # e
        <3>1. Expected(low, e) \o <<>> = Expected(low, e)
            BY <1>2, <1>3, <1>5, ConcatEmptySeq
        <3>. QED
            BY <1>6, <2>2, <3>1
    <2>4. /\ j - 1 \in e .. f /\ ~ (j <= j - 1) /\ j \in 0 .. MaxKey /\ j - 1 \in 0 .. MaxKey /\ j \in Nat
          /\ j \in c .. r /\ j \in Key /\ ~ (j < low) /\ low <= j
        BY <1>2, <1>3, <2>2, <2>3 DEF Key
    <2>5. Expected(low, j - 1) = Expected(low, e) \o Taken(n, low, j - 1)
        BY <2>2, <2>4
    <2>6. j \in K
        BY <1>1, <2>4
    <2>7. Expected(low, j) = IF entries[j] = NoValue THEN Expected(low, j - 1)
                             ELSE Append(Expected(low, j - 1), entries[j])
        BY <2>4, ExpectedSteps
    <2>8. /\ Has(n, j) => /\ Taken(n, low, j) = Taken(n, low, j - 1) \o <<n.ptrs[Place(n, j)]>>
                          /\ Place(n, j) \in DOMAIN n.keys /\ n.keys[Place(n, j)] = j
          /\ ~ Has(n, j) => Taken(n, low, j) = Taken(n, low, j - 1)
        BY <1>1, <2>4, TakenSteps
    <2>9. Has(n, j) => n.ptrs[Place(n, j)] = entries[j] /\ entries[j] \in HeapPages
        BY <1>1, <2>8 DEF Honest
    <2>10. CASE ~ Has(n, j)
        BY <1>1, <2>2, <2>5, <2>6, <2>7, <2>8, <2>10
    <2>11. CASE Has(n, j)
        <3>. DEFINE x == Expected(low, e)
                    t == Taken(n, low, j - 1)
                    v == entries[j]
        <3>1. x \in Seq(V) /\ t \in Seq(V) /\ v \in V /\ <<v>> \in Seq(V)
            <4>1. e \in 0 .. MaxKey
                BY <1>2, <1>3
            <4>2. t \in Seq(V)
                <5>1. j - 1 \in Nat /\ low <= (j - 1) + 1
                    BY <2>4
                <5>. QED
                    BY <1>1, <5>1, TakenFacts
            <4>. QED
                BY <1>5, <2>9, <2>11, <4>1, <4>2
        <3>2. Expected(low, j) = Expected(low, j - 1) \o <<v>>
            <4>1. v # NoValue /\ v \in HeapPages
                BY <2>9, <2>11, BTreeAssumption
            <4>2. Expected(low, j - 1) \in Seq(HeapPages)
                BY <1>5, <2>4
            <4>. QED
                BY <2>7, <4>1, <4>2, AppendIsConcat
        <3>3. Taken(n, low, j) = t \o <<v>> /\ Expected(low, j - 1) = x \o t
            BY <2>5, <2>8, <2>9, <2>11
        <3>4. (x \o t) \o <<v>> = x \o (t \o <<v>>)
            BY <3>1, ConcatAssociative
        <3>5. Expected(low, j) = x \o Taken(n, low, j)
            BY <3>2, <3>3, <3>4
        <3>. QED
            BY <2>2, <3>5
    <2>. QED
        BY <2>10, <2>11
<1>9. f \in e .. f
    BY <1>3
<1>10. Expected(low, f) = Expected(low, e) \o Taken(n, low, f)
    BY <1>8, <1>9
<1>. QED
    BY <1>7, <1>10 DEF e, f, Adds

\* The keys of leaf p from c to its last one have no gap.
LEMMA LeafRange ==
    ASSUME NEW T, NEW R, NEW np, NextRoutes(T, R, np), NEW p \in 1 .. np - 1, T[p].leaf, R[p] \subseteq Key,
           NEW c \in R[p], NEW r \in R[p], \A k \in R[p] : k <= r
    PROVE  \A k \in c .. r : k \in R[p]
<1>. DEFINE Gaps == {k \in c .. r : k \notin R[p]}
<1>1. MaxKey \in Nat /\ c \in 1 .. MaxKey /\ r \in 1 .. MaxKey
    BY BTreeAssumption DEF Key
<1>2. Gaps = {}
    <2>. SUFFICES ASSUME Gaps # {} PROVE FALSE
        OBVIOUS
    <2>1. Gaps \in SUBSET Nat
        BY <1>1
    <2>2. PICK j \in Gaps : \A i \in Gaps : j <= i
        BY <2>1, SmallestOf
    <2>3. /\ j \in c .. r /\ j \notin R[p] /\ j # c /\ j - 1 \in c .. r /\ ~ (j <= j - 1)
          /\ (j - 1) + 1 = j /\ j \in Key
        BY <1>1, <2>2 DEF Key
    <2>4. j - 1 \in R[p]
        BY <2>2, <2>3
    <2>5. \A k \in R[p] : k + 1 \in Key => k + 1 \in R[p] \/ (T[p].next # NoPage /\ k + 1 \in R[T[p].next])
        BY DEF NextRoutes
    <2>6. T[p].next # NoPage /\ j \in R[T[p].next]
        BY <2>3, <2>4, <2>5
    <2>7. r < j
        BY <2>6 DEF NextRoutes
    <2>. QED
        BY <1>1, <2>3, <2>7
<1>. QED
    BY <1>2

\* A scan stands at leaf p: it wants the keys from c on, and has those below.
Stands(R, low, high, p, out) ==
    /\ p \in 1 .. nextPage - 1 /\ pages[p].leaf
    /\ \E c \in R[p] : /\ low <= c /\ \A k \in R[p] : k >= low => k >= c
                       /\ out = Expected(low, Lesser(c - 1, high))

\* What a scan has done when it is in state s.
Stage(R, low, high, s) ==
    /\ s.at = NoPage => s.out = Expected(low, high)
    /\ s.at # NoPage => Stands(R, low, high, s.at, s.out)

\* The keys of page p come before those of page q.
Before(R, p, q) == \A k \in R[p], m \in R[q] : k < m

\* At a leaf the scan takes what is expected, and the next leaf has later keys.
LEMMA ScanStep ==
    ASSUME NodesInv, RootsInv, NEW level, NEW R, NEW root,
           Routes(pages, level, R, nextPage, NoClimb, root, entries),
           NEW low \in Key, NEW high \in Key, low <= high,
           NEW s \in ScanState, Stage(R, low, high, s)
    PROVE  /\ Stage(R, low, high, ScanLeaf(s, low, high))
           /\ ScanLeaf(s, low, high).at # NoPage =>
                 s.at # NoPage /\ Before(R, s.at, ScanLeaf(s, low, high).at)
<1>. DEFINE t == ScanLeaf(s, low, high)
            p == s.at
            n == pages[p]
            K == R[p]
<1>1. /\ p = NoPage => t = s
      /\ p # NoPage => t = [at |-> IF \E i \in DOMAIN n.keys : n.keys[i] > high THEN NoPage ELSE n.next,
                            out |-> s.out \o Taken(n, low, high)]
    BY ScanLeafFacts
<1>2. CASE p = NoPage
    BY <1>1, <1>2
<1>3. CASE p # NoPage
    <2>1. Stands(R, low, high, p, s.out)
        BY <1>3 DEF Stage
    <2>2. p \in 1 .. nextPage - 1 /\ p \in PageId /\ n.leaf
        BY <2>1, RootsFacts DEF Stands
    <2>3. PICK c \in K : /\ low <= c /\ \A k \in K : k >= low => k >= c
                         /\ s.out = Expected(low, Lesser(c - 1, high))
        BY <2>1 DEF Stands
    <2>4. /\ K \subseteq Key /\ Sorted(n) /\ \A i \in DOMAIN n.keys : n.keys[i] \in K
        BY <2>2 DEF Routes, RootRoutes, KeyRoutes
    <2>5. \A k \in K : entries[k] # NoValue => Has(n, k)
        BY <2>2 DEF Routes, LeafRoutes
    <2>6. Formed(n) /\ Honest(n, entries)
        BY <2>2 DEF NodesInv, Typed
    <2>7. MaxKey \in Nat /\ K \in SUBSET (1 .. MaxKey) /\ low \in 1 .. MaxKey /\ high \in 1 .. MaxKey /\ K # {}
        BY <2>3, <2>4, BTreeAssumption DEF Key
    <2>. HIDE DEF K
    <2>8. PICK r \in K : \A k \in K : k <= r
        BY <2>7, LargestOf
    <2>9. \A k \in c .. r : k \in K
        BY <2>2, <2>4, <2>8, LeafRange DEF Routes, K
    <2>10. /\ \A k \in K : k + 1 \in Key => k + 1 \in K \/ (n.next # NoPage /\ k + 1 \in R[n.next])
           /\ n.next # NoPage => /\ n.next \in 1 .. nextPage - 1 /\ pages[n.next].leaf /\ R[n.next] # {}
                                 /\ \A k \in K, m \in R[n.next] : k < m
        BY <2>2 DEF Routes, NextRoutes, K
    <2>11. \A q : q = n.next /\ q # NoPage => R[q] \subseteq Key
        <3>1. n.next # NoPage => n.next \in PageId
            BY <2>10, RootsFacts
        <3>. QED
            BY <3>1 DEF Routes, RootRoutes
    <2>12. Holds(n, K, low, c, r)
        BY <2>2, <2>3, <2>4, <2>5, <2>6, <2>8, <2>9 DEF Holds
    <2>. HIDE DEF n
    <2>13. Expected(low, Lesser(c - 1, high)) \o Taken(n, low, high) = Expected(low, Lesser(r, high))
        <3>1. Adds(n, low, high, c, r)
            BY <2>12, LeafTaken
        <3>. QED
            BY <3>1 DEF Adds
    <2>14. t.out = Expected(low, Lesser(r, high))
        BY <1>1, <1>3, <2>3, <2>13
    <2>15. t.at = IF \E i \in DOMAIN n.keys : n.keys[i] > high THEN NoPage ELSE n.next
        BY <1>1, <1>3
    <2>16. r \in 1 .. MaxKey /\ c \in 1 .. MaxKey
        BY <2>7, <2>8
    <2>. HIDE DEF t
    <2>17. CASE \E i \in DOMAIN n.keys : n.keys[i] > high
        <3>1. Lesser(r, high) = high
            <4>1. PICK k \in K : k > high
                BY <2>4, <2>17
            <4>2. k <= r /\ k \in 1 .. MaxKey
                BY <2>7, <2>8, <4>1
            <4>. QED
                BY <2>7, <2>16, <4>1, <4>2 DEF Lesser
        <3>2. t.at = NoPage
            BY <2>15, <2>17
        <3>. QED
            BY <2>14, <3>1, <3>2 DEF Stage, t
    <2>18. CASE ~ (\E i \in DOMAIN n.keys : n.keys[i] > high) /\ n.next = NoPage
        <3>1. r + 1 \notin K
            BY <2>8, <2>16
        <3>2. r + 1 \notin Key
            BY <2>8, <2>10, <2>18, <3>1
        <3>3. Lesser(r, high) = high
            BY <2>7, <2>16, <3>2 DEF Lesser, Key
        <3>4. t.at = NoPage
            BY <2>15, <2>18
        <3>. QED
            BY <2>14, <3>3, <3>4 DEF Stage, t
    <2>19. CASE ~ (\E i \in DOMAIN n.keys : n.keys[i] > high) /\ n.next # NoPage
        <3>1. PICK q : q = n.next
            OBVIOUS
        <3>2. /\ q # NoPage /\ q \in 1 .. nextPage - 1 /\ pages[q].leaf /\ R[q] # {} /\ R[q] \subseteq Key
              /\ \A k \in K, m \in R[q] : k < m
            BY <2>10, <2>11, <2>19, <3>1
        <3>3. \A m \in R[q] : m \in 1 .. MaxKey /\ r < m
            BY <2>8, <3>2 DEF Key
        <3>4. r + 1 \in Key /\ r + 1 \notin K
            BY <2>7, <2>8, <2>16, <3>2, <3>3 DEF Key
        <3>5. r + 1 \in R[q]
            BY <2>8, <2>10, <3>1, <3>4
        <3>6. low <= r + 1 /\ (r + 1) - 1 = r /\ \A m \in R[q] : m >= low => m >= r + 1
            BY <2>3, <2>7, <2>8, <2>16, <3>3
        <3>7. Stands(R, low, high, q, t.out)
            BY <2>14, <3>2, <3>5, <3>6 DEF Stands
        <3>8. t.at = q
            BY <2>15, <2>19, <3>1
        <3>9. Before(R, p, q)
            BY <3>2 DEF Before, K
        <3>. QED
            BY <1>3, <3>2, <3>7, <3>8, <3>9 DEF Stage, t
    <2>. QED
        BY <2>17, <2>18, <2>19
<1>. QED
    BY <1>2, <1>3

\* A scan from the root finds what is expected: it ends, as each leaf it comes to
\* has later keys than all the leaves before.
LEMMA ScanFinds ==
    ASSUME NodesInv, RootsInv, NEW level, Shape(pages, level, nextPage, NoClimb),
           NEW R, NEW root \in 1 .. nextPage - 1,
           Routes(pages, level, R, nextPage, NoClimb, root, entries),
           NEW low \in Key, NEW high \in Key, low <= high
    PROVE  RangeScan(root, low, high) = Expected(low, high)
<1>1. /\ MaxPages \in Nat /\ MaxKey \in Nat /\ nextPage \in 1 .. MaxPages /\ root \in PageId
      /\ low \in 1 .. MaxKey /\ high \in 1 .. MaxKey
    BY RootsFacts, BTreeAssumption DEF Key
<1>2. PICK scan \in [0 .. MaxPages -> ScanState] :
          /\ scan[0] = [at |-> FindLeaf(root, low), out |-> <<>>]
          /\ \A i \in 1 .. MaxPages : scan[i] = ScanLeaf(scan[i - 1], low, high)
          /\ RangeScan(root, low, high) = scan[MaxPages].out
    BY <1>1, ScanSteps
<1>3. \A i \in 1 .. MaxPages : i - 1 \in 0 .. MaxPages
    BY <1>1
<1>4. Stage(R, low, high, scan[0])
    <2>. DEFINE p == FindLeaf(root, low)
    <2>1. low \in R[root]
        BY NoClimbFacts DEF Routes, RootRoutes
    <2>2. p \in 1 .. nextPage - 1 /\ pages[p].leaf /\ low \in R[p]
        BY <1>1, <2>1, LeafFound
    <2>. HIDE DEF p
    <2>3. p # NoPage
        BY <1>1, <2>2, BTreeAssumption
    <2>4. Expected(low, Lesser(low - 1, high)) = <<>>
        <3>1. Lesser(low - 1, high) \in 0 .. MaxKey /\ Lesser(low - 1, high) < low
            BY <1>1 DEF Lesser
        <3>. QED
            BY <3>1, ExpectedSteps
    <2>5. low <= low /\ \A k \in R[p] : k >= low => k >= low
        BY <1>1
    <2>6. Stands(R, low, high, p, <<>>)
        BY <2>2, <2>4, <2>5 DEF Stands
    <2>7. scan[0].at = p /\ scan[0].out = <<>>
        BY <1>2 DEF p
    <2>. QED
        BY <2>3, <2>6, <2>7 DEF Stage
<1>5. ASSUME NEW i \in 1 .. MaxPages, Stage(R, low, high, scan[i - 1])
      PROVE  /\ Stage(R, low, high, scan[i])
             /\ scan[i].at # NoPage => scan[i - 1].at # NoPage /\ Before(R, scan[i - 1].at, scan[i].at)
    <2>1. scan[i - 1] \in ScanState /\ scan[i] = ScanLeaf(scan[i - 1], low, high)
        BY <1>2, <1>3
    <2>. QED
        BY <1>5, <2>1, ScanStep
<1>6. \A i \in 0 .. MaxPages : Stage(R, low, high, scan[i])
    <2>. DEFINE Bad == {i \in 0 .. MaxPages : ~ Stage(R, low, high, scan[i])}
    <2>. SUFFICES ASSUME Bad # {} PROVE FALSE
        OBVIOUS
    <2>1. Bad \in SUBSET Nat
        BY <1>1
    <2>2. PICK i \in Bad : \A j \in Bad : i <= j
        BY <2>1, SmallestOf
    <2>3. i \in 1 .. MaxPages /\ i - 1 \in 0 .. MaxPages /\ ~ (i <= i - 1)
        BY <1>1, <1>4, <2>2
    <2>4. Stage(R, low, high, scan[i - 1])
        BY <2>2, <2>3
    <2>. QED
        BY <1>5, <2>2, <2>3, <2>4
<1>7. \A i \in 0 .. MaxPages : scan[i].at # NoPage =>
          scan[i].at \in 1 .. nextPage - 1 /\ R[scan[i].at] # {} /\ \A k \in R[scan[i].at] : k \in Nat
    <2>1. \A p \in 1 .. nextPage - 1 : R[p] \subseteq Key
        BY RootsFacts DEF Routes, RootRoutes
    <2>. QED
        BY <1>6, <2>1, BTreeAssumption DEF Stage, Stands, Key
<1>. DEFINE Follows(i) == scan[i].at # NoPage =>
                \A j \in 0 .. i - 1 : scan[j].at # NoPage /\ Before(R, scan[j].at, scan[i].at)
<1>8. \A i \in 0 .. MaxPages : Follows(i)
    <2>. DEFINE Bad == {i \in 0 .. MaxPages : ~ Follows(i)}
    <2>. SUFFICES ASSUME Bad # {} PROVE FALSE
        OBVIOUS
    <2>1. Bad \in SUBSET Nat
        BY <1>1
    <2>2. PICK i \in Bad : \A j \in Bad : i <= j
        BY <2>1, SmallestOf
    <2>3. i \in 0 .. MaxPages /\ ~ Follows(i)
        BY <2>2
    <2>4. i # 0
        BY <2>3
    <2>5. i \in 1 .. MaxPages /\ i - 1 \in 0 .. MaxPages /\ ~ (i <= i - 1)
        BY <1>1, <2>3, <2>4
    <2>6. Follows(i - 1)
        BY <2>2, <2>5
    <2>7. PICK j \in 0 .. i - 1 : scan[i].at # NoPage /\ ~ (scan[j].at # NoPage /\ Before(R, scan[j].at, scan[i].at))
        BY <2>3
    <2>8. scan[i - 1].at # NoPage /\ Before(R, scan[i - 1].at, scan[i].at)
        BY <1>5, <1>6, <2>5, <2>7
    <2>9. j # i - 1
        BY <2>7, <2>8
    <2>10. j \in 0 .. (i - 1) - 1 /\ j \in 0 .. MaxPages
        BY <1>1, <2>5, <2>7, <2>9
    <2>11. scan[j].at # NoPage /\ Before(R, scan[j].at, scan[i - 1].at)
        BY <2>6, <2>8, <2>10
    <2>12. Before(R, scan[j].at, scan[i].at)
        <3>. SUFFICES ASSUME NEW k \in R[scan[j].at], NEW m \in R[scan[i].at] PROVE k < m
            BY DEF Before
        <3>1. PICK x \in R[scan[i - 1].at] : x \in Nat
            BY <1>7, <2>5, <2>8
        <3>2. k < x /\ x < m
            BY <2>8, <2>11, <3>1 DEF Before
        <3>3. k \in Nat /\ m \in Nat
            BY <1>7, <2>5, <2>7, <2>10, <2>11
        <3>. QED
            BY <3>1, <3>2, <3>3
    <2>. QED
        BY <2>7, <2>11, <2>12
<1>9. scan[MaxPages].at = NoPage
    <2>. SUFFICES ASSUME scan[MaxPages].at # NoPage PROVE FALSE
        OBVIOUS
    <2>1. MaxPages \in 0 .. MaxPages /\ \A i \in 0 .. MaxPages : i = MaxPages \/ i \in 0 .. MaxPages - 1
        BY <1>1
    <2>2. \A i \in 0 .. MaxPages : scan[i].at # NoPage
        BY <1>8, <2>1
    <2>3. \A i, j \in 0 .. MaxPages : i < j => Before(R, scan[i].at, scan[j].at)
        <3>. SUFFICES ASSUME NEW i \in 0 .. MaxPages, NEW j \in 0 .. MaxPages, i < j
                      PROVE  Before(R, scan[i].at, scan[j].at)
            OBVIOUS
        <3>1. i \in 0 .. j - 1
            BY <1>1
        <3>. QED
            BY <1>8, <2>2, <3>1
    <2>4. \A i, j \in 0 .. MaxPages : i < j => scan[i].at # scan[j].at
        <3>. SUFFICES ASSUME NEW i \in 0 .. MaxPages, NEW j \in 0 .. MaxPages, i < j, scan[i].at = scan[j].at
                      PROVE  FALSE
            OBVIOUS
        <3>1. PICK k \in R[scan[i].at] : k \in Nat
            BY <1>7, <2>2
        <3>2. k < k
            BY <2>3, <3>1 DEF Before
        <3>. QED
            BY <3>1, <3>2
    <2>. DEFINE f == [i \in 0 .. MaxPages |-> scan[i].at]
    <2>5. f \in [0 .. MaxPages -> 1 .. nextPage - 1]
        BY <1>7, <2>2
    <2>6. /\ IsFiniteSet(0 .. MaxPages) /\ IsFiniteSet(1 .. nextPage - 1)
          /\ Cardinality(1 .. nextPage - 1) < Cardinality(0 .. MaxPages)
        <3>1. IsFiniteSet(0 .. MaxPages) /\ Cardinality(0 .. MaxPages) = MaxPages + 1
            BY <1>1, FS_Interval
        <3>2. IsFiniteSet(1 .. nextPage - 1) /\ Cardinality(1 .. nextPage - 1) = nextPage - 1
            <4>1. PICK l \in Nat : l = nextPage - 1
                BY <1>1
            <4>2. IsFiniteSet(1 .. l) /\ Cardinality(1 .. l) = l
                BY FS_Interval
            <4>. QED
                BY <4>1, <4>2
        <3>. QED
            BY <1>1, <3>1, <3>2
    <2>. HIDE DEF f
    <2>7. PICK i, j \in 0 .. MaxPages : i # j /\ f[i] = f[j]
        BY <2>5, <2>6, FS_PigeonHole
    <2>8. scan[i].at = scan[j].at /\ (i < j \/ j < i)
        BY <1>1, <2>7 DEF f
    <2>. QED
        BY <2>4, <2>7, <2>8
<1>. QED
    BY <1>1, <1>2, <1>6, <1>9 DEF Stage

-----------------------------------------------------------------------------
(* What it says.                                                           *)

\* The invariant implies each of the properties.
LEMMA Types == ASSUME IInv PROVE TypeOK
<1>1. NodesInv /\ RootsInv /\ 1 .. nextPage - 1 \subseteq PageId
    BY RootsFacts DEF IInv
<1>2. \A p \in PageId : /\ Len(pages[p].keys) <= Order
                        /\ Len(pages[p].ptrs) = Len(pages[p].keys) + (IF pages[p].leaf THEN 0 ELSE 1)
    BY <1>1 DEF NodesInv, Typed, Formed
<1>. QED
    BY <1>1, <1>2 DEF TypeOK, NodesInv, RootsInv

LEMMA Honesty == ASSUME IInv PROVE SearchNeverLies
BY SearchIsHonest, RootsFacts DEF IInv, SearchNeverLies

LEMMA Soundness == ASSUME IInv PROVE TreeIsSound
<1>. SUFFICES ASSUME Idle, ~ failed, NEW p \in 1 .. nextPage - 1, ~ pages[p].leaf
              PROVE  /\ \A i \in DOMAIN pages[p].ptrs :
                            /\ pages[pages[p].ptrs[i]].parent = p
                            /\ pages[pages[p].ptrs[i]].keys # <<>>
                            /\ pages[pages[p].ptrs[i]].leaf = pages[pages[p].ptrs[1]].leaf
                     /\ \A i, j \in DOMAIN pages[p].ptrs : pages[p].ptrs[i] = pages[p].ptrs[j] => i = j
    BY DEF TreeIsSound
<1>1. PICK level : Shape(pages, level, nextPage, NoClimb)
    BY IdleTree DEF IInv, TreeInv
<1>2. 1 \in DOMAIN pages[p].ptrs
    <2>1. Formed(pages[p])
        BY RootsFacts DEF IInv, NodesInv, Typed
    <2>. QED
        BY <2>1, NodeFacts
<1>3. /\ \A i \in DOMAIN pages[p].ptrs :
             /\ pages[p].ptrs[i] \in 1 .. nextPage - 1 /\ pages[pages[p].ptrs[i]].parent = p
             /\ pages[pages[p].ptrs[i]].keys # <<>> /\ level[pages[p].ptrs[i]] + 1 = level[p]
      /\ \A i, j \in DOMAIN pages[p].ptrs : pages[p].ptrs[i] = pages[p].ptrs[j] => i = j
    BY <1>1 DEF Shape, ChildrenInv
<1>4. \A q \in 1 .. nextPage - 1 : /\ q \in PageId /\ level[q] \in Nat /\ (pages[q].leaf <=> level[q] = 0)
                                   /\ pages[q].leaf \in BOOLEAN
    <2>1. ASSUME NEW q \in 1 .. nextPage - 1 PROVE q \in PageId /\ pages[q].leaf \in BOOLEAN
        <3>1. q \in PageId
            BY RootsFacts DEF IInv
        <3>2. pages[q] \in Node
            BY <3>1 DEF IInv, NodesInv
        <3>. QED
            BY <3>1, <3>2 DEF Node
    <2>. QED
        BY <1>1, <2>1 DEF Shape, LevelsInv
<1>5. ASSUME NEW i \in DOMAIN pages[p].ptrs
      PROVE  pages[pages[p].ptrs[i]].leaf = pages[pages[p].ptrs[1]].leaf
    <2>1. level[pages[p].ptrs[i]] = level[pages[p].ptrs[1]]
        BY <1>2, <1>3, <1>4
    <2>2. pages[pages[p].ptrs[i]].leaf <=> pages[pages[p].ptrs[1]].leaf
        BY <1>2, <1>3, <1>4, <2>1
    <2>. QED
        BY <1>2, <1>3, <1>4, <2>2
<1>. QED
    BY <1>3, <1>5

LEMMA Completeness == ASSUME IInv PROVE IndexIsMap
<1>. SUFFICES ASSUME InOrder, NEW k \in Key PROVE Search(RootInUse, k) = entries[k]
    BY DEF IndexIsMap
<1>. DEFINE p == FindLeaf(RootInUse, k)
<1>1. /\ NodesInv /\ RootsInv /\ nextPage \in 1 .. MaxPages /\ RootInUse \in 1 .. nextPage - 1
      /\ 1 .. nextPage - 1 \subseteq PageId /\ Idle /\ ~ failed /\ pages[RootInUse].parent = NoPage
    BY RootsFacts DEF IInv, InOrder, RootIsKnown
<1>2. PICK level : Tree(pages, level) /\ Shape(pages, level, nextPage, NoClimb)
    BY <1>1, IdleTree DEF IInv, TreeInv
<1>3. PICK R : Routes(pages, level, R, nextPage, NoClimb, RootInUse, entries)
    BY <1>1, <1>2 DEF Tree, Ways, Idle
<1>4. k \in R[RootInUse]
    BY <1>3, NoClimbFacts DEF Routes, RootRoutes
<1>5. p \in 1 .. nextPage - 1 /\ pages[p].leaf /\ k \in R[p]
    BY <1>1, <1>2, <1>3, <1>4, LeafFound
<1>6. CASE entries[k] = NoValue
    BY <1>1, <1>6, SearchIsHonest
<1>7. CASE entries[k] # NoValue
    <2>. DEFINE n == pages[p]
    <2>1. n.leaf /\ Formed(n) /\ Honest(n, entries) /\ Has(n, k)
        <3>1. Has(n, k)
            BY <1>3, <1>5, <1>7 DEF Routes, LeafRoutes
        <3>2. p \in PageId
            BY <1>1, <1>5
        <3>. QED
            BY <1>1, <1>5, <3>1, <3>2 DEF NodesInv, Typed
    <2>2. Search(RootInUse, k) = n.ptrs[Place(n, k)]
        BY <2>1 DEF Search
    <2>. HIDE DEF n
    <2>3. Place(n, k) \in 1 .. Len(n.keys) /\ n.keys[Place(n, k)] = k
        BY <2>1, KeyIsInPlace DEF Honest
    <2>4. DOMAIN n.keys = 1 .. Len(n.keys)
        BY <2>1, NodeFacts
    <2>5. n.ptrs[Place(n, k)] = entries[k]
        BY <2>1, <2>3, <2>4 DEF Honest
    <2>. QED
        BY <2>2, <2>5
<1>. QED
    BY <1>6, <1>7

\* The bytes of Order entries of a key and a page number.
Entries == (KeySize + PidSize) * Order

\* Pages have room for the two entries that a node has at least.
RoomForTwo == PageHeaderSize + (KeySize + PidSize) * 2 <= PageSize

\* As many entries as order allows have room in a page.
LEMMA EntriesFit == ASSUME RoomForTwo PROVE PageHeaderSize + Entries <= PageSize
<1>. DEFINE o == (PageSize - PageHeaderSize) \div (KeySize + PidSize)
<1>1. PICK a \in Nat, e \in Nat : a = PageSize - PageHeaderSize /\ e = KeySize + PidSize /\ e > 0
    BY BTreeAssumption DEF PageHeaderSize, PidSize
<1>2. (a \div e) * e <= a
    BY <1>1
<1>3. o \in Nat /\ (KeySize + PidSize) * o <= PageSize - PageHeaderSize
    BY <1>1, <1>2
<1>4. Order = IF o < 2 THEN 2 ELSE o
    BY DEF Order
<1>. HIDE DEF o
<1>5. CASE o < 2
    BY <1>4, <1>5 DEF Entries, RoomForTwo
<1>6. CASE ~ (o < 2)
    BY <1>3, <1>4, <1>6, BTreeAssumption DEF Entries, PageHeaderSize, PidSize
<1>. QED
    BY <1>5, <1>6

\* A node of at most Order keys fits if all of its entries do.
LEMMA NodeFits ==
    ASSUME NEW n, Typed(n), RoomForTwo, n.leaf \/ RoomForPointer
    PROVE  Fits(n)
<1>1. PICK l \in Nat, o \in Nat : l = Len(n.keys) /\ o = Order /\ l <= o
    BY NodeFacts, OrderFacts DEF Typed
<1>2. Len(n.ptrs) = l + (IF n.leaf THEN 0 ELSE 1) /\ KeySize \in Nat /\ PageSize \in Nat
    BY <1>1, BTreeAssumption DEF Typed, Formed
<1>3. (KeySize + PidSize) * l <= Entries
    <2>1. PICK d \in Nat : o = l + d
        <3>1. o - l \in Nat /\ o = l + (o - l)
            BY <1>1
        <3>. QED
            BY <3>1
    <2>2. \A e \in Nat : e * (l + d) = e * l + e * d /\ e * d \in Nat /\ e * l \in Nat
        OBVIOUS
    <2>3. KeySize + PidSize \in Nat
        BY <1>2 DEF PidSize
    <2>. QED
        BY <1>1, <2>1, <2>2, <2>3 DEF Entries
<1>4. (KeySize + PidSize) * l = KeySize * l + PidSize * l /\ KeySize * l \in Nat
    BY <1>2 DEF PidSize
<1>5. Entries \in Nat
    BY <1>1, <1>2 DEF Entries, PidSize
<1>6. PICK x \in Nat, y \in Nat : x = KeySize * l /\ y = Entries
    BY <1>4, <1>5
<1>7. x + 4 * l <= y
    BY <1>3, <1>4, <1>6 DEF PidSize
<1>8. CASE n.leaf
    <2>1. 16 + y <= PageSize
        BY <1>6, EntriesFit DEF PageHeaderSize
    <2>2. Len(n.keys) = l /\ Len(n.ptrs) = l
        BY <1>1, <1>2, <1>8
    <2>3. 16 + x + 4 * l <= PageSize
        <3>1. PageSize \in Nat
            BY <1>2
        <3>. QED
            BY <1>7, <2>1, <3>1
    <2>. QED
        BY <1>6, <2>2, <2>3 DEF Fits, PageHeaderSize, PidSize
<1>9. CASE ~ n.leaf
    <2>1. 16 + y + 4 <= PageSize
        BY <1>6, <1>9 DEF RoomForPointer, Entries, PageHeaderSize, PidSize
    <2>2. Len(n.keys) = l /\ Len(n.ptrs) = l + 1
        BY <1>1, <1>2, <1>9
    <2>3. 16 + x + 4 * (l + 1) <= PageSize
        <3>1. PageSize \in Nat
            BY <1>2
        <3>. QED
            BY <1>7, <2>1, <3>1
    <2>. QED
        BY <1>6, <2>2, <2>3 DEF Fits, PageHeaderSize, PidSize
<1>. QED
    BY <1>8, <1>9

\* What serialiseNode gets to write has room in its page.
WritesFit == \A i \in DOMAIN queue : Fits(queue[i].node)
LeavesFit == \A i \in DOMAIN queue : queue[i].node.leaf => Fits(queue[i].node)

\* No insertion panics but on a full internal node.
LEMMA Fitting == ASSUME IInv, RoomForTwo PROVE LeavesFit /\ (RoomForPointer => WritesFit)
<1>1. \A i \in DOMAIN queue : Typed(queue[i].node)
    BY DEF IInv, NodesInv
<1>. QED
    BY <1>1, NodeFits DEF LeavesFit, WritesFit

LEMMA Scans == ASSUME IInv PROVE ScansAreComplete
<1>. SUFFICES ASSUME InOrder, NEW low \in Key, NEW high \in Key, low <= high
              PROVE  RangeScan(RootInUse, low, high) = Expected(low, high)
    BY DEF ScansAreComplete
<1>1. /\ NodesInv /\ RootsInv /\ RootInUse \in 1 .. nextPage - 1
      /\ Idle /\ ~ failed /\ pages[RootInUse].parent = NoPage
    BY RootsFacts DEF IInv, InOrder, RootIsKnown
<1>2. PICK level : Tree(pages, level) /\ Shape(pages, level, nextPage, NoClimb)
    BY <1>1, IdleTree DEF IInv, TreeInv
<1>3. PICK R : Routes(pages, level, R, nextPage, NoClimb, RootInUse, entries)
    BY <1>1, <1>2 DEF Tree, Ways, Idle
<1>. QED
    BY <1>1, <1>2, <1>3, ScanFinds

\* In every state the variables have their types: no node written to a page has
\* more keys than Order, and every internal node has one child more than keys.
THEOREM IndexTypes == Spec => []TypeOK
BY IndexInvAlways, Types, PTL

\* Search returns the page that was last inserted for the key, or finds nothing:
\* also in the middle of a split, after a failed write and from a lost root.
THEOREM SearchStaysHonest == Spec => []SearchNeverLies
BY IndexInvAlways, Honesty, PTL

\* Between insertions every child knows its parent, siblings are of one kind,
\* and no node but a root is empty: after any splits, with or without the root.
THEOREM TreeStaysSound == Spec => []TreeIsSound
BY IndexInvAlways, Soundness, PTL

\* Between insertions, while the root in use is a root, Search finds every key
\* that was inserted, with its value, and no other.
THEOREM IndexStaysMap == Spec => []IndexIsMap
BY IndexInvAlways, Completeness, PTL

\* Between insertions, while the root in use is a root, RangeScan returns for
\* every range the values of its keys, all of them, once and in their order:
\* no split of a leaf has left a leaf out of the list, or a key in two leaves.
THEOREM ScansStayComplete == Spec => []ScansAreComplete
BY IndexInvAlways, Scans, PTL

\* serialiseNode has room for every leaf, on pages that hold two entries at all,
\* and for every node where order leaves four bytes of a page: only a full
\* internal node, whose one pointer more order does not count, can be too large.
THEOREM NodesHaveRoom ==
    RoomForTwo => /\ Spec => []LeavesFit
                  /\ RoomForPointer => (Spec => []WritesFit)
<1>1. ASSUME RoomForTwo PROVE Spec => []LeavesFit
    BY <1>1, IndexInvAlways, Fitting, PTL
<1>2. ASSUME RoomForTwo, RoomForPointer PROVE Spec => []WritesFit
    BY <1>2, IndexInvAlways, Fitting, PTL
<1>. QED
    BY <1>1, <1>2
=============================================================================
