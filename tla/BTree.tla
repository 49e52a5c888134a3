-------------------------------- MODULE BTree --------------------------------
(***************************************************************************)
(* The page-backed B+ tree of one index, internal/index/btree/btree.go, as *)
(* TableManager uses it: CreateIndex fills a tree that it holds in memory  *)
(* and then stores the number of its root in the catalog; each later       *)
(* insertion of a row loads a tree from that number.  The holder of        *)
(* globalLock inserts alone, page write by page write; the pages are       *)
(* outside its transaction, so that other goroutines see each write.       *)
(*                                                                         *)
(*   pages     the nodes, as the pager shows them                          *)
(*   nextPage  the next page number to allocate                            *)
(*   rootID    of the tree that the insertion works on                     *)
(*   catRoot   the root in the catalog; NoPage until CreateIndex ends      *)
(*   queue     the page writes that the insertion has still to make        *)
(*   climb     the key and the right sibling that it then has to tell the  *)
(*             parent of; NoClimb if nothing is left to do                 *)
(*   failed    whether a page write or an allocation has failed            *)
(*   entries   what has been inserted (no variable of the code)            *)
(***************************************************************************)
EXTENDS Naturals, SequencesExt

CONSTANTS
    MaxKey,     \* the keys are 1 .. MaxKey
    HeapPages,  \* the values: numbers of pages of the heap table
    PagesOf,    \* the heap pages on which each key may lie
    PageSize,   \* the bytes of a page
    KeySize,    \* the bytes of a key of this type
    MaxPages,   \* bound on the pages of the database file
    MaxSplits,  \* bound on the pages that an insertion allocates
    NoPage,     \* the parent of a root, the next page of the last leaf
    NoValue,    \* "the key is not in the index"
    NoClimb     \* "the insertion ends with its last write"

PageHeaderSize == 16
PidSize == 4

\* The greatest number of keys of a node.
Order == LET o == (PageSize - PageHeaderSize) \div (KeySize + PidSize)
         IN  IF o < 2 THEN 2 ELSE o

Key     == 1 .. MaxKey
PageId  == 0 .. MaxPages - 1
Catalog == 0
Node    == [leaf : BOOLEAN, keys : Seq(Key), ptrs : Seq(PageId \cup HeapPages),
            parent : PageId \cup {NoPage}, next : PageId \cup {NoPage}]
Climb   == [left : PageId, key : Key, right : PageId]

ASSUME BTreeAssumption ==
    /\ MaxKey \in Nat
    /\ PagesOf \in [Key -> SUBSET HeapPages]
    /\ PageSize \in Nat /\ PageSize >= PageHeaderSize
    /\ KeySize \in Nat
    /\ MaxPages \in Nat /\ MaxPages > 1
    /\ MaxSplits \in Nat \ {0}
    /\ NoPage \notin Nat
    /\ NoValue \notin HeapPages
    /\ NoClimb \notin Climb

VARIABLES pages, nextPage, rootID, catRoot, queue, climb, failed, entries

vars == <<pages, nextPage, rootID, catRoot, queue, climb, failed, entries>>

TypeOK ==
    /\ pages \in [PageId -> Node]
    /\ \A p \in PageId :
           /\ Len(pages[p].keys) <= Order
           /\ Len(pages[p].ptrs) = Len(pages[p].keys) + (IF pages[p].leaf THEN 0 ELSE 1)
    /\ nextPage \in 2 .. MaxPages
    /\ rootID \in PageId
    /\ catRoot \in PageId \cup {NoPage}
    /\ queue \in Seq([id : PageId, node : Node])
    /\ climb \in Climb \cup {NoClimb}
    /\ failed \in BOOLEAN
    /\ entries \in [Key -> HeapPages \cup {NoValue}]

-----------------------------------------------------------------------------
(* Nodes.                                                                  *)

\* A page as AllocatePage makes it, read as a node.
Zero == [leaf |-> FALSE, keys |-> <<>>, ptrs |-> <<Catalog>>,
         parent |-> Catalog, next |-> Catalog]
EmptyLeaf == [leaf |-> TRUE, keys |-> <<>>, ptrs |-> <<>>, parent |-> NoPage, next |-> NoPage]

Has(n, k) == \E i \in DOMAIN n.keys : n.keys[i] = k

IsOver(n) == Len(n.keys) > Order

\* serialiseNode has room for the keys and pointers of a node; else it panics.
Fits(n) == PageHeaderSize + KeySize * Len(n.keys) + PidSize * Len(n.ptrs) <= PageSize

Panics == queue # <<>> /\ ~Fits(Head(queue).node)

\* A page has room for as many entries as order allows and for one pointer more,
\* which an internal node has and which order, made for leaves, does not count.
RoomForPointer == PageHeaderSize + (KeySize + PidSize) * Order + PidSize <= PageSize

\* The place of a key in a node: that of the first key which is not smaller.
Place(n, k) ==
    CHOOSE i \in 1 .. Len(n.keys) + 1 :
        /\ \A j \in 1 .. i - 1 : n.keys[j] < k
        /\ i <= Len(n.keys) => n.keys[i] >= k

\* Mutant: the value goes to the end.
InLeafValueLast(n, k, v) ==
    [n EXCEPT !.keys = InsertAt(@, Place(n, k), k), !.ptrs = Append(@, v)]

InLeaf(n, k, v) ==
    [n EXCEPT !.keys = InsertAt(@, Place(n, k), k), !.ptrs = InsertAt(@, Place(n, k), v)]

\* Mutant: a key that equals a separator goes left.
ChildLeft(n, k) == n.ptrs[Place(n, k)]

\* The child to descend to: separators are the least keys of right children.
Child(n, k) == n.ptrs[Place(n, k + 1)]

\* findLeaf, from a root, a node a step.  A zero page leads it to the catalog's.
Down(p, k) == IF pages[p].leaf \/ p = Catalog THEN p ELSE Child(pages[p], k)

FindLeaf(from, k) ==
    LET at[i \in 0 .. MaxPages] == IF i = 0 THEN from ELSE Down(at[i - 1], k)
    IN  at[MaxPages]

Search(from, k) ==
    LET n == pages[FindLeaf(from, k)]
    IN  IF n.leaf /\ Has(n, k) THEN n.ptrs[Place(n, k)] ELSE NoValue

\* RangeScan of a leaf, which ends at one with a key above the range.
ScanLeaf(s, low, high) ==
    LET n == pages[s.at]
        above == \E i \in DOMAIN n.keys : n.keys[i] > high
    IN  IF s.at = NoPage THEN s
        ELSE [at  |-> IF above THEN NoPage ELSE n.next,
              out |-> s.out \o SubSeq(n.ptrs, Place(n, low), Place(n, high + 1) - 1)]

\* RangeScan, leaf by leaf.
RangeScan(from, low, high) ==
    LET scan[i \in 0 .. MaxPages] ==
            IF i = 0 THEN [at |-> FindLeaf(from, low), out |-> <<>>]
            ELSE ScanLeaf(scan[i - 1], low, high)
    IN  scan[MaxPages].out

-----------------------------------------------------------------------------
Write(p, n) == [id |-> p, node |-> n]
Idle == queue = <<>> /\ climb = NoClimb
RootInUse == IF catRoot = NoPage THEN rootID ELSE catRoot
RootIsKnown == pages[RootInUse].parent = NoPage

\* btree.New in CreateIndex.
Init ==
    /\ pages = [p \in PageId |-> IF p = 1 THEN EmptyLeaf ELSE Zero]
    /\ nextPage = 2
    /\ rootID = 1
    /\ catRoot = NoPage
    /\ queue = <<>> /\ climb = NoClimb
    /\ failed = FALSE
    /\ entries = [k \in Key |-> NoValue]

\* Mutant: the right half ends the list of leaves.
SplitLeafCuttingTheList(p, n) ==
    LET mid == Len(n.keys) \div 2
        right == [n EXCEPT !.keys = SubSeq(@, mid + 1, Len(@)),
                           !.ptrs = SubSeq(@, mid + 1, Len(@)), !.next = NoPage]
        left == [n EXCEPT !.keys = SubSeq(@, 1, mid), !.ptrs = SubSeq(@, 1, mid),
                          !.next = nextPage]
    IN  /\ queue' = <<Write(p, left), Write(nextPage, right)>>
        /\ climb' = [left |-> p, key |-> right.keys[1], right |-> nextPage]
        /\ nextPage' = nextPage + 1

\* splitLeaf writes the left half first.
SplitLeaf(p, n) ==
    LET mid == Len(n.keys) \div 2
        right == [n EXCEPT !.keys = SubSeq(@, mid + 1, Len(@)),
                           !.ptrs = SubSeq(@, mid + 1, Len(@))]
        left == [n EXCEPT !.keys = SubSeq(@, 1, mid), !.ptrs = SubSeq(@, 1, mid),
                          !.next = nextPage]
    IN  /\ queue' = <<Write(p, left), Write(nextPage, right)>>
        /\ climb' = [left |-> p, key |-> right.keys[1], right |-> nextPage]
        /\ nextPage' = nextPage + 1

\* A bound: a tree whose root is lost takes no key for the second time.
Bounded(k) ==
    /\ nextPage + MaxSplits <= MaxPages
    /\ entries[k] # NoValue => RootIsKnown

\* Insert, of a key that findLeaf does not lead to (else ErrDuplicateKey).
Insert(k, v) ==
    /\ Idle /\ ~failed /\ Bounded(k)
    /\ LET p == FindLeaf(RootInUse, k)
           n == InLeaf(pages[p], k, v)
       IN  /\ ~Has(pages[p], k)
           /\ \/ /\ ~IsOver(n)
                 /\ queue' = <<Write(p, n)>>
                 /\ UNCHANGED <<climb, nextPage>>
              \/ IsOver(n) /\ SplitLeaf(p, n)
    /\ rootID' = RootInUse
    /\ entries' = [entries EXCEPT ![k] = v]
    /\ UNCHANGED <<pages, catRoot, failed>>

\* Mutant: the write is made again and again.
WriteNodeAgain ==
    /\ queue # <<>>
    /\ pages' = [pages EXCEPT ![Head(queue).id] = Head(queue).node]
    /\ UNCHANGED <<nextPage, rootID, catRoot, queue, climb, failed, entries>>

\* writeNode, of the next node.
WriteNode ==
    /\ queue # <<>> /\ Fits(Head(queue).node)
    /\ pages' = [pages EXCEPT ![Head(queue).id] = Head(queue).node]
    /\ queue' = Tail(queue)
    /\ UNCHANGED <<nextPage, rootID, catRoot, climb, failed, entries>>

\* createNewRoot: only this tree in memory learns of its new root.
CreateNewRoot(left, key, right) ==
    LET new == nextPage
        node == [leaf |-> FALSE, keys |-> <<key>>, ptrs |-> <<left, right>>,
                 parent |-> NoPage, next |-> NoPage]
    IN  /\ nextPage' = nextPage + 1
        /\ rootID' = new
        /\ queue' = <<Write(left, [pages[left] EXCEPT !.parent = new]),
                      Write(right, [pages[right] EXCEPT !.parent = new]),
                      Write(new, node)>>
        /\ climb' = NoClimb

\* Mutant: the children of the right half keep their parent.
ReparentNot(children, p) == [i \in DOMAIN children |-> Write(children[i], pages[children[i]])]

Reparent(children, p) ==
    [i \in DOMAIN children |-> Write(children[i], [pages[children[i]] EXCEPT !.parent = p])]

\* Mutant: the middle key stays in the left half, as in a leaf.
SplitInternalAsLeaf(p, n, written) ==
    LET mid == 1 + Len(n.keys) \div 2
        new == nextPage
        left == [n EXCEPT !.keys = SubSeq(@, 1, mid), !.ptrs = SubSeq(@, 1, mid)]
        right == [n EXCEPT !.keys = SubSeq(@, mid + 1, Len(@)),
                           !.ptrs = SubSeq(@, mid + 1, Len(@)), !.next = NoPage]
    IN  /\ nextPage' = nextPage + 1
        /\ queue' = <<written>> \o Reparent(right.ptrs, new)
                        \o <<Write(p, left), Write(new, right)>>
        /\ climb' = [left |-> p, key |-> n.keys[mid], right |-> new]

\* splitInternal, of page p with node n, when the right child is written.
SplitInternal(p, n, written) ==
    LET mid == 1 + Len(n.keys) \div 2
        new == nextPage
        left == [n EXCEPT !.keys = SubSeq(@, 1, mid - 1), !.ptrs = SubSeq(@, 1, mid)]
        right == [n EXCEPT !.keys = SubSeq(@, mid + 1, Len(@)),
                           !.ptrs = SubSeq(@, mid + 1, Len(@)), !.next = NoPage]
    IN  /\ nextPage' = nextPage + 1
        /\ queue' = <<written>> \o Reparent(right.ptrs, new)
                        \o <<Write(p, left), Write(new, right)>>
        /\ climb' = [left |-> p, key |-> n.keys[mid], right |-> new]

InsertIntoParent(left, key, right) ==
    LET p == pages[left].parent
        i == CHOOSE j \in DOMAIN pages[p].ptrs : pages[p].ptrs[j] = left
        n == [pages[p] EXCEPT !.keys = InsertAt(@, i, key), !.ptrs = InsertAt(@, i + 1, right)]
        written == Write(right, [pages[right] EXCEPT !.parent = p])
    IN  \/ /\ ~IsOver(n)
           /\ queue' = <<written, Write(p, n)>>
           /\ climb' = NoClimb
           /\ UNCHANGED nextPage
        \/ IsOver(n) /\ SplitInternal(p, n, written)

\* The head of insertIntoParent, once both halves are written.
ClimbUp ==
    /\ queue = <<>> /\ climb # NoClimb
    /\ nextPage < MaxPages
    /\ \/ /\ pages[climb.left].parent = NoPage
          /\ CreateNewRoot(climb.left, climb.key, climb.right)
       \/ /\ pages[climb.left].parent # NoPage
          /\ InsertIntoParent(climb.left, climb.key, climb.right)
          /\ UNCHANGED rootID
    /\ UNCHANGED <<pages, catRoot, failed, entries>>

\* A page cannot be fetched, allocated or written: the insertion ends.  The
\* node may be in the page of the cache by then (serialiseNode).  What later
\* insertions make of a tree that is half changed is not modelled.
InsertFails ==
    /\ ~Idle
    /\ \/ pages' = pages
       \/ /\ queue # <<>> /\ Fits(Head(queue).node)
          /\ pages' = [pages EXCEPT ![Head(queue).id] = Head(queue).node]
    /\ queue' = <<>> /\ climb' = NoClimb
    /\ failed' = TRUE
    /\ UNCHANGED <<nextPage, rootID, catRoot, entries>>

\* The end of CreateIndex.
Register ==
    /\ Idle /\ ~failed /\ catRoot = NoPage
    /\ catRoot' = rootID
    /\ UNCHANGED <<pages, nextPage, rootID, queue, climb, failed, entries>>

Next ==
    \/ \E k \in Key : \E v \in PagesOf[k] : Insert(k, v)
    \/ WriteNode \/ ClimbUp \/ InsertFails \/ Register

Spec == Init /\ [][Next]_vars

\* A goroutine that has begun an insertion goes on with it.
Inserting == WriteNode \/ ClimbUp
FairSpec == Spec /\ WF_vars(Inserting)

-----------------------------------------------------------------------------
(* Properties.                                                             *)

\* The tree is between insertions, and the root in use is a root.
InOrder == Idle /\ ~failed /\ RootIsKnown

\* Search finds every key that was inserted, with its value, and no other.
IndexIsMap == InOrder => \A k \in Key : Search(RootInUse, k) = entries[k]

\* The values of the keys of a range, in the order of the keys.
Expected(low, high) ==
    LET upTo[k \in 0 .. MaxKey] ==
            IF k < low THEN <<>>
            ELSE IF entries[k] = NoValue THEN upTo[k - 1] ELSE Append(upTo[k - 1], entries[k])
    IN  upTo[high]

\* So does RangeScan for the keys of every range, in their order.
ScansAreComplete ==
    InOrder => \A low, high \in Key :
        low <= high => RangeScan(RootInUse, low, high) = Expected(low, high)

\* Between insertions, also where the catalog has lost the root: children know
\* their parents, or insertIntoParent writes beyond its slices; siblings are of
\* one kind, so that all leaves have one depth; and no node but a root is empty.
TreeIsSound ==
    Idle /\ ~failed =>
        \A p \in 1 .. nextPage - 1 : ~pages[p].leaf =>
            /\ \A i \in DOMAIN pages[p].ptrs :
                   /\ pages[pages[p].ptrs[i]].parent = p
                   /\ pages[pages[p].ptrs[i]].keys # <<>>
                   /\ pages[pages[p].ptrs[i]].leaf = pages[pages[p].ptrs[1]].leaf
            /\ \A i, j \in DOMAIN pages[p].ptrs : pages[p].ptrs[i] = pages[p].ptrs[j] => i = j

\* Whatever a search finds, in the middle of a split, after a failed write or
\* from a root that is none any more, is what was last inserted for the key.
SearchNeverLies == \A k \in Key : Search(RootInUse, k) \in {entries[k], NoValue}

\* "RangeScan returns all heap PageIDs for keys in [low, high]": with the root of
\* the catalog, as queries call it, between insertions none of which failed.
ScansFindAll ==
    Idle /\ ~failed => \A low, high \in Key :
        low <= high => RangeScan(RootInUse, low, high) = Expected(low, high)

\* Every insertion ends: its splits climb to the root, and no further; or they
\* end in a panic, on pages without room for the pointer that order forgets.
InsertionsEnd == ~Idle ~> (Idle \/ (~RoomForPointer /\ Panics))
=============================================================================
