------------------------------- MODULE Pager --------------------------------
(***************************************************************************)
(* The page cache of internal/storage/pager/pager.go over the file of      *)
(* internal/storage/disk/disk_manager.go.  Every call runs under Pager.mu  *)
(* (FetchPage re-checks the cache after it has taken the lock), so each is *)
(* one step.                                                               *)
(*                                                                         *)
(*   disk        the image of each page in the file                        *)
(*   size        how many pages the file has                               *)
(*   cache       Pager.pages; NoData where the map has no entry            *)
(*   nextPageID  the next page number to allocate                          *)
(***************************************************************************)
EXTENDS Storage

VARIABLES disk, size, cache, nextPageID

pagerVars == <<disk, size, cache, nextPageID>>

PagerTypeOK ==
    /\ disk \in [PageId -> Data]
    /\ size \in 0 .. MaxPages
    /\ cache \in [PageId -> Image]
    /\ nextPageID \in 0 .. MaxPages

EmptyCache == [p \in PageId |-> NoData]

\* What a caller of FetchPage is given.
Visible(p) == IF cache[p] = NoData THEN disk[p] ELSE cache[p]

Cached == {p \in PageId : cache[p] # NoData}

-----------------------------------------------------------------------------
\* FetchPage: a miss fills the cache from the file.
PagerFetch(p) ==
    /\ p < nextPageID
    /\ cache' = [cache EXCEPT ![p] = Visible(p)]
    /\ UNCHANGED <<disk, size, nextPageID>>

\* Mutant: every write counts as an append.
GrownByEveryWrite(p) == size + 1

\* The size of the file once page p has been written.
Grown(p) == IF size > p THEN size ELSE p + 1

\* WritePage: WriteAt and fsync, then the cache entry.  It does not ask
\* whether the page was ever allocated, and leaves nextPageID alone.
PagerWrite(p, d) ==
    /\ disk' = [disk EXCEPT ![p] = d]
    /\ cache' = [cache EXCEPT ![p] = d]
    /\ size' = Grown(p)
    /\ UNCHANGED nextPageID

\* WritePage returns an error: the file keeps the old image, has the new one
\* (the fsync failed) or a mix of them (a short write); the cache is as before.
PagerWriteFails(p, d) ==
    /\ "page" \in Faults
    /\ \E e \in {disk[p], d, Torn} : disk' = [disk EXCEPT ![p] = e]
    /\ UNCHANGED <<size, cache, nextPageID>>

\* AllocatePage: the next page number, written to the file as zeros.
PagerAllocate ==
    /\ nextPageID < MaxPages
    /\ disk' = [disk EXCEPT ![nextPageID] = Zero]
    /\ cache' = [cache EXCEPT ![nextPageID] = Zero]
    /\ size' = Grown(nextPageID)
    /\ nextPageID' = nextPageID + 1

\* Mutant: a failed AllocatePage does not take the number back.
PagerAllocateFailsKeepingNumber ==
    /\ "page" \in Faults
    /\ nextPageID < MaxPages
    /\ nextPageID' = nextPageID + 1
    /\ UNCHANGED <<disk, size, cache>>

\* AllocatePage returns an error after it has taken the number back; the
\* file may have grown.
PagerAllocateFails ==
    /\ "page" \in Faults
    /\ nextPageID < MaxPages
    /\ \/ size' = size /\ disk' = disk
       \/ /\ size' = Grown(nextPageID)
          /\ disk' = [disk EXCEPT ![nextPageID] = Zero]
    /\ UNCHANGED <<cache, nextPageID>>

\* FlushAll rewrites the cached pages; Flushed(S) is the file once those of S
\* have been rewritten.
Flushed(S) == [p \in PageId |-> IF p \in S THEN cache[p] ELSE disk[p]]

PagerFlush ==
    /\ disk' = Flushed(Cached)
    /\ UNCHANGED <<size, cache, nextPageID>>

\* FlushAll stops at the first page whose write fails.
PagerFlushFails ==
    /\ "page" \in Faults
    /\ \E S \in SUBSET Cached : disk' = Flushed(S)
    /\ UNCHANGED <<size, cache, nextPageID>>

\* Evict, and the FetchPage with which Catalog.Reload follows it.
PagerReload(p) ==
    /\ p < nextPageID
    /\ cache' = [cache EXCEPT ![p] = disk[p]]
    /\ UNCHANGED <<disk, size, nextPageID>>

\* Mutant: the last page of the file is taken for the next one to allocate.
PagerOpenReusingLastPage ==
    /\ cache' = EmptyCache
    /\ nextPageID' = size - 1
    /\ UNCHANGED <<disk, size>>

\* New: an empty cache, the next page number from the size of the file.
PagerOpen ==
    /\ cache' = EmptyCache
    /\ nextPageID' = size
    /\ UNCHANGED <<disk, size>>
=============================================================================
