--------------------------- MODULE CommittedStore ----------------------------
(***************************************************************************)
(* What the transaction manager promises, without log, cache or recovery:  *)
(* a map of pages in which a transaction's writes appear all at once.      *)
(*                                                                         *)
(*   store   the committed image of each page                              *)
(*   status  of the one transaction there can be                           *)
(*   work    the pages that transaction has written                        *)
(*   direct  the pages that B+tree code writes outside transactions        *)
(***************************************************************************)
EXTENDS Storage

VARIABLES store, status, work, direct

storeVars == <<store, status, work, direct>>

NoWork == [p \in PageId |-> NoData]
Merged == [p \in PageId |-> IF work[p] = NoData THEN store[p] ELSE work[p]]

Init ==
    /\ store = [p \in PageId |-> Zero]
    /\ status = "none"
    /\ work = NoWork
    /\ direct = {}

Begin ==
    /\ status = "none"
    /\ status' = "active"
    /\ UNCHANGED <<store, work, direct>>

Write(p, d) ==
    /\ status = "active" /\ p \notin direct
    /\ work' = [work EXCEPT ![p] = d]
    /\ UNCHANGED <<store, status, direct>>

RequestCommit ==
    /\ status = "active"
    /\ status' = "committing"
    /\ UNCHANGED <<store, work, direct>>

Commit ==
    /\ status = "committing"
    /\ status' = "committed"
    /\ store' = Merged
    /\ work' = NoWork
    /\ UNCHANGED direct

EndCommit ==
    /\ status = "committed"
    /\ status' = "none"
    /\ UNCHANGED <<store, work, direct>>

Abort ==
    /\ status = "active"
    /\ status' = "none"
    /\ work' = NoWork
    /\ UNCHANGED <<store, direct>>

\* Only a transaction that has asked to commit may survive a crash, and it
\* does so as a whole or not at all.
Crash ==
    /\ status' = "none"
    /\ work' = NoWork
    /\ \/ store' = store
       \/ status = "committing" /\ store' = Merged
    /\ UNCHANGED direct

\* A page that has never held anything goes to an index.
Claim(p) ==
    /\ store[p] = Zero /\ work[p] = NoData
    /\ direct' = direct \cup {p}
    /\ UNCHANGED <<store, status, work>>

WriteDirect(p, d) ==
    /\ p \in direct
    /\ store' = [store EXCEPT ![p] = d]
    /\ UNCHANGED <<status, work, direct>>

Next ==
    \/ Begin \/ RequestCommit \/ Commit \/ EndCommit \/ Abort \/ Crash
    \/ \E p \in PageId, d \in Data : Write(p, d) \/ WriteDirect(p, d)
    \/ \E p \in PageId : Claim(p)

Spec == Init /\ [][Next]_storeVars
=============================================================================
