------------------------------- MODULE Storage -------------------------------
(***************************************************************************)
(* The values the storage layers exchange: page numbers, page images and   *)
(* transaction numbers.  A page image is opaque to the layers modelled     *)
(* over this module (page.Page holds an id and a byte slice), so it is a   *)
(* member of Values, the all-zero image of a fresh page, or the mix of two *)
(* images that an interrupted 4 KiB write leaves behind.                   *)
(***************************************************************************)
EXTENDS Naturals

CONSTANTS
    Values,     \* the page images that clients write
    Zero,       \* the all-zero image of a freshly allocated page
    Torn,       \* what an interrupted write of a page leaves in the file
    NoData,     \* "this map has no entry for the page"
    MaxPages,   \* bound on the pages of the database file
    MaxTx,      \* bound on the transactions begun between two restarts
    Faults      \* the I/O calls that may return an error

\* The I/O errors that the code has a branch for.
FaultPoints == {"append", "sync", "page"}

ASSUME StorageAssumption ==
    /\ MaxPages \in Nat \ {0}
    /\ MaxTx \in Nat \ {0}
    /\ Faults \subseteq FaultPoints
    /\ Zero \notin Values
    /\ Torn \notin Values \cup {Zero}
    /\ NoData \notin Values \cup {Zero, Torn}

PageId == 0 .. MaxPages - 1
TxId   == 1 .. MaxTx
Data   == Values \cup {Zero, Torn}
Image  == Data \cup {NoData}
=============================================================================
