---------------------------- MODULE MCHeapTable -----------------------------
(***************************************************************************)
(* Instances of HeapTable for TLC.  A page holds one long record or two    *)
(* of the others, each to the last byte; a wide record would fit but for   *)
(* its frame.                                                              *)
(***************************************************************************)
EXTENDS HeapTable

CONSTANTS long, wide, other

SizeOf == [r \in Records |-> IF r = wide THEN 47 ELSE IF r = long THEN 43 ELSE 19]
IdOfRecord == [r \in Records |-> IF r = other THEN 2 ELSE 1]

\* Once the log lacks a record, a restart ends what is modelled of the table, so
\* what the log holds besides makes no difference to any property.
Told ==
    <<pages, nextPage, txVars, gaps, reader,
      IF "open" \in gaps THEN NoWork ELSE mylog, IF "log" \in gaps THEN NoWork ELSE logged>>
=============================================================================
