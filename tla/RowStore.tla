------------------------------ MODULE RowStore -------------------------------
(***************************************************************************)
(* What a table promises: a bag of rows, changed by one transaction at a   *)
(* time, in which the changes of a transaction appear all at once.         *)
(*                                                                         *)
(*   rows   how often each record is in the table                          *)
(*   mine   the same, as the open transaction sees it                      *)
(*   open   whether there is one                                           *)
(***************************************************************************)
EXTENDS Naturals

CONSTANTS
    Records,    \* the records that clients insert
    IdOf,       \* the value of each record's "id" column
    HasId       \* whether the table has such a column

VARIABLES rows, mine, open

rowVars == <<rows, mine, open>>

Empty == [r \in Records |-> 0]

\* Some row has the id of r.
IdTaken(r) == \E q \in Records : IdOf[q] = IdOf[r] /\ mine[q] > 0

Init == rows = Empty /\ mine = Empty /\ open = FALSE

Begin == ~open /\ open' = TRUE /\ UNCHANGED <<rows, mine>>

Insert(r) ==
    /\ open
    /\ HasId => ~IdTaken(r)
    /\ mine' = [mine EXCEPT ![r] = @ + 1]
    /\ UNCHANGED <<rows, open>>

Delete(r) ==
    /\ open
    /\ mine[r] > 0
    /\ mine' = [mine EXCEPT ![r] = @ - 1]
    /\ UNCHANGED <<rows, open>>

Commit == open /\ open' = FALSE /\ rows' = mine /\ UNCHANGED mine

Abort == open /\ open' = FALSE /\ mine' = rows /\ UNCHANGED rows

Next == Begin \/ Commit \/ Abort \/ \E r \in Records : Insert(r) \/ Delete(r)

Spec == Init /\ [][Next]_rowVars
=============================================================================
