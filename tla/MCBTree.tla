------------------------------- MODULE MCBTree -------------------------------
(***************************************************************************)
(* Instances of BTree for TLC: nodes of two keys, whose third one splits   *)
(* them.  The first key may lie on two heap pages, the others on one.      *)
(*                                                                         *)
(*   tight  whether the pages are by the four bytes smaller that order()   *)
(*          does not count for the pointer more of an internal node: 8192  *)
(*          bytes have just these four with FLOAT keys, and lack them with *)
(*          INT keys                                                       *)
(***************************************************************************)
EXTENDS BTree

CONSTANTS h1, h2

PagesOfKey == [k \in Key |-> IF k = 1 THEN {h1, h2} ELSE IF k % 2 = 0 THEN {h2} ELSE {h1}]

VARIABLE tight

Tight == INSTANCE BTree WITH PageSize <- PageSize - PidSize

EitherInit == Init /\ tight \in BOOLEAN

EitherNext ==
    \/ ~tight /\ Next /\ UNCHANGED tight
    \/ tight /\ Tight!Next /\ UNCHANGED tight

EitherSpec ==
    /\ EitherInit /\ [][EitherNext]_<<vars, tight>>
    /\ WF_<<vars, tight>>(~tight /\ Inserting /\ UNCHANGED tight)
    /\ WF_<<vars, tight>>(tight /\ Tight!Inserting /\ UNCHANGED tight)

\* Every insertion ends where a page has the four bytes; where it has not, one
\* that fills an internal node panics and does nothing more.
EitherEnds == (~tight => InsertionsEnd) /\ (tight => Tight!InsertionsEnd)
=============================================================================
