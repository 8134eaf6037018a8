----------------------------- MODULE MCIdManager -----------------------------
(* Four ids and two pointers: every order in which ids are used and come back. *)
EXTENDS IdManager

CONSTANTS p1, p2

MCVals == {p1, p2}
MCCapacity == 4
=============================================================================
