----------------------------- MODULE MCCallTable -----------------------------
(* Three addresses and two ids for three calls: both are reused, a call may    *)
(* come while the table of ids is full, and a new call may get its id in the   *)
(* read in which the call that had it ended, with three events waiting.        *)
EXTENDS CallTable

CONSTANTS a1, a2, a3

MCAddrs == {a1, a2, a3}
MCSymmetry == Permutations(MCAddrs)
=============================================================================
