--------------------------- MODULE JoinedSequences ---------------------------
(***************************************************************************)
(* A sequence of sequences joined to one.  FlattenSeq of SequencesExt does *)
(* the same by a fold; here it is a recursive function, so that proofs can *)
(* be about it.                                                            *)
(***************************************************************************)
EXTENDS Naturals, Sequences

\* The first n of them joined, for each n.
JoinedTo(seqs) ==
  LET joined[n \in Nat] == IF n = 0 THEN <<>> ELSE joined[n - 1] \o seqs[n]
  IN  joined

Joined(seqs) == JoinedTo(seqs)[Len(seqs)]
=============================================================================
