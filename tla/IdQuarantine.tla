----------------------------- MODULE IdQuarantine -----------------------------
(***************************************************************************)
(* What the users of an id table may rely on, without the queue that       *)
(* provides it: a free id i waits for the ids in before[i], and a released *)
(* id waits for all that are free at that moment.                          *)
(***************************************************************************)
EXTENDS Naturals

CONSTANTS Ids, Vals

VARIABLES live,    \* the ids in use, with what they stand for
          before   \* for each free id, the ids that must be used before it

vars == <<live, before>>

Free == DOMAIN before

Init == /\ live = [i \in {} |-> Vals]
        /\ before = [i \in Ids |-> {j \in Ids : j < i}]

Allocate(i, val) ==
  /\ before[i] = {}
  /\ live' = [j \in DOMAIN live \cup {i} |-> IF j = i THEN val ELSE live[j]]
  /\ before' = [j \in Free \ {i} |-> before[j] \ {i}]

Release(i) ==
  /\ live' = [j \in DOMAIN live \ {i} |-> live[j]]
  /\ before' = [j \in Free \cup {i} |-> IF j = i THEN Free ELSE before[j]]

Next == \/ \E i \in Free, val \in Vals : Allocate(i, val)
        \/ \E i \in DOMAIN live : Release(i)

Spec == Init /\ [][Next]_vars
=============================================================================
