--------------------------- MODULE CommandService ---------------------------
(***************************************************************************)
(* What a program that uses the client library relies on, whatever happens *)
(* to lines, buffers, sockets and the server between: commands are executed *)
(* in the order of their calls, each at most once and none that was        *)
(* rejected before; a promise is resolved only when its command has been   *)
(* executed, and once it is settled it stays as it is.                     *)
(***************************************************************************)
EXTENDS Naturals, Sequences

CONSTANT MaxCommands

Commands == 1 .. MaxCommands

VARIABLES issued,   \* commands called so far
          settled,  \* their promises
          executed  \* the commands executed, in order

Init == /\ issued = 0
        /\ settled = [n \in Commands |-> "waiting"]
        /\ executed = <<>>

Open == {n \in 1 .. issued : settled[n] = "waiting"}

Settle(S, outcome) ==
  settled' = [n \in Commands |-> IF n \in S THEN outcome ELSE settled[n]]

\* The promise of a command may be rejected from the start.
Call == /\ issued < MaxCommands
        /\ issued' = issued + 1
        /\ UNCHANGED settled \/ Settle({issued'}, "rejected")
        /\ UNCHANGED executed

\* Commands that can be executed together.
Batches == {ns \in UNION {[1 .. m -> Commands] : m \in Commands} :
              \A j, k \in DOMAIN ns : j < k => ns[j] < ns[k]}

Execute(ns) == /\ \A k \in DOMAIN ns : /\ ns[k] \in Open
                                       /\ \A j \in DOMAIN executed : executed[j] < ns[k]
               /\ executed' = executed \o ns
               /\ UNCHANGED <<issued, settled>>

Answer(S) == /\ S \subseteq Open
             /\ \A n \in S : \E j \in DOMAIN executed : executed[j] = n
             /\ Settle(S, "answered")
             /\ UNCHANGED <<issued, executed>>

\* The server is gone: it may have executed some of them.
Fail(S) == /\ S \subseteq Open
           /\ Settle(S, "rejected")
           /\ UNCHANGED <<issued, executed>>

Next == \/ Call
        \/ \E ns \in Batches : Execute(ns)
        \/ \E S \in SUBSET Commands : Answer(S) \/ Fail(S)

Spec == Init /\ [][Next]_<<issued, settled, executed>>
=============================================================================
