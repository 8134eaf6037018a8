------------------------ MODULE CommandChannelProofs ------------------------
(***************************************************************************)
(* Proofs about CommandChannel, for any number of commands of any lengths  *)
(* and any buffers: however lines are torn by reads, cut or discarded, the *)
(* server executes commands in the order of the calls, each at most once,  *)
(* and a promise is resolved by the answer to its own command.             *)
(*                                                                         *)
(* The argument: all pieces between the client and the server's dispatch   *)
(* are in the order of their commands (InputOrdered), and what has been    *)
(* executed comes before them (ExecutedAhead).  That library and server    *)
(* implement CommandService needs besides that a promise is settled only   *)
(* while it waits (PromisesWait), and that nothing is executed after one   *)
(* was rejected (RejectedAtTheEnd).                                        *)
(***************************************************************************)
EXTENDS CommandChannel, SequenceTheorems, WellFoundedInduction, TLAPS

-----------------------------------------------------------------------------
(***************************************************************************)
(* Joined.  That its recursive function exists, and what it does to a      *)
(* sequence that is made longer at either end, is by induction, here in    *)
(* the form of a set of naturals that is all of them.                      *)
(***************************************************************************)
LEMMA LeastExists ==
  ASSUME NEW T, T \subseteq Nat, T # {}
  PROVE  \E x \in T : \A y \in T : x <= y
<1>1. PICK x \in T : \A y \in T : ~ (<<y, x>> \in OpToRel(<, Nat))
  BY WFMin, NatLessThanWellFounded
<1>2. ASSUME NEW y \in T PROVE ~ (y < x)
  BY <1>1 DEF OpToRel
<1> QED BY <1>2

LEMMA NatSetInduction ==
  ASSUME NEW T, 0 \in T, \A n \in Nat : n \in T => n + 1 \in T
  PROVE  \A n \in Nat : n \in T
<1> SUFFICES ASSUME Nat \ T # {} PROVE FALSE
  OBVIOUS
<1>1. PICK n \in Nat \ T : \A m \in Nat \ T : n <= m
  BY LeastExists
<1>2. n # 0 /\ n - 1 \in Nat
  BY <1>1
<1>3. n - 1 \in T
  BY <1>1, <1>2
<1>4. (n - 1) + 1 \in T
  BY <1>2, <1>3
<1> QED BY <1>1, <1>2, <1>4

\* \o, with its definition hidden.
Then(s, t) == s \o t

\* f[m] is the first m of seqs joined, for m up to n.
JoinsTo(f, n, seqs) ==
  /\ f[0] = <<>>
  /\ \A m \in 1 .. n : f[m] = Then(f[m - 1], seqs[m])

LEMMA JoinExists ==
  ASSUME NEW seqs
  PROVE  \A n \in Nat : \E f : JoinsTo(f, n, seqs)
<1> DEFINE T == {n \in Nat : \E f : JoinsTo(f, n, seqs)}
<1>1. 0 \in T
  <2> DEFINE f == [m \in {0} |-> <<>>]
  <2>1. JoinsTo(f, 0, seqs)
    BY DEF JoinsTo
  <2> QED BY <2>1
<1>2. ASSUME NEW n \in Nat, n \in T PROVE n + 1 \in T
  <2>1. PICK f : JoinsTo(f, n, seqs)
    BY <1>2
  <2> DEFINE g == [m \in 0 .. n + 1 |-> IF m = n + 1 THEN Then(f[n], seqs[n + 1]) ELSE f[m]]
  <2>2. g[0] = <<>>
    BY <2>1 DEF JoinsTo
  <2>3. ASSUME NEW m \in 1 .. n + 1 PROVE g[m] = Then(g[m - 1], seqs[m])
    <3>1. CASE m = n + 1
      <4>1. g[m] = Then(f[n], seqs[n + 1]) /\ g[m - 1] = f[n]
        BY <3>1
      <4> QED BY <3>1, <4>1
    <3>2. CASE m # n + 1
      <4>1. m \in 1 .. n /\ m - 1 \in 0 .. n
        BY <3>2
      <4>2. g[m] = f[m] /\ g[m - 1] = f[m - 1]
        BY <4>1
      <4> QED BY <2>1, <4>1, <4>2 DEF JoinsTo
    <3> QED BY <3>1, <3>2
  <2> HIDE DEF g
  <2>4. JoinsTo(g, n + 1, seqs)
    BY <2>2, <2>3 DEF JoinsTo
  <2> QED BY <2>4
<1> HIDE DEF T
<1>3. \A n \in Nat : n \in T
  BY <1>1, <1>2, NatSetInduction
<1> QED BY <1>3 DEF T

LEMMA JoinsAgree ==
  ASSUME NEW seqs, NEW n \in Nat, NEW f, NEW g, JoinsTo(f, n, seqs), JoinsTo(g, n, seqs)
  PROVE  \A m \in 0 .. n : f[m] = g[m]
<1> DEFINE T == {m \in Nat : m <= n => f[m] = g[m]}
<1>1. 0 \in T
  BY DEF JoinsTo
<1>2. ASSUME NEW m \in Nat, m \in T PROVE m + 1 \in T
  <2> SUFFICES ASSUME m + 1 <= n PROVE f[m + 1] = g[m + 1]
    OBVIOUS
  <2>1. f[m] = g[m] /\ m + 1 \in 1 .. n /\ (m + 1) - 1 = m
    BY <1>2
  <2> QED BY <2>1 DEF JoinsTo
<1> HIDE DEF T
<1>3. \A m \in Nat : m \in T
  BY <1>1, <1>2, NatSetInduction
<1> QED BY <1>3 DEF T

LEMMA JoinedEquation ==
  ASSUME NEW seqs
  PROVE  /\ JoinedTo(seqs)[0] = <<>>
         /\ \A n \in Nat : JoinedTo(seqs)[n + 1] = Then(JoinedTo(seqs)[n], seqs[n + 1])
<1> DEFINE F(n) == CHOOSE f : JoinsTo(f, n, seqs)
           h == [n \in Nat |-> F(n)[n]]
           Seen(s) == s = [n \in Nat |-> IF n = 0 THEN <<>> ELSE Then(s[n - 1], seqs[n])]
<1>1. \A n \in Nat : JoinsTo(F(n), n, seqs)
  BY JoinExists
<1>2. ASSUME NEW n \in Nat PROVE h[n] = IF n = 0 THEN <<>> ELSE Then(h[n - 1], seqs[n])
  <2> HIDE DEF F
  <2>1. JoinsTo(F(n), n, seqs)
    BY <1>1
  <2>2. CASE n = 0
    BY <2>1, <2>2 DEF JoinsTo
  <2>3. CASE n # 0
    <3>1. n - 1 \in Nat /\ JoinsTo(F(n - 1), n - 1, seqs)
      BY <1>1, <2>3
    <3>2. JoinsTo(F(n), n - 1, seqs)
      BY <2>1, <3>1 DEF JoinsTo
    <3>3. F(n)[n - 1] = F(n - 1)[n - 1]
      BY <3>1, <3>2, JoinsAgree
    <3>4. F(n)[n] = Then(F(n)[n - 1], seqs[n])
      BY <2>1, <2>3 DEF JoinsTo
    <3> QED BY <2>3, <3>1, <3>3, <3>4
  <2> QED BY <2>2, <2>3
<1>3. Seen(h)
  <2> HIDE DEF F
  <2> QED BY <1>2
<1>4. JoinedTo(seqs) = CHOOSE s : Seen(s)
  BY DEF JoinedTo, Then
<1> HIDE DEF h
<1>5. Seen(JoinedTo(seqs))
  BY <1>3, <1>4
<1>6. \A n \in Nat : JoinedTo(seqs)[n + 1] = Then(JoinedTo(seqs)[n], seqs[n + 1])
  BY <1>5
<1> QED BY <1>5, <1>6

LEMMA ThenAssociative ==
  ASSUME NEW S, NEW s \in Seq(S), NEW t \in Seq(S), NEW u \in Seq(S)
  PROVE  Then(Then(s, t), u) = Then(s, Then(t, u))
BY ConcatAssociative DEF Then

LEMMA JoinedToType ==
  ASSUME NEW S, NEW seqs \in Seq(Seq(S))
  PROVE  \A n \in 0 .. Len(seqs) : JoinedTo(seqs)[n] \in Seq(S)
<1> DEFINE T == {n \in Nat : n <= Len(seqs) => JoinedTo(seqs)[n] \in Seq(S)}
<1>1. 0 \in T
  BY JoinedEquation, EmptySeq
<1>2. ASSUME NEW n \in Nat, n \in T PROVE n + 1 \in T
  <2> SUFFICES ASSUME n + 1 <= Len(seqs) PROVE JoinedTo(seqs)[n + 1] \in Seq(S)
    OBVIOUS
  <2>1. JoinedTo(seqs)[n] \in Seq(S) /\ seqs[n + 1] \in Seq(S)
    BY <1>2, ElementOfSeq
  <2>2. JoinedTo(seqs)[n + 1] = Then(JoinedTo(seqs)[n], seqs[n + 1])
    BY JoinedEquation
  <2> QED BY <2>1, <2>2, ConcatProperties DEF Then
<1> HIDE DEF T
<1>3. \A n \in Nat : n \in T
  BY <1>1, <1>2, NatSetInduction
<1> QED BY <1>3, LenProperties DEF T

LEMMA JoinedType ==
  ASSUME NEW S, NEW seqs \in Seq(Seq(S))
  PROVE  Joined(seqs) \in Seq(S)
BY JoinedToType, LenProperties DEF Joined

LEMMA JoinedEmpty == Joined(<<>>) = <<>>
BY JoinedEquation DEF Joined

\* One more sequence at the end.
LEMMA JoinedAppend ==
  ASSUME NEW S, NEW seqs \in Seq(Seq(S)), NEW s \in Seq(S)
  PROVE  Joined(Append(seqs, s)) = Joined(seqs) \o s
<1> DEFINE more == Append(seqs, s)
           T == {n \in Nat : n <= Len(seqs) => JoinedTo(more)[n] = JoinedTo(seqs)[n]}
<1>1. /\ Len(seqs) \in Nat /\ Len(more) = Len(seqs) + 1
      /\ \A n \in 1 .. Len(seqs) : more[n] = seqs[n]
      /\ more[Len(seqs) + 1] = s
  BY AppendProperties, LenProperties
<1> HIDE DEF more
<1>2. 0 \in T
  BY JoinedEquation
<1>3. ASSUME NEW n \in Nat, n \in T PROVE n + 1 \in T
  <2> SUFFICES ASSUME n + 1 <= Len(seqs) PROVE JoinedTo(more)[n + 1] = JoinedTo(seqs)[n + 1]
    OBVIOUS
  <2>1. JoinedTo(more)[n] = JoinedTo(seqs)[n] /\ more[n + 1] = seqs[n + 1]
    BY <1>1, <1>3
  <2> QED BY <2>1, JoinedEquation
<1> HIDE DEF T
<1>4. \A n \in Nat : n \in T
  BY <1>2, <1>3, NatSetInduction
<1>5. JoinedTo(more)[Len(seqs)] = JoinedTo(seqs)[Len(seqs)]
  BY <1>1, <1>4 DEF T
<1>6. JoinedTo(more)[Len(seqs) + 1] = Then(JoinedTo(more)[Len(seqs)], more[Len(seqs) + 1])
  BY <1>1, JoinedEquation
<1> QED BY <1>1, <1>5, <1>6 DEF Joined, more, Then

\* One less at the beginning.
LEMMA JoinedTail ==
  ASSUME NEW S, NEW seqs \in Seq(Seq(S)), seqs # <<>>
  PROVE  Joined(seqs) = Head(seqs) \o Joined(Tail(seqs))
<1> DEFINE rest == Tail(seqs)
           T == {n \in Nat : n < Len(seqs) =>
                   JoinedTo(seqs)[n + 1] = Then(Head(seqs), JoinedTo(rest)[n])}
<1>1. /\ Len(seqs) \in Nat \ {0} /\ Head(seqs) = seqs[1] /\ Head(seqs) \in Seq(S)
      /\ rest \in Seq(Seq(S)) /\ Len(rest) = Len(seqs) - 1
      /\ \A n \in 1 .. Len(rest) : rest[n] = seqs[n + 1]
  BY HeadTailProperties, EmptySeq
<1> HIDE DEF rest
<1>2. 0 \in T
  <2>1. JoinedTo(seqs)[0 + 1] = Then(JoinedTo(seqs)[0], seqs[0 + 1])
    BY JoinedEquation
  <2>2. JoinedTo(seqs)[0 + 1] = Then(<<>>, Head(seqs)) /\ JoinedTo(rest)[0] = <<>>
    <3>1. JoinedTo(seqs)[0] = <<>> /\ JoinedTo(rest)[0] = <<>>
      BY JoinedEquation
    <3>2. seqs[0 + 1] = Head(seqs)
      BY <1>1
    <3> QED BY <2>1, <3>1, <3>2
  <2>3. Then(<<>>, Head(seqs)) = Head(seqs) /\ Then(Head(seqs), <<>>) = Head(seqs)
    BY <1>1, ConcatEmptySeq DEF Then
  <2> QED BY <2>2, <2>3
<1>3. ASSUME NEW n \in Nat, n \in T PROVE n + 1 \in T
  <2> SUFFICES ASSUME n + 1 < Len(seqs)
               PROVE  JoinedTo(seqs)[(n + 1) + 1] = Then(Head(seqs), JoinedTo(rest)[n + 1])
    OBVIOUS
  <2>1. n + 1 \in 1 .. Len(rest) /\ n \in 0 .. Len(rest)
    BY <1>1
  <2>2. /\ rest[n + 1] = seqs[(n + 1) + 1]
        /\ rest[n + 1] \in Seq(S) /\ JoinedTo(rest)[n] \in Seq(S)
    BY <1>1, <2>1, ElementOfSeq, JoinedToType
  <2>3. JoinedTo(seqs)[(n + 1) + 1]
          = Then(Then(Head(seqs), JoinedTo(rest)[n]), seqs[(n + 1) + 1])
    <3>1. JoinedTo(seqs)[n + 1] = Then(Head(seqs), JoinedTo(rest)[n])
      BY <1>1, <1>3
    <3>2. JoinedTo(seqs)[(n + 1) + 1] = Then(JoinedTo(seqs)[n + 1], seqs[(n + 1) + 1])
      <4>1. n + 1 \in Nat
        OBVIOUS
      <4> QED BY <4>1, JoinedEquation
    <3> QED BY <3>1, <3>2
  <2>4. JoinedTo(rest)[n + 1] = Then(JoinedTo(rest)[n], rest[n + 1])
    BY JoinedEquation
  <2>5. Then(Then(Head(seqs), JoinedTo(rest)[n]), rest[n + 1])
           = Then(Head(seqs), Then(JoinedTo(rest)[n], rest[n + 1]))
    BY <1>1, <2>2, ThenAssociative
  <2> QED BY <2>2, <2>3, <2>4, <2>5
<1> HIDE DEF T
<1>4. \A n \in Nat : n \in T
  BY <1>2, <1>3, NatSetInduction
<1>5. Len(rest) \in Nat /\ Len(rest) < Len(seqs) /\ Len(rest) + 1 = Len(seqs)
  BY <1>1
<1>6. JoinedTo(seqs)[Len(seqs)] = Then(Head(seqs), JoinedTo(rest)[Len(rest)])
  BY <1>4, <1>5 DEF T
<1> QED BY <1>6 DEF Joined, rest, Then

\* Where the element at place i of a joined sequence comes from: sequence k, its place p.
ComesFrom(seqs, n, i, k, p) ==
  /\ k \in 1 .. n /\ p \in 1 .. Len(seqs[k])
  /\ JoinedTo(seqs)[n][i] = seqs[k][p]

\* Elements come from places in the same order, and each place is there.
Placed(seqs, n) ==
  /\ \A i, j \in 1 .. Len(JoinedTo(seqs)[n]) : i < j =>
       \E k, l \in 1 .. n, p, q \in Nat :
          /\ ComesFrom(seqs, n, i, k, p) /\ ComesFrom(seqs, n, j, l, q)
          /\ k < l \/ (k = l /\ p < q)
  /\ \A i \in 1 .. Len(JoinedTo(seqs)[n]) :
       \E k \in 1 .. n, p \in Nat : ComesFrom(seqs, n, i, k, p)

LEMMA PlacedNext ==
  ASSUME NEW S, NEW seqs \in Seq(Seq(S)), NEW n \in 0 .. Len(seqs) - 1, Placed(seqs, n)
  PROVE  Placed(seqs, n + 1)
<1> DEFINE s == JoinedTo(seqs)[n]
           t == seqs[n + 1]
           u == JoinedTo(seqs)[n + 1]
<1>1. Len(seqs) \in Nat /\ n \in Nat /\ n + 1 \in 1 .. Len(seqs) /\ n \in 0 .. Len(seqs)
  BY LenProperties
<1>2. s \in Seq(S) /\ t \in Seq(S) /\ u = Then(s, t)
  BY <1>1, JoinedToType, JoinedEquation, ElementOfSeq
<1> HIDE DEF s, t, u
<1>3. /\ Len(s) \in Nat /\ Len(t) \in Nat /\ Len(u) = Len(s) + Len(t)
      /\ \A i \in 1 .. Len(u) : u[i] = IF i <= Len(s) THEN s[i] ELSE t[i - Len(s)]
  BY <1>2, ConcatProperties, LenProperties DEF Then
<1>4. ASSUME NEW i \in 1 .. Len(s), NEW k, NEW p, ComesFrom(seqs, n, i, k, p)
      PROVE  ComesFrom(seqs, n + 1, i, k, p)
  <2>1. i \in 1 .. Len(u) /\ u[i] = s[i]
    BY <1>3
  <2>2. k \in 1 .. n /\ p \in 1 .. Len(seqs[k]) /\ s[i] = seqs[k][p]
    BY <1>4 DEF ComesFrom, s
  <2>3. k \in 1 .. n + 1
    BY <1>1, <2>2
  <2> QED BY <2>1, <2>2, <2>3 DEF ComesFrom, u
<1>5. ASSUME NEW i \in 1 .. Len(u), ~ (i <= Len(s))
      PROVE  /\ ComesFrom(seqs, n + 1, i, n + 1, i - Len(s)) /\ i - Len(s) \in Nat
             /\ n + 1 \in 1 .. n + 1
  <2>1. i - Len(s) \in 1 .. Len(t) /\ n + 1 \in 1 .. n + 1
    BY <1>1, <1>3, <1>5
  <2>2. u[i] = t[i - Len(s)]
    BY <1>3, <1>5
  <2> QED BY <2>1, <2>2 DEF ComesFrom, t, u
<1>6. ASSUME NEW i \in 1 .. Len(u)
      PROVE  \E k \in 1 .. n + 1, p \in Nat : ComesFrom(seqs, n + 1, i, k, p)
  <2>1. CASE i <= Len(s)
    <3>1. i \in 1 .. Len(s)
      BY <1>3, <2>1
    <3>2. PICK k \in 1 .. n, p \in Nat : ComesFrom(seqs, n, i, k, p)
      BY <3>1 DEF Placed, s
    <3> QED BY <1>1, <1>4, <3>1, <3>2
  <2>2. CASE ~ (i <= Len(s))
    BY <1>5, <2>2
  <2> QED BY <2>1, <2>2
<1>7. ASSUME NEW i \in 1 .. Len(u), NEW j \in 1 .. Len(u), i < j
      PROVE  \E k, l \in 1 .. n + 1, p, q \in Nat :
                /\ ComesFrom(seqs, n + 1, i, k, p) /\ ComesFrom(seqs, n + 1, j, l, q)
                /\ k < l \/ (k = l /\ p < q)
  <2>1. CASE j <= Len(s)
    <3>1. i \in 1 .. Len(s) /\ j \in 1 .. Len(s)
      BY <1>3, <1>7, <2>1
    <3>2. PICK k \in 1 .. n, l \in 1 .. n, p \in Nat, q \in Nat :
             /\ ComesFrom(seqs, n, i, k, p) /\ ComesFrom(seqs, n, j, l, q)
             /\ k < l \/ (k = l /\ p < q)
      BY <3>1, <1>7 DEF Placed, s
    <3>3. ComesFrom(seqs, n + 1, i, k, p) /\ ComesFrom(seqs, n + 1, j, l, q)
      BY <1>4, <3>1, <3>2
    <3>4. k \in 1 .. n + 1 /\ l \in 1 .. n + 1
      BY <1>1
    <3> QED BY <3>2, <3>3, <3>4
  <2>2. CASE ~ (j <= Len(s)) /\ i <= Len(s)
    <3>1. i \in 1 .. Len(s)
      BY <1>3, <2>2
    <3>2. PICK k \in 1 .. n, p \in Nat : ComesFrom(seqs, n, i, k, p)
      BY <3>1 DEF Placed, s
    <3>3. ComesFrom(seqs, n + 1, i, k, p) /\ k \in 1 .. n + 1 /\ k < n + 1
      BY <1>1, <1>4, <3>1, <3>2
    <3> QED BY <1>5, <2>2, <3>3
  <2>3. CASE ~ (i <= Len(s))
    <3>1. ~ (j <= Len(s)) /\ i - Len(s) < j - Len(s)
      BY <1>3, <1>7, <2>3
    <3> QED BY <1>5, <2>3, <3>1
  <2> QED BY <2>1, <2>2, <2>3
<1> QED BY <1>6, <1>7 DEF Placed, u

LEMMA JoinedPlaces ==
  ASSUME NEW S, NEW seqs \in Seq(Seq(S))
  PROVE  Placed(seqs, Len(seqs))
<1> DEFINE T == {n \in Nat : n <= Len(seqs) => Placed(seqs, n)}
<1>1. 0 \in T
  <2>1. JoinedTo(seqs)[0] = <<>>
    BY JoinedEquation
  <2>2. 1 .. Len(JoinedTo(seqs)[0]) = {}
    BY <2>1
  <2> QED BY <2>2 DEF Placed
<1>2. ASSUME NEW n \in Nat, n \in T PROVE n + 1 \in T
  <2> SUFFICES ASSUME n + 1 <= Len(seqs) PROVE Placed(seqs, n + 1)
    OBVIOUS
  <2>1. n \in 0 .. Len(seqs) - 1 /\ Placed(seqs, n)
    BY <1>2, LenProperties
  <2> QED BY <2>1, PlacedNext
<1> HIDE DEF T
<1>3. \A n \in Nat : n \in T
  BY <1>1, <1>2, NatSetInduction
<1> QED BY <1>3, LenProperties DEF T
-----------------------------------------------------------------------------
(***************************************************************************)
(* The pieces of lines, and what a reader makes of them.                   *)
(***************************************************************************)

\* Piece q may come behind piece p: it is of the same line, which p does not end, or of a
\* later command.
Precedes(p, q) == p.of < q.of \/ (p.of = q.of /\ ~p.end)

Ordered(s) == \A j, k \in DOMAIN s : j < k => Precedes(s[j], s[k])

Follows(s, t) == \A j \in DOMAIN s, k \in DOMAIN t : Precedes(s[j], t[k])

Increasing(ns) == \A j, k \in DOMAIN ns : j < k => ns[j] < ns[k]

LEMMA LineType ==
  ASSUME NEW n \in Commands, NEW len \in Nat
  PROVE  /\ Line(n, len) \in Seq(Pieces) /\ Len(Line(n, len)) = len
         /\ \A k \in 1 .. len : /\ Line(n, len)[k].of = n
                                /\ Line(n, len)[k].end <=> k = len
<1>1. \A k \in 1 .. len : [of |-> n, first |-> k = 1, end |-> k = len] \in Pieces
  BY DEF Pieces
<1>2. DOMAIN Line(n, len) = 1 .. len /\ Line(n, len) \in [1 .. len -> Pieces]
  BY <1>1 DEF Line
<1>3. Line(n, len) \in Seq(Pieces) /\ Len(Line(n, len)) = len
  BY <1>2
<1>4. \A k \in 1 .. len : Line(n, len)[k] = [of |-> n, first |-> k = 1, end |-> k = len]
  BY DEF Line
<1>5. ASSUME NEW k \in 1 .. len
      PROVE  Line(n, len)[k].of = n /\ (Line(n, len)[k].end <=> k = len)
  <2>1. Line(n, len)[k] = [of |-> n, first |-> k = 1, end |-> k = len]
    BY <1>4
  <2>2. Line(n, len)[k].of = n
    BY <2>1
  <2>3. Line(n, len)[k].end = (k = len)
    BY <2>1
  <2> QED BY <2>2, <2>3
<1> QED BY <1>3, <1>5

\* The lines of ns, each of one of the lengths lens.
LinesOf(ns, lens) == [k \in DOMAIN ns |-> Line(ns[k], lens[k])]

LEMMA LinesJoined ==
  ASSUME NEW ns \in Seq(Commands), NEW lens \in [DOMAIN ns -> Nat]
  PROVE  LET all == Joined(LinesOf(ns, lens)) IN
         /\ all \in Seq(Pieces)
         /\ \A i \in DOMAIN all : \E k \in DOMAIN ns : all[i].of = ns[k]
         /\ Increasing(ns) => Ordered(all)
<1> DEFINE seqs == LinesOf(ns, lens)
<1>1. DOMAIN ns = 1 .. Len(ns) /\ Len(ns) \in Nat /\ \A k \in DOMAIN ns : ns[k] \in Commands
  BY LenProperties, ElementOfSeq
<1>2. \A k \in DOMAIN ns :
         /\ seqs[k] \in Seq(Pieces) /\ Len(seqs[k]) = lens[k] /\ lens[k] \in Nat
         /\ \A p \in 1 .. lens[k] : seqs[k][p].of = ns[k] /\ (seqs[k][p].end <=> p = lens[k])
  <2> SUFFICES ASSUME NEW k \in DOMAIN ns
               PROVE  /\ seqs[k] \in Seq(Pieces) /\ Len(seqs[k]) = lens[k] /\ lens[k] \in Nat
                      /\ \A p \in 1 .. lens[k] : /\ seqs[k][p].of = ns[k]
                                                 /\ (seqs[k][p].end <=> p = lens[k])
    OBVIOUS
  <2>1. seqs[k] = Line(ns[k], lens[k]) /\ lens[k] \in Nat /\ ns[k] \in Commands
    BY <1>1 DEF LinesOf
  <2> HIDE DEF seqs
  <2>2. /\ Line(ns[k], lens[k]) \in Seq(Pieces) /\ Len(Line(ns[k], lens[k])) = lens[k]
        /\ \A p \in 1 .. lens[k] : /\ Line(ns[k], lens[k])[p].of = ns[k]
                                   /\ Line(ns[k], lens[k])[p].end <=> p = lens[k]
    BY <2>1, LineType
  <2> QED BY <2>1, <2>2
<1>3. seqs \in Seq(Seq(Pieces)) /\ Len(seqs) = Len(ns)
  <2>1. seqs \in [1 .. Len(ns) -> Seq(Pieces)]
    BY <1>1, <1>2 DEF LinesOf
  <2> QED BY <1>1, <2>1
<1> HIDE DEF seqs
<1>4. Joined(seqs) \in Seq(Pieces)
  BY <1>3, JoinedType
<1>5. Placed(seqs, Len(ns)) /\ Joined(seqs) = JoinedTo(seqs)[Len(ns)]
  BY <1>3, JoinedPlaces DEF Joined
<1>6. DOMAIN Joined(seqs) = 1 .. Len(Joined(seqs))
  BY <1>4, LenProperties
<1>7. ASSUME NEW i \in DOMAIN Joined(seqs)
      PROVE  \E k \in DOMAIN ns : Joined(seqs)[i].of = ns[k]
  <2>1. PICK k \in 1 .. Len(ns), p \in Nat : ComesFrom(seqs, Len(ns), i, k, p)
    BY <1>5, <1>6 DEF Placed
  <2> QED BY <1>1, <1>2, <1>5, <2>1 DEF ComesFrom
<1>8. ASSUME Increasing(ns), NEW i \in DOMAIN Joined(seqs), NEW j \in DOMAIN Joined(seqs),
             i < j
      PROVE  Precedes(Joined(seqs)[i], Joined(seqs)[j])
  <2>1. PICK k \in 1 .. Len(ns), l \in 1 .. Len(ns), p \in Nat, q \in Nat :
           /\ ComesFrom(seqs, Len(ns), i, k, p) /\ ComesFrom(seqs, Len(ns), j, l, q)
           /\ k < l \/ (k = l /\ p < q)
    BY <1>5, <1>6, <1>8 DEF Placed
  <2>2. /\ p \in 1 .. lens[k] /\ q \in 1 .. lens[l] /\ lens[k] \in Nat
        /\ Joined(seqs)[i].of = ns[k] /\ Joined(seqs)[j].of = ns[l]
        /\ Joined(seqs)[i].end <=> p = lens[k]
    BY <1>1, <1>2, <1>5, <2>1 DEF ComesFrom
  <2>3. CASE k < l
    BY <1>1, <1>8, <2>2, <2>3 DEF Increasing, Precedes
  <2>4. CASE k = l /\ p < q
    BY <2>2, <2>4 DEF Precedes
  <2> QED BY <2>1, <2>3, <2>4
<1> QED BY <1>4, <1>7, <1>8 DEF Ordered, seqs

LEMMA LinesOrdered ==
  ASSUME NEW ns \in Seq(Commands)
  PROVE  /\ Lines(ns) \in Seq(Pieces)
         /\ \A i \in DOMAIN Lines(ns) : \E k \in DOMAIN ns : Lines(ns)[i].of = ns[k]
         /\ Increasing(ns) => Ordered(Lines(ns))
<1> DEFINE lens == [k \in DOMAIN ns |-> LineLen(ns[k])]
<1>1. lens \in [DOMAIN ns -> Nat]
  BY ChannelAssumption DEF LineLen
<1>2. Lines(ns) = Joined(LinesOf(ns, lens))
  BY DEF Lines, LinesOf
<1> HIDE DEF lens
<1>3. /\ Joined(LinesOf(ns, lens)) \in Seq(Pieces)
      /\ \A i \in DOMAIN Joined(LinesOf(ns, lens)) :
           \E k \in DOMAIN ns : Joined(LinesOf(ns, lens))[i].of = ns[k]
      /\ Increasing(ns) => Ordered(Joined(LinesOf(ns, lens)))
  BY <1>1, LinesJoined
<1> QED BY <1>2, <1>3

AnswerLines(ns) == Joined([k \in DOMAIN ns |-> Line(ns[k], 2)])

LEMMA AnswersJoined ==
  ASSUME NEW ns \in Seq(Commands)
  PROVE  /\ AnswerLines(ns) \in Seq(Pieces)
         /\ \A i \in DOMAIN AnswerLines(ns) :
              \E k \in DOMAIN ns : AnswerLines(ns)[i].of = ns[k]
<1> DEFINE lens == [k \in DOMAIN ns |-> 2]
<1>1. lens \in [DOMAIN ns -> Nat] /\ AnswerLines(ns) = Joined(LinesOf(ns, lens))
  BY DEF AnswerLines, LinesOf
<1> HIDE DEF lens
<1> QED BY <1>1, LinesJoined

\* A reader takes the commands of lines that are ended in what it has, in their order.
LEMMA WholeLines ==
  ASSUME NEW buf \in Seq(Pieces)
  PROVE  /\ Whole(buf) \in Seq(Commands)
         /\ \A i \in DOMAIN Whole(buf) :
              \E k \in DOMAIN buf : buf[k].end /\ buf[k].of = Whole(buf)[i]
         /\ Ordered(buf) => Increasing(Whole(buf))
<1> DEFINE seqs == [k \in DOMAIN buf |-> Completed(buf, k)]
<1>1. DOMAIN buf = 1 .. Len(buf) /\ Len(buf) \in Nat /\ \A k \in DOMAIN buf : buf[k] \in Pieces
  BY LenProperties, ElementOfSeq
<1>2. \A k \in DOMAIN buf :
         /\ seqs[k] \in Seq(Commands)
         /\ \A p \in 1 .. Len(seqs[k]) : p = 1 /\ seqs[k][p] = buf[k].of /\ buf[k].end
  <2> SUFFICES ASSUME NEW k \in DOMAIN buf
               PROVE  /\ Completed(buf, k) \in Seq(Commands)
                      /\ \A p \in 1 .. Len(Completed(buf, k)) :
                           p = 1 /\ Completed(buf, k)[p] = buf[k].of /\ buf[k].end
    OBVIOUS
  <2>1. buf[k].of \in Commands
    BY <1>1 DEF Pieces
  <2>2. CASE Completed(buf, k) = <<>>
    BY <2>2
  <2>3. CASE Completed(buf, k) = <<buf[k].of>> /\ buf[k].end
    BY <2>1, <2>3
  <2> QED BY <2>2, <2>3 DEF Completed
<1>3. seqs \in Seq(Seq(Commands)) /\ Len(seqs) = Len(buf)
  <2>1. seqs \in [1 .. Len(buf) -> Seq(Commands)]
    BY <1>1, <1>2
  <2> QED BY <1>1, <2>1
<1> HIDE DEF seqs
<1>4. Whole(buf) = Joined(seqs)
  BY DEF Whole, seqs
<1>5. Joined(seqs) \in Seq(Commands)
  BY <1>3, JoinedType
<1>6. Placed(seqs, Len(buf)) /\ Joined(seqs) = JoinedTo(seqs)[Len(buf)]
  BY <1>3, JoinedPlaces DEF Joined
<1>7. DOMAIN Joined(seqs) = 1 .. Len(Joined(seqs))
  BY <1>5, LenProperties
<1>8. ASSUME NEW i \in DOMAIN Joined(seqs)
      PROVE  \E k \in DOMAIN buf : buf[k].end /\ buf[k].of = Joined(seqs)[i]
  <2>1. PICK k \in 1 .. Len(buf), p \in Nat : ComesFrom(seqs, Len(buf), i, k, p)
    BY <1>6, <1>7 DEF Placed
  <2> QED BY <1>1, <1>2, <1>6, <2>1 DEF ComesFrom
<1>9. ASSUME Ordered(buf), NEW i \in DOMAIN Joined(seqs), NEW j \in DOMAIN Joined(seqs), i < j
      PROVE  Joined(seqs)[i] < Joined(seqs)[j]
  <2>1. PICK k \in 1 .. Len(buf), l \in 1 .. Len(buf), p \in Nat, q \in Nat :
           /\ ComesFrom(seqs, Len(buf), i, k, p) /\ ComesFrom(seqs, Len(buf), j, l, q)
           /\ k < l \/ (k = l /\ p < q)
    BY <1>6, <1>7, <1>9 DEF Placed
  <2>2. /\ p = 1 /\ q = 1 /\ buf[k].end
        /\ Joined(seqs)[i] = buf[k].of /\ Joined(seqs)[j] = buf[l].of
    BY <1>1, <1>2, <1>6, <2>1 DEF ComesFrom
  <2>3. k < l
    BY <2>1, <2>2
  <2> QED BY <1>1, <1>9, <2>2, <2>3 DEF Ordered, Precedes
<1> QED BY <1>4, <1>5, <1>8, <1>9 DEF Increasing

LEMMA GreatestExists ==
  ASSUME NEW n \in Nat, NEW E, E \subseteq 1 .. n, E # {}
  PROVE  \E e \in E : \A k \in E : k <= e
<1> DEFINE T == {n - k : k \in E}
<1>1. T \subseteq Nat /\ T # {}
  OBVIOUS
<1>2. PICK x \in T : \A y \in T : x <= y
  BY <1>1, LeastExists
<1>3. PICK e \in E : x = n - e
  BY <1>2
<1>4. ASSUME NEW k \in E PROVE k <= e
  <2>1. x <= n - k
    BY <1>2
  <2> QED BY <1>3, <2>1
<1> QED BY <1>4

\* A read of the first n pieces of t by a reader that has s, and what is left of t.
Chunk(s, t, n) == s \o SubSeq(t, 1, n)
Beyond(t, n) == SubSeq(t, n + 1, Len(t))

LEMMA BeyondFacts ==
  ASSUME NEW t \in Seq(Pieces), NEW n \in 1 .. Len(t)
  PROVE  /\ Beyond(t, n) \in Seq(Pieces) /\ Len(Beyond(t, n)) = Len(t) - n
         /\ \A k \in 1 .. Len(t) - n : Beyond(t, n)[k] = t[n + k]
<1>1. Len(t) \in Nat /\ n \in Nat /\ n <= Len(t) /\ \A k \in 1 .. Len(t) : t[k] \in Pieces
  BY LenProperties, ElementOfSeq
<1>2. \A k \in n + 1 .. Len(t) : t[k] \in Pieces
  BY <1>1
<1>3. /\ Beyond(t, n) \in Seq(Pieces)
      /\ Len(Beyond(t, n)) = IF n + 1 <= Len(t) THEN Len(t) - (n + 1) + 1 ELSE 0
      /\ \A k \in 1 .. Len(t) - (n + 1) + 1 : Beyond(t, n)[k] = t[(n + 1) + k - 1]
  BY <1>1, <1>2, SubSeqProperties DEF Beyond
<1>4. ASSUME NEW k \in 1 .. Len(t) - n PROVE Beyond(t, n)[k] = t[n + k]
  <2>1. k \in 1 .. Len(t) - (n + 1) + 1 /\ (n + 1) + k - 1 = n + k
    BY <1>1
  <2>2. Beyond(t, n)[k] = t[(n + 1) + k - 1]
    BY <1>3, <2>1
  <2> QED BY <2>1, <2>2
<1>5. Len(Beyond(t, n)) = Len(t) - n
  BY <1>1, <1>3
<1> QED BY <1>3, <1>4, <1>5

\* What remains is what is behind the last end.
LEMMA RestOfLines ==
  ASSUME NEW buf \in Seq(Pieces)
  PROVE  /\ Rest(buf) \in Seq(Pieces)
         /\ \E e \in 0 .. Len(buf) :
              /\ Len(Rest(buf)) = Len(buf) - e
              /\ \A k \in 1 .. Len(Rest(buf)) : Rest(buf)[k] = buf[e + k]
              /\ \A k \in DOMAIN buf : buf[k].end => k <= e
<1>1. DOMAIN buf = 1 .. Len(buf) /\ Len(buf) \in Nat /\ \A k \in DOMAIN buf : buf[k] \in Pieces
  BY LenProperties, ElementOfSeq
<1>2. CASE Ends(buf) = {}
  <2>1. Rest(buf) = buf /\ 0 \in 0 .. Len(buf)
    BY <1>1, <1>2 DEF Rest
  <2>2. \A k \in DOMAIN buf : ~ buf[k].end
    BY <1>2 DEF Ends
  <2>3. Len(buf) = Len(buf) - 0 /\ \A k \in 1 .. Len(buf) : buf[k] = buf[0 + k]
    BY <1>1
  <2> QED BY <2>1, <2>2, <2>3
<1>3. CASE Ends(buf) # {}
  <2> DEFINE e == CHOOSE e \in Ends(buf) : \A k \in Ends(buf) : k <= e
  <2>1. Ends(buf) \subseteq 1 .. Len(buf)
    BY <1>1 DEF Ends
  <2>2. \E d \in Ends(buf) : \A k \in Ends(buf) : k <= d
    BY <1>1, <1>3, <2>1, GreatestExists
  <2>3. e \in Ends(buf) /\ \A k \in Ends(buf) : k <= e
    BY <2>2
  <2>4. Rest(buf) = SubSeq(buf, e + 1, Len(buf))
    BY <1>3 DEF Rest
  <2> HIDE DEF e
  <2>5. e \in 1 .. Len(buf) /\ \A k \in DOMAIN buf : buf[k].end => k <= e
    BY <2>1, <2>3 DEF Ends
  <2>6. /\ Rest(buf) \in Seq(Pieces) /\ Len(Rest(buf)) = Len(buf) - e
        /\ \A k \in 1 .. Len(Rest(buf)) : Rest(buf)[k] = buf[e + k]
    <3>1. Rest(buf) = Beyond(buf, e)
      BY <2>4 DEF Beyond
    <3>2. /\ Beyond(buf, e) \in Seq(Pieces) /\ Len(Beyond(buf, e)) = Len(buf) - e
          /\ \A k \in 1 .. Len(buf) - e : Beyond(buf, e)[k] = buf[e + k]
      BY <2>5, BeyondFacts
    <3> QED BY <3>1, <3>2
  <2>7. e \in 0 .. Len(buf)
    BY <1>1, <2>5
  <2> QED BY <2>5, <2>6, <2>7
<1> QED BY <1>2, <1>3

LEMMA ChunkFacts ==
  ASSUME NEW s \in Seq(Pieces), NEW t \in Seq(Pieces), NEW n \in 1 .. Len(t)
  PROVE  /\ Chunk(s, t, n) \in Seq(Pieces) /\ Len(Chunk(s, t, n)) = Len(s) + n
         /\ \A k \in 1 .. Len(s) : Chunk(s, t, n)[k] = s[k]
         /\ \A k \in 1 .. n : Chunk(s, t, n)[Len(s) + k] = t[k]
<1> DEFINE u == SubSeq(t, 1, n)
<1>1. /\ Len(s) \in Nat /\ Len(t) \in Nat /\ n \in Nat /\ n <= Len(t)
      /\ \A k \in 1 .. Len(t) : t[k] \in Pieces
  BY LenProperties, ElementOfSeq
<1>2. \A k \in 1 .. n : t[k] \in Pieces
  BY <1>1
<1>3. /\ u \in Seq(Pieces) /\ Len(u) = IF 1 <= n THEN n - 1 + 1 ELSE 0
      /\ \A k \in 1 .. n - 1 + 1 : u[k] = t[1 + k - 1]
  BY <1>2, SubSeqProperties
<1> HIDE DEF u
<1>4. Len(u) = n /\ \A k \in 1 .. n : u[k] = t[k]
  BY <1>1, <1>3
<1>5. /\ s \o u \in Seq(Pieces) /\ Len(s \o u) = Len(s) + Len(u)
      /\ \A k \in 1 .. Len(s) + Len(u) :
           (s \o u)[k] = IF k <= Len(s) THEN s[k] ELSE u[k - Len(s)]
  BY <1>3, ConcatProperties
<1>6. Chunk(s, t, n) = s \o u
  BY DEF Chunk, u
<1>7. ASSUME NEW k \in 1 .. n PROVE (s \o u)[Len(s) + k] = t[k]
  <2>1. /\ Len(s) + k \in 1 .. Len(s) + Len(u) /\ ~ (Len(s) + k <= Len(s))
        /\ (Len(s) + k) - Len(s) = k
    BY <1>1, <1>4
  <2> QED BY <1>4, <1>5, <2>1
<1>8. ASSUME NEW k \in 1 .. Len(s) PROVE (s \o u)[k] = s[k]
  <2>1. k \in 1 .. Len(s) + Len(u) /\ k <= Len(s)
    BY <1>1, <1>4
  <2> QED BY <1>5, <2>1
<1> QED BY <1>4, <1>5, <1>6, <1>7, <1>8

LEMMA ReadPieces ==
  ASSUME NEW s \in Seq(Pieces), NEW t \in Seq(Pieces), NEW n \in 1 .. Len(t)
  PROVE  /\ \A k \in DOMAIN Chunk(s, t, n) :
              \/ k \in DOMAIN s /\ Chunk(s, t, n)[k] = s[k]
              \/ \E m \in 1 .. n : /\ m \in DOMAIN t /\ k = Len(s) + m
                                    /\ Chunk(s, t, n)[k] = t[m]
         /\ \A k \in DOMAIN Beyond(t, n) :
              n + k \in DOMAIN t /\ Beyond(t, n)[k] = t[n + k]
         /\ Ordered(s) /\ Ordered(t) /\ Follows(s, t) =>
              Ordered(Chunk(s, t, n)) /\ Ordered(Beyond(t, n))
              /\ Follows(Chunk(s, t, n), Beyond(t, n))
<1> DEFINE buf == Chunk(s, t, n)
           more == Beyond(t, n)
<1>1. /\ DOMAIN s = 1 .. Len(s) /\ Len(s) \in Nat /\ DOMAIN t = 1 .. Len(t) /\ Len(t) \in Nat
      /\ n \in Nat /\ n <= Len(t)
  BY LenProperties
<1>2. /\ DOMAIN buf = 1 .. Len(s) + n
      /\ \A k \in 1 .. Len(s) : buf[k] = s[k]
      /\ \A k \in 1 .. n : buf[Len(s) + k] = t[k]
  <2>1. buf \in Seq(Pieces) /\ Len(buf) = Len(s) + n
    BY ChunkFacts
  <2>2. DOMAIN buf = 1 .. Len(s) + n
    BY <2>1, LenProperties
  <2> QED BY <2>2, ChunkFacts
<1>3. DOMAIN more = 1 .. Len(t) - n /\ \A k \in 1 .. Len(t) - n : more[k] = t[n + k]
  BY BeyondFacts, LenProperties
<1> HIDE DEF buf, more
<1>4. ASSUME NEW k \in DOMAIN buf
      PROVE  \/ k \in DOMAIN s /\ buf[k] = s[k]
             \/ \E m \in 1 .. n : m \in DOMAIN t /\ k = Len(s) + m /\ buf[k] = t[m]
  <2>1. CASE k <= Len(s)
    BY <1>1, <1>2, <2>1
  <2>2. CASE ~ (k <= Len(s))
    <3>1. k - Len(s) \in 1 .. n /\ k - Len(s) \in DOMAIN t /\ k = Len(s) + (k - Len(s))
      BY <1>1, <1>2, <2>2
    <3>2. buf[Len(s) + (k - Len(s))] = t[k - Len(s)]
      BY <1>2, <3>1
    <3> QED BY <3>1, <3>2
  <2> QED BY <2>1, <2>2
<1>5. ASSUME NEW k \in DOMAIN more PROVE n + k \in DOMAIN t /\ more[k] = t[n + k]
  BY <1>1, <1>3
<1>6. ASSUME Ordered(s), Ordered(t), Follows(s, t)
      PROVE  Ordered(buf) /\ Ordered(more) /\ Follows(buf, more)
  <2>1. ASSUME NEW j \in DOMAIN buf, NEW k \in DOMAIN buf, j < k PROVE Precedes(buf[j], buf[k])
    <3>1. CASE k \in DOMAIN s /\ buf[k] = s[k]
      <4>1. j \in 1 .. Len(s) /\ k \in 1 .. Len(s)
        BY <1>1, <1>2, <2>1, <3>1
      <4>2. j \in DOMAIN s /\ buf[j] = s[j]
        BY <1>1, <1>2, <4>1
      <4> QED BY <1>6, <2>1, <3>1, <4>2 DEF Ordered
    <3>2. ASSUME NEW m \in 1 .. n, m \in DOMAIN t, k = Len(s) + m, buf[k] = t[m]
          PROVE  Precedes(buf[j], buf[k])
      <4>1. CASE j \in DOMAIN s /\ buf[j] = s[j]
        BY <1>6, <3>2, <4>1 DEF Follows
      <4>2. ASSUME NEW i \in 1 .. n, i \in DOMAIN t, j = Len(s) + i, buf[j] = t[i]
            PROVE  Precedes(buf[j], buf[k])
        <5>1. i < m
          BY <1>1, <2>1, <3>2, <4>2
        <5> QED BY <1>6, <3>2, <4>2, <5>1 DEF Ordered
      <4> QED BY <1>4, <4>1, <4>2
    <3> QED BY <1>4, <3>1, <3>2
  <2>2. ASSUME NEW j \in DOMAIN more, NEW k \in DOMAIN more, j < k
        PROVE  Precedes(more[j], more[k])
    <3>1. n + j < n + k
      BY <1>1, <1>3, <2>2
    <3> QED BY <1>5, <1>6, <3>1 DEF Ordered
  <2>3. ASSUME NEW j \in DOMAIN buf, NEW k \in DOMAIN more PROVE Precedes(buf[j], more[k])
    <3>1. CASE j \in DOMAIN s /\ buf[j] = s[j]
      BY <1>5, <1>6, <3>1 DEF Follows
    <3>2. ASSUME NEW m \in 1 .. n, m \in DOMAIN t, j = Len(s) + m, buf[j] = t[m]
          PROVE  Precedes(buf[j], more[k])
      <4>1. m < n + k
        BY <1>1, <1>3
      <4> QED BY <1>5, <1>6, <3>2, <4>1 DEF Ordered
    <3> QED BY <1>4, <3>1, <3>2
  <2> QED BY <2>1, <2>2, <2>3 DEF Ordered, Follows
<1> QED BY <1>4, <1>5, <1>6 DEF buf, more
-----------------------------------------------------------------------------
(***************************************************************************)
(* The inductive invariant.                                                *)
(***************************************************************************)

\* Nothing is on its way before there is a connection.
NothingBeforeConnection ==
  socket \in {"none", "connecting"} =>
    to_server = <<>> /\ recv_buf = <<>> /\ executed = <<>>

\* What the server has read and what it will read are lines in the order of their
\* commands.
InputOrdered == Ordered(recv_buf) /\ Ordered(to_server) /\ Follows(recv_buf, to_server)

\* What was executed comes before all of that.
ExecutedAhead ==
  \A j \in DOMAIN executed :
     /\ \A k \in DOMAIN recv_buf : executed[j] < recv_buf[k].of
     /\ \A k \in DOMAIN to_server : executed[j] < to_server[k].of

\* Lines are of commands that were called.
CalledBefore ==
  /\ \A k \in DOMAIN recv_buf : recv_buf[k].of <= issued
  /\ \A k \in DOMAIN to_server : to_server[k].of <= issued
  /\ \A j \in DOMAIN executed : executed[j] <= issued

\* The server answers what it executed.
RepliesExecuted ==
  /\ \A k \in DOMAIN from_server : from_server[k].of \in Range(executed)
  /\ \A k \in DOMAIN recvBuf : recvBuf[k].of \in Range(executed)

\* Which is in order, and is what promises are answered with.
Order == /\ NothingBeforeConnection /\ InputOrdered /\ ExecutedAhead /\ CalledBefore
         /\ ExecutedInOrder

Replies == RepliesExecuted /\ AnsweredByItsOwn

IInv == TypeOK /\ Order /\ Replies
-----------------------------------------------------------------------------
LEMMA Longer ==
  ASSUME NEW S, NEW s \in Seq(S), NEW t \in Seq(S)
  PROVE  /\ Then(s, t) \in Seq(S)
         /\ \A k \in DOMAIN Then(s, t) :
              \/ k \in DOMAIN s /\ Then(s, t)[k] = s[k]
              \/ \E m \in DOMAIN t : k = Len(s) + m /\ Then(s, t)[k] = t[m]
         /\ \A k \in DOMAIN s : k \in DOMAIN Then(s, t) /\ Then(s, t)[k] = s[k]
         /\ \A m \in DOMAIN t :
              Len(s) + m \in DOMAIN Then(s, t) /\ Then(s, t)[Len(s) + m] = t[m]
<1>1. /\ Then(s, t) \in Seq(S) /\ Len(Then(s, t)) = Len(s) + Len(t)
      /\ \A k \in 1 .. Len(s) + Len(t) :
           Then(s, t)[k] = IF k <= Len(s) THEN s[k] ELSE t[k - Len(s)]
  BY ConcatProperties DEF Then
<1>2. /\ DOMAIN s = 1 .. Len(s) /\ Len(s) \in Nat /\ DOMAIN t = 1 .. Len(t) /\ Len(t) \in Nat
      /\ DOMAIN Then(s, t) = 1 .. Len(s) + Len(t)
  BY <1>1, LenProperties
<1>3. ASSUME NEW k \in DOMAIN Then(s, t)
      PROVE  \/ k \in DOMAIN s /\ Then(s, t)[k] = s[k]
             \/ \E m \in DOMAIN t : k = Len(s) + m /\ Then(s, t)[k] = t[m]
  <2>1. CASE k <= Len(s)
    BY <1>1, <1>2, <2>1
  <2>2. CASE ~ (k <= Len(s))
    <3>1. k - Len(s) \in DOMAIN t /\ k = Len(s) + (k - Len(s))
      BY <1>2, <2>2
    <3>2. Then(s, t)[k] = t[k - Len(s)]
      BY <1>1, <1>2, <2>2
    <3> QED BY <3>1, <3>2
  <2> QED BY <2>1, <2>2
<1>4. ASSUME NEW k \in DOMAIN s PROVE k \in DOMAIN Then(s, t) /\ Then(s, t)[k] = s[k]
  BY <1>1, <1>2
<1>5. ASSUME NEW m \in DOMAIN t
      PROVE  Len(s) + m \in DOMAIN Then(s, t) /\ Then(s, t)[Len(s) + m] = t[m]
  <2>1. /\ Len(s) + m \in 1 .. Len(s) + Len(t) /\ ~ (Len(s) + m <= Len(s))
        /\ (Len(s) + m) - Len(s) = m
    BY <1>2
  <2> QED BY <1>1, <1>2, <2>1
<1> QED BY <1>1, <1>3, <1>4, <1>5

LEMMA OrderedThen ==
  ASSUME NEW s \in Seq(Pieces), NEW t \in Seq(Pieces), Ordered(s), Ordered(t), Follows(s, t)
  PROVE  Ordered(Then(s, t))
<1> DEFINE u == Then(s, t)
<1>1. /\ DOMAIN s = 1 .. Len(s) /\ Len(s) \in Nat /\ DOMAIN t = 1 .. Len(t) /\ Len(t) \in Nat
  BY LenProperties
<1>2. \A k \in DOMAIN u :
        \/ k \in DOMAIN s /\ u[k] = s[k]
        \/ \E m \in DOMAIN t : k = Len(s) + m /\ u[k] = t[m]
  BY Longer
<1> HIDE DEF u
<1>3. ASSUME NEW j \in DOMAIN u, NEW k \in DOMAIN u, j < k PROVE Precedes(u[j], u[k])
  <2>1. CASE k \in DOMAIN s /\ u[k] = s[k]
    <3>1. j \in DOMAIN s /\ u[j] = s[j]
      BY <1>1, <1>2, <1>3, <2>1
    <3> QED BY <1>3, <2>1, <3>1 DEF Ordered
  <2>2. ASSUME NEW m \in DOMAIN t, k = Len(s) + m, u[k] = t[m]
        PROVE  Precedes(u[j], u[k])
    <3>1. CASE j \in DOMAIN s /\ u[j] = s[j]
      BY <2>2, <3>1 DEF Follows
    <3>2. ASSUME NEW i \in DOMAIN t, j = Len(s) + i, u[j] = t[i]
          PROVE  Precedes(u[j], u[k])
      <4>1. i < m
        BY <1>1, <1>3, <2>2, <3>2
      <4> QED BY <2>2, <3>2, <4>1 DEF Ordered
    <3> QED BY <1>2, <3>1, <3>2
  <2> QED BY <1>2, <2>1, <2>2
<1> QED BY <1>3 DEF Ordered, u

\* What is written to the server: the lines of later commands, in their order.
LEMMA WrittenInOrder ==
  ASSUME IInv, NEW ns \in Seq(Commands), Increasing(ns), Write(ns),
         issued' \in 0 .. MaxCommands, issued <= issued',
         \A k \in DOMAIN ns : ns[k] <= issued',
         \/ \A k \in DOMAIN ns : issued < ns[k]
         \/ to_server = <<>> /\ recv_buf = <<>> /\ executed = <<>>,
         socket' \in {"none", "connecting"} => socket \in {"none", "connecting"}
  PROVE  Order' /\ to_server' \in Seq(Pieces)
<1> DEFINE new == Lines(ns)
<1>1. /\ to_server \in Seq(Pieces) /\ recv_buf \in Seq(Pieces) /\ executed \in Seq(Commands)
      /\ issued \in Nat /\ issued' \in Nat
  BY DEF IInv, TypeOK
<1>2. /\ new \in Seq(Pieces) /\ Ordered(new)
      /\ \A i \in DOMAIN new : \E k \in DOMAIN ns : new[i].of = ns[k]
  BY LinesOrdered
<1>3. /\ to_server' = IF socket' = "open" THEN Then(to_server, new) ELSE to_server
      /\ recv_buf' = recv_buf /\ executed' = executed
  BY DEF Write, Then
<1> HIDE DEF new
<1>4. \A k \in DOMAIN ns : ns[k] \in Nat
  <2>1. \A k \in DOMAIN ns : ns[k] \in Commands
    BY LenProperties, ElementOfSeq
  <2> QED BY <2>1 DEF Commands
<1>5. /\ \A k \in DOMAIN to_server : to_server[k].of \in Nat
      /\ \A k \in DOMAIN recv_buf : recv_buf[k].of \in Nat
      /\ \A k \in DOMAIN executed : executed[k] \in Nat
  <2>1. /\ \A k \in DOMAIN to_server : to_server[k] \in Pieces
        /\ \A k \in DOMAIN recv_buf : recv_buf[k] \in Pieces
        /\ \A k \in DOMAIN executed : executed[k] \in Commands
    BY <1>1, LenProperties, ElementOfSeq
  <2> QED BY <2>1 DEF Pieces, Commands
<1>6. /\ \A i \in DOMAIN new : new[i].of \in Nat /\ new[i].of <= issued'
      /\ \A i \in DOMAIN new, k \in DOMAIN to_server : to_server[k].of < new[i].of
      /\ \A i \in DOMAIN new, k \in DOMAIN recv_buf : recv_buf[k].of < new[i].of
      /\ \A i \in DOMAIN new, k \in DOMAIN executed : executed[k] < new[i].of
  <2> SUFFICES ASSUME NEW i \in DOMAIN new
               PROVE  /\ new[i].of \in Nat /\ new[i].of <= issued'
                      /\ \A k \in DOMAIN to_server : to_server[k].of < new[i].of
                      /\ \A k \in DOMAIN recv_buf : recv_buf[k].of < new[i].of
                      /\ \A k \in DOMAIN executed : executed[k] < new[i].of
    OBVIOUS
  <2>1. PICK l \in DOMAIN ns : new[i].of = ns[l]
    BY <1>2
  <2>2. new[i].of \in Nat /\ new[i].of <= issued'
    BY <1>4, <2>1
  <2>3. CASE \A k \in DOMAIN ns : issued < ns[k]
    <3>1. issued < new[i].of
      BY <2>1, <2>3
    <3>2. /\ \A k \in DOMAIN to_server : to_server[k].of <= issued
          /\ \A k \in DOMAIN recv_buf : recv_buf[k].of <= issued
          /\ \A k \in DOMAIN executed : executed[k] <= issued
      BY DEF IInv, Order, CalledBefore
    <3> QED BY <1>1, <1>5, <2>2, <3>1, <3>2
  <2>4. CASE to_server = <<>> /\ recv_buf = <<>> /\ executed = <<>>
    BY <2>2, <2>4
  <2> QED BY <2>2, <2>3, <2>4
<1>7. Order /\ TypeOK
  BY DEF IInv
<1>8. CASE socket' # "open"
  <2>1. to_server' = to_server
    BY <1>3, <1>8
  <2>2. NothingBeforeConnection' /\ InputOrdered' /\ ExecutedAhead' /\ ExecutedInOrder'
    BY <1>3, <1>7, <2>1
       DEF Order, NothingBeforeConnection, InputOrdered, ExecutedAhead, ExecutedInOrder
  <2>3. CalledBefore'
    BY <1>1, <1>3, <1>5, <1>7, <2>1 DEF Order, CalledBefore
  <2> QED BY <1>1, <2>1, <2>2, <2>3 DEF Order
<1>9. CASE socket' = "open"
  <2> DEFINE more == to_server'
  <2>1. /\ more = Then(to_server, new) /\ more \in Seq(Pieces)
        /\ \A k \in DOMAIN more :
             \/ k \in DOMAIN to_server /\ more[k] = to_server[k]
             \/ \E m \in DOMAIN new : more[k] = new[m]
    BY <1>1, <1>2, <1>3, <1>9, Longer
  <2>2. Follows(to_server, new) /\ Follows(recv_buf, new)
    BY <1>6 DEF Follows, Precedes
  <2>3. Ordered(more)
    BY <1>1, <1>2, <1>7, <2>1, <2>2, OrderedThen DEF Order, InputOrdered
  <2> HIDE DEF more
  <2>4. Follows(recv_buf, more)
    BY <1>7, <2>1, <2>2 DEF Order, InputOrdered, Follows
  <2>5. InputOrdered'
    BY <1>3, <1>7, <2>3, <2>4 DEF Order, InputOrdered, more
  <2>6. \A j \in DOMAIN executed, k \in DOMAIN more : executed[j] < more[k].of
    BY <1>6, <1>7, <2>1 DEF Order, ExecutedAhead
  <2>7. ExecutedAhead'
    BY <1>3, <1>7, <2>6 DEF Order, ExecutedAhead, more
  <2>8. ASSUME NEW k \in DOMAIN more PROVE more[k].of <= issued'
    <3>1. CASE k \in DOMAIN to_server /\ more[k] = to_server[k]
      <4>1. to_server[k].of <= issued /\ to_server[k].of \in Nat
        BY <1>5, <1>7, <3>1 DEF Order, CalledBefore
      <4> QED BY <1>1, <3>1, <4>1
    <3>2. CASE \E m \in DOMAIN new : more[k] = new[m]
      BY <1>6, <3>2
    <3> QED BY <2>1, <3>1, <3>2
  <2>9. CalledBefore'
    BY <1>1, <1>3, <1>5, <1>7, <2>8 DEF Order, CalledBefore, more
  <2>10. NothingBeforeConnection' /\ ExecutedInOrder'
    BY <1>3, <1>7, <1>9 DEF Order, NothingBeforeConnection, ExecutedInOrder
  <2> QED BY <2>1, <2>5, <2>7, <2>9, <2>10 DEF Order, more
<1> QED BY <1>8, <1>9
-----------------------------------------------------------------------------
(***************************************************************************)
(* What a read by the server does.                                         *)
(***************************************************************************)
LEMMA ReadInOrder ==
  ASSUME NEW s \in Seq(Pieces), NEW t \in Seq(Pieces), NEW n \in 1 .. Len(t),
         Ordered(s), Ordered(t), Follows(s, t)
  PROVE  LET buf == Chunk(s, t, n) IN
         /\ Ordered(Rest(buf)) /\ Ordered(Beyond(t, n)) /\ Follows(Rest(buf), Beyond(t, n))
         /\ Increasing(Whole(buf))
         /\ \A i \in DOMAIN Whole(buf) :
              /\ \A k \in DOMAIN Rest(buf) : Whole(buf)[i] < Rest(buf)[k].of
              /\ \A k \in DOMAIN Beyond(t, n) : Whole(buf)[i] < Beyond(t, n)[k].of
<1> DEFINE buf == Chunk(s, t, n)
           more == Beyond(t, n)
           left == Rest(buf)
<1>1. /\ buf \in Seq(Pieces) /\ more \in Seq(Pieces) /\ DOMAIN buf = 1 .. Len(buf)
      /\ Len(buf) \in Nat
  BY ChunkFacts, BeyondFacts, LenProperties
<1>2. Ordered(buf) /\ Ordered(more) /\ Follows(buf, more)
  BY ReadPieces
<1> HIDE DEF buf, more
<1>3. PICK e \in 0 .. Len(buf) :
        /\ Len(left) = Len(buf) - e
        /\ \A k \in 1 .. Len(left) : left[k] = buf[e + k]
        /\ \A k \in DOMAIN buf : buf[k].end => k <= e
  BY <1>1, RestOfLines
<1>4. DOMAIN left = 1 .. Len(left) /\ Len(left) \in Nat
  BY <1>1, RestOfLines, LenProperties
<1>5. /\ \A i \in DOMAIN Whole(buf) :
           \E k \in DOMAIN buf : buf[k].end /\ buf[k].of = Whole(buf)[i]
      /\ Increasing(Whole(buf))
  BY <1>1, <1>2, WholeLines
<1> HIDE DEF left
<1>6. \A k \in DOMAIN left : e + k \in DOMAIN buf /\ left[k] = buf[e + k] /\ e < e + k
  BY <1>1, <1>3, <1>4
<1>7. Ordered(left)
  <2> SUFFICES ASSUME NEW j \in DOMAIN left, NEW k \in DOMAIN left, j < k
               PROVE  Precedes(left[j], left[k])
    BY DEF Ordered
  <2>1. e + j < e + k
    BY <1>3, <1>4
  <2> QED BY <1>2, <1>6, <2>1 DEF Ordered
<1>8. Follows(left, more)
  BY <1>2, <1>6 DEF Follows
<1>9. ASSUME NEW i \in DOMAIN Whole(buf)
      PROVE  /\ \A k \in DOMAIN left : Whole(buf)[i] < left[k].of
             /\ \A k \in DOMAIN more : Whole(buf)[i] < more[k].of
  <2>1. PICK l \in DOMAIN buf : buf[l].end /\ buf[l].of = Whole(buf)[i] /\ l <= e
    BY <1>3, <1>5
  <2>2. ASSUME NEW k \in DOMAIN left PROVE Whole(buf)[i] < left[k].of
    <3>1. l < e + k
      BY <1>1, <1>3, <1>4, <2>1
    <3>2. Precedes(buf[l], buf[e + k])
      BY <1>2, <1>6, <3>1 DEF Ordered
    <3> QED BY <1>6, <2>1, <3>2 DEF Precedes
  <2>3. ASSUME NEW k \in DOMAIN more PROVE Whole(buf)[i] < more[k].of
    <3>1. Precedes(buf[l], more[k])
      BY <1>2 DEF Follows
    <3> QED BY <2>1, <3>1 DEF Precedes
  <2> QED BY <2>2, <2>3
<1> QED BY <1>2, <1>5, <1>7, <1>8, <1>9 DEF buf, more, left

\* Whatever a reader has or takes comes from what it had or what it reads.
LEMMA ReadFrom ==
  ASSUME NEW s \in Seq(Pieces), NEW t \in Seq(Pieces), NEW n \in 1 .. Len(t), NEW S,
         \A k \in DOMAIN s : s[k].of \in S, \A k \in DOMAIN t : t[k].of \in S
  PROVE  LET buf == Chunk(s, t, n) IN
         /\ \A k \in DOMAIN Rest(buf) : Rest(buf)[k].of \in S
         /\ \A k \in DOMAIN Beyond(t, n) : Beyond(t, n)[k].of \in S
         /\ \A i \in DOMAIN Whole(buf) : Whole(buf)[i] \in S
<1> DEFINE buf == Chunk(s, t, n)
           more == Beyond(t, n)
           left == Rest(buf)
<1>1. buf \in Seq(Pieces) /\ DOMAIN buf = 1 .. Len(buf) /\ Len(buf) \in Nat
  BY ChunkFacts, LenProperties
<1>2. /\ \A k \in DOMAIN buf :
           \/ k \in DOMAIN s /\ buf[k] = s[k]
           \/ \E m \in 1 .. n : /\ m \in DOMAIN t /\ k = Len(s) + m
                                /\ buf[k] = t[m]
      /\ \A k \in DOMAIN more : n + k \in DOMAIN t /\ more[k] = t[n + k]
  BY ReadPieces
<1> HIDE DEF buf, more
<1>3. PICK e \in 0 .. Len(buf) :
        /\ Len(left) = Len(buf) - e
        /\ \A k \in 1 .. Len(left) : left[k] = buf[e + k]
  BY <1>1, RestOfLines
<1>4. DOMAIN left = 1 .. Len(left) /\ Len(left) \in Nat
  BY <1>1, RestOfLines, LenProperties
<1>5. \A i \in DOMAIN Whole(buf) : \E k \in DOMAIN buf : buf[k].of = Whole(buf)[i]
  BY <1>1, WholeLines
<1> HIDE DEF left
<1>6. \A k \in DOMAIN buf : buf[k].of \in S
  BY <1>2
<1>7. \A k \in DOMAIN left : e + k \in DOMAIN buf /\ left[k] = buf[e + k]
  BY <1>1, <1>3, <1>4
<1> QED BY <1>2, <1>5, <1>6, <1>7 DEF buf, more, left

LEMMA ReadTypes ==
  ASSUME NEW s \in Seq(Pieces), NEW t \in Seq(Pieces), NEW n \in 1 .. Len(t)
  PROVE  LET buf == Chunk(s, t, n) IN
         /\ Rest(buf) \in Seq(Pieces) /\ Len(Rest(buf)) <= Len(s) + n
         /\ Beyond(t, n) \in Seq(Pieces)
         /\ Whole(buf) \in Seq(Commands)
<1> DEFINE buf == Chunk(s, t, n)
<1>1. buf \in Seq(Pieces) /\ Len(buf) = Len(s) + n /\ Len(buf) \in Nat
  BY ChunkFacts, LenProperties
<1> HIDE DEF buf
<1>2. Rest(buf) \in Seq(Pieces) /\ \E e \in 0 .. Len(buf) : Len(Rest(buf)) = Len(buf) - e
  BY <1>1, RestOfLines
<1>3. Len(Rest(buf)) <= Len(buf)
  BY <1>1, <1>2
<1>4. Whole(buf) \in Seq(Commands)
  BY <1>1, WholeLines
<1> QED BY <1>1, <1>2, <1>3, <1>4, BeyondFacts DEF buf

LEMMA ReadStep ==
  ASSUME IInv, Read
  PROVE  IInv'
<1>1. PICK n \in 1 .. Smaller(Room, Len(to_server)) :
        LET buf == recv_buf \o SubSeq(to_server, 1, n) IN
        Take(n) /\ Dispatch(Whole(buf)) /\ recv_buf' = Rest(buf)
  BY DEF Read
<1> DEFINE buf == Chunk(recv_buf, to_server, n)
           more == Beyond(to_server, n)
           ns == Whole(buf)
           replies == AnswerLines(ns)
<1>2. /\ recv_buf' = Rest(buf) /\ to_server' = more
      /\ executed' = Then(executed, ns) /\ from_server' = Then(from_server, replies)
      /\ UNCHANGED <<client, process, socket, recvBuf>>
      /\ to_server # <<>>
  BY <1>1 DEF Read, Serving, Take, Dispatch, Chunk, Beyond, Then, AnswerLines
<1>3. /\ to_server \in Seq(Pieces) /\ recv_buf \in Seq(Pieces) /\ executed \in Seq(Commands)
      /\ from_server \in Seq(Pieces) /\ recvBuf \in Seq(Pieces)
      /\ issued \in Nat /\ Len(to_server) \in Nat /\ Len(recv_buf) \in Nat
  BY LenProperties DEF IInv, TypeOK
<1>4. n \in 1 .. Len(to_server) /\ Len(recv_buf) + n <= BufSize
  BY <1>3, ChannelAssumption DEF Smaller, Room
<1>5. /\ recv_buf' \in Seq(Pieces) /\ Len(recv_buf') <= Len(recv_buf) + n
      /\ to_server' \in Seq(Pieces) /\ ns \in Seq(Commands)
  BY <1>2, <1>3, <1>4, ReadTypes
<1>6. Order /\ Replies
  BY DEF IInv
<1>7. /\ Ordered(recv_buf') /\ Ordered(to_server') /\ Follows(recv_buf', to_server')
      /\ Increasing(ns)
      /\ \A i \in DOMAIN ns : /\ \A k \in DOMAIN recv_buf' : ns[i] < recv_buf'[k].of
                              /\ \A k \in DOMAIN to_server' : ns[i] < to_server'[k].of
  BY <1>2, <1>3, <1>4, <1>6, ReadInOrder DEF Order, InputOrdered
<1>8. ASSUME NEW S,
             \A k \in DOMAIN recv_buf : recv_buf[k].of \in S,
             \A k \in DOMAIN to_server : to_server[k].of \in S
      PROVE  /\ \A k \in DOMAIN recv_buf' : recv_buf'[k].of \in S
             /\ \A k \in DOMAIN to_server' : to_server'[k].of \in S
             /\ \A i \in DOMAIN ns : ns[i] \in S
  BY <1>2, <1>3, <1>4, <1>8, ReadFrom
<1> HIDE DEF ns, buf, more
<1>9. /\ \A k \in DOMAIN to_server : to_server[k].of \in Nat
      /\ \A k \in DOMAIN recv_buf : recv_buf[k].of \in Nat
      /\ \A k \in DOMAIN executed : executed[k] \in Nat
  <2>1. /\ \A k \in DOMAIN to_server : to_server[k] \in Pieces
        /\ \A k \in DOMAIN recv_buf : recv_buf[k] \in Pieces
        /\ \A k \in DOMAIN executed : executed[k] \in Commands
    BY <1>3, LenProperties, ElementOfSeq
  <2> QED BY <2>1 DEF Pieces, Commands
<1>10. /\ executed' \in Seq(Commands)
       /\ \A k \in DOMAIN executed' :
            \/ k \in DOMAIN executed /\ executed'[k] = executed[k]
            \/ \E m \in DOMAIN ns : k = Len(executed) + m /\ executed'[k] = ns[m]
       /\ \A k \in DOMAIN executed : k \in DOMAIN executed' /\ executed'[k] = executed[k]
       /\ \A m \in DOMAIN ns : /\ Len(executed) + m \in DOMAIN executed'
                               /\ executed'[Len(executed) + m] = ns[m]
  BY <1>2, <1>3, <1>5, Longer
<1>11. /\ DOMAIN executed = 1 .. Len(executed) /\ Len(executed) \in Nat
       /\ DOMAIN ns = 1 .. Len(ns) /\ Len(ns) \in Nat
  BY <1>3, <1>5, LenProperties
<1>12. /\ replies \in Seq(Pieces)
       /\ \A i \in DOMAIN replies : \E k \in DOMAIN ns : replies[i].of = ns[k]
  BY <1>5, AnswersJoined
<1> HIDE DEF replies
<1>13. /\ from_server' \in Seq(Pieces)
       /\ \A k \in DOMAIN from_server' :
            \/ k \in DOMAIN from_server /\ from_server'[k] = from_server[k]
            \/ \E m \in DOMAIN replies : from_server'[k] = replies[m]
  BY <1>2, <1>3, <1>12, Longer
<1>14. TypeOK'
  <2>1. Len(recv_buf') <= BufSize
    <3>1. Len(recv_buf') \in Nat
      BY <1>5, LenProperties
    <3> QED BY <1>3, <1>4, <1>5, <3>1, ChannelAssumption
  <2> QED BY <1>2, <1>3, <1>5, <1>10, <1>13, <2>1 DEF IInv, TypeOK, client, process
<1>15. NothingBeforeConnection'
  BY <1>2, <1>6 DEF Order, NothingBeforeConnection
<1>16. InputOrdered'
  BY <1>7 DEF InputOrdered
<1>17. ExecutedAhead'
  <2>1. ASSUME NEW j \in DOMAIN executed'
        PROVE  /\ \A k \in DOMAIN recv_buf' : executed'[j] < recv_buf'[k].of
               /\ \A k \in DOMAIN to_server' : executed'[j] < to_server'[k].of
    <3>1. CASE j \in DOMAIN executed /\ executed'[j] = executed[j]
      <4> DEFINE S == {x \in Nat : executed[j] < x}
      <4>1. /\ \A k \in DOMAIN recv_buf : recv_buf[k].of \in S
            /\ \A k \in DOMAIN to_server : to_server[k].of \in S
        BY <1>6, <1>9, <3>1 DEF Order, ExecutedAhead
      <4>2. /\ \A k \in DOMAIN recv_buf' : recv_buf'[k].of \in S
            /\ \A k \in DOMAIN to_server' : to_server'[k].of \in S
        <5> HIDE DEF S
        <5> QED BY <1>8, <4>1
      <4> QED BY <3>1, <4>2
    <3>2. CASE \E m \in DOMAIN ns : executed'[j] = ns[m]
      BY <1>7, <3>2
    <3> QED BY <1>10, <3>1, <3>2
  <2> QED BY <2>1 DEF ExecutedAhead
<1>18. /\ \A k \in DOMAIN recv_buf' : recv_buf'[k].of <= issued
       /\ \A k \in DOMAIN to_server' : to_server'[k].of <= issued
       /\ \A m \in DOMAIN ns : ns[m] <= issued /\ ns[m] \in Nat
  <2> DEFINE S == {x \in Nat : x <= issued}
  <2>1. /\ \A k \in DOMAIN recv_buf : recv_buf[k].of \in S
        /\ \A k \in DOMAIN to_server : to_server[k].of \in S
    BY <1>6, <1>9 DEF Order, CalledBefore
  <2>2. /\ \A k \in DOMAIN recv_buf' : recv_buf'[k].of \in S
        /\ \A k \in DOMAIN to_server' : to_server'[k].of \in S
        /\ \A m \in DOMAIN ns : ns[m] \in S
    <3> HIDE DEF S
    <3> QED BY <1>8, <2>1
  <2> QED BY <2>2
<1>19. CalledBefore'
  <2>1. \A j \in DOMAIN executed' : executed'[j] <= issued
    BY <1>6, <1>10, <1>18 DEF Order, CalledBefore
  <2> QED BY <1>2, <1>18, <2>1 DEF CalledBefore, client
<1>20. ExecutedInOrder'
  <2> SUFFICES ASSUME NEW j \in DOMAIN executed', NEW k \in DOMAIN executed', j < k
               PROVE  executed'[j] < executed'[k]
    BY DEF ExecutedInOrder
  <2>1. CASE k \in DOMAIN executed /\ executed'[k] = executed[k]
    <3>1. j \in DOMAIN executed /\ executed'[j] = executed[j]
      BY <1>10, <1>11, <2>1
    <3> QED BY <1>6, <2>1, <3>1 DEF Order, ExecutedInOrder
  <2>2. ASSUME NEW m \in DOMAIN ns, k = Len(executed) + m, executed'[k] = ns[m]
        PROVE  executed'[j] < executed'[k]
    <3>1. CASE j \in DOMAIN executed /\ executed'[j] = executed[j]
      <4> DEFINE S == {x \in Nat : executed[j] < x}
      <4>1. /\ \A i \in DOMAIN recv_buf : recv_buf[i].of \in S
            /\ \A i \in DOMAIN to_server : to_server[i].of \in S
        BY <1>6, <1>9, <3>1 DEF Order, ExecutedAhead
      <4>2. ns[m] \in S
        <5> HIDE DEF S
        <5> QED BY <1>8, <4>1
      <4> QED BY <2>2, <3>1, <4>2
    <3>2. ASSUME NEW i \in DOMAIN ns, j = Len(executed) + i, executed'[j] = ns[i]
          PROVE  executed'[j] < executed'[k]
      <4>1. i < m
        BY <1>11, <2>2, <3>2
      <4> QED BY <1>7, <2>2, <3>2, <4>1 DEF Increasing
    <3> QED BY <1>10, <3>1, <3>2
  <2> QED BY <1>10, <2>1, <2>2
<1>21. /\ \A x \in Range(executed) : x \in Range(executed')
       /\ \A m \in DOMAIN ns : ns[m] \in Range(executed')
  BY <1>10 DEF Range
<1>22. RepliesExecuted'
  <2>1. \A k \in DOMAIN from_server' : from_server'[k].of \in Range(executed')
    BY <1>6, <1>12, <1>13, <1>21 DEF Replies, RepliesExecuted
  <2>2. \A k \in DOMAIN recvBuf' : recvBuf'[k].of \in Range(executed')
    BY <1>2, <1>6, <1>21 DEF Replies, RepliesExecuted
  <2> QED BY <2>1, <2>2 DEF RepliesExecuted
<1>23. AnsweredByItsOwn'
  BY <1>2, <1>6, <1>21 DEF Replies, AnsweredByItsOwn, client
<1> QED BY <1>14, <1>15, <1>16, <1>17, <1>19, <1>20, <1>22, <1>23 DEF IInv, Order, Replies
-----------------------------------------------------------------------------
(***************************************************************************)
(* The other steps, and the theorems.                                      *)
(***************************************************************************)
LEMMA InitIInv == Init => IInv
<1> SUFFICES ASSUME Init PROVE IInv
  OBVIOUS
<1> USE DEF Init
<1>1. TypeOK
  <2>1. /\ <<>> \in Seq(Pieces) /\ Len(<<>>) = 0 /\ <<>> \in Seq(Commands)
    OBVIOUS
  <2>2. /\ settled \in [Commands -> {"waiting", "rejected", "answered"}]
        /\ answer \in [Commands -> Commands \cup {None}]
        /\ issued \in 0 .. MaxCommands
    BY ChannelAssumption
  <2>3. BufSize \in Nat
    BY ChannelAssumption
  <2>4. \A s \in {to_server, recv_buf, from_server, recvBuf} : s \in Seq(Pieces)
    BY <2>1
  <2>5. Len(recv_buf) <= BufSize /\ executed \in Seq(Commands)
    BY <2>1, <2>3
  <2>6. /\ attempt \in {"none", "waiting", "resolved", "rejected"}
        /\ server \in {"none", "starting", "listening", "serving", "gone"}
        /\ socket \in {"none", "connecting", "open", "closed"}
        /\ pending \subseteq Commands /\ ready \in BOOLEAN
    OBVIOUS
  <2> HIDE DEF Init
  <2> QED BY <2>2, <2>4, <2>5, <2>6 DEF TypeOK
<1>2. Order
  BY DEF Order, NothingBeforeConnection, InputOrdered, Ordered, Follows, ExecutedAhead,
         CalledBefore, ExecutedInOrder
<1>3. Replies
  BY DEF Replies, RepliesExecuted, AnsweredByItsOwn
<1> QED BY <1>1, <1>2, <1>3 DEF IInv

LEMMA RejectedType ==
  ASSUME settled \in [Commands -> {"waiting", "rejected", "answered"}], NEW ns
  PROVE  /\ Rejected(ns) \in [Commands -> {"waiting", "rejected", "answered"}]
         /\ \A n \in Commands : Rejected(ns)[n] = "answered" => settled[n] = "answered"
BY DEF Rejected

\* A step that leaves the lines alone, and makes no promise answered.
LEMMA LinesStay ==
  ASSUME IInv, UNCHANGED <<lines, answer>>,
         issued' \in 0 .. MaxCommands, issued <= issued',
         socket' \in {"none", "connecting"} => socket \in {"none", "connecting"},
         \A n \in Commands : settled'[n] = "answered" => settled[n] = "answered"
  PROVE  Order' /\ Replies'
<1>1. Order /\ Replies /\ TypeOK
  BY DEF IInv
<1>2. UNCHANGED <<to_server, recv_buf, from_server, recvBuf, executed>>
  BY DEF lines
<1>3. NothingBeforeConnection' /\ InputOrdered' /\ ExecutedAhead' /\ ExecutedInOrder'
  BY <1>1, <1>2
     DEF Order, NothingBeforeConnection, InputOrdered, ExecutedAhead, ExecutedInOrder
<1>4. /\ \A k \in DOMAIN to_server : to_server[k].of \in Nat
      /\ \A k \in DOMAIN recv_buf : recv_buf[k].of \in Nat
      /\ \A k \in DOMAIN executed : executed[k] \in Nat
  <2>1. /\ to_server \in Seq(Pieces) /\ recv_buf \in Seq(Pieces) /\ executed \in Seq(Commands)
    BY <1>1 DEF TypeOK
  <2>2. /\ \A k \in DOMAIN to_server : to_server[k] \in Pieces
        /\ \A k \in DOMAIN recv_buf : recv_buf[k] \in Pieces
        /\ \A k \in DOMAIN executed : executed[k] \in Commands
    BY <2>1, LenProperties, ElementOfSeq
  <2> QED BY <2>2 DEF Pieces, Commands
<1>5. CalledBefore'
  <2>1. issued \in Nat /\ issued' \in Nat /\ issued <= issued'
    BY <1>1 DEF TypeOK
  <2> QED BY <1>1, <1>2, <1>4, <2>1 DEF Order, CalledBefore
<1>6. RepliesExecuted' /\ AnsweredByItsOwn'
  BY <1>1, <1>2 DEF Replies, RepliesExecuted, AnsweredByItsOwn
<1> QED BY <1>3, <1>5, <1>6 DEF Order, Replies

\* The steps that write nothing and read nothing.
LEMMA QuietSteps ==
  ASSUME IInv,
         CallFirst \/ CallLater \/ OnStderr \/ OnExit \/ OnConnectError \/ ServerReady
           \/ ServerDies
  PROVE  IInv'
<1>1. TypeOK
  BY DEF IInv
<1>2. UNCHANGED <<lines, answer>>
  BY DEF CallFirst, CallLater, OnStderr, OnExit, OnConnectError, AttemptFails, ServerReady,
         ServerDies, client
<1>3. issued' \in 0 .. MaxCommands /\ issued <= issued'
  BY <1>1, ChannelAssumption
     DEF TypeOK, Issue, CallFirst, CallLater, OnStderr, OnExit, OnConnectError, AttemptFails,
         ServerReady, ServerDies, client
<1>4. /\ socket' \in {"none", "connecting"} => socket \in {"none", "connecting"}
      /\ socket' \in {"none", "connecting", "open", "closed"}
  BY <1>1 DEF TypeOK, CallFirst, CallLater, OnStderr, OnExit, OnConnectError, AttemptFails,
              ServerReady, ServerDies
<1>5. \/ settled' = settled
      \/ \E ns : settled' = Rejected(ns)
  BY DEF CallFirst, Spawn, CallLater, OnStderr, OnExit, OnConnectError, AttemptFails,
         ServerReady, ServerDies, client
<1>6. /\ settled' \in [Commands -> {"waiting", "rejected", "answered"}]
      /\ \A n \in Commands : settled'[n] = "answered" => settled[n] = "answered"
  BY <1>1, <1>5, RejectedType DEF TypeOK
<1>7. /\ pending' = pending
      /\ attempt' \in {"none", "waiting", "resolved", "rejected"}
      /\ server' \in {"none", "starting", "listening", "serving", "gone"}
      /\ ready' \in BOOLEAN
  BY <1>1 DEF TypeOK, CallFirst, Spawn, CallLater, OnStderr, OnExit, OnConnectError,
              AttemptFails, ServerReady, ServerDies, client, process
<1>8. TypeOK'
  BY <1>1, <1>2, <1>3, <1>4, <1>6, <1>7 DEF TypeOK, lines
<1> QED BY <1>2, <1>3, <1>4, <1>6, <1>8, LinesStay DEF IInv

\* The steps that write commands.
LEMMA WritingSteps ==
  ASSUME IInv, CallConnected \/ OnConnect
  PROVE  IInv'
<1>1. TypeOK /\ Order /\ Replies
  BY DEF IInv
<1>2. ASSUME NEW ns \in Seq(Commands), Increasing(ns), Write(ns),
             issued' \in 0 .. MaxCommands, issued <= issued',
             \A k \in DOMAIN ns : ns[k] <= issued',
             \/ \A k \in DOMAIN ns : issued < ns[k]
             \/ to_server = <<>> /\ recv_buf = <<>> /\ executed = <<>>,
             socket' \in {"none", "connecting"} => socket \in {"none", "connecting"},
             socket' \in {"none", "connecting", "open", "closed"},
             UNCHANGED <<settled, answer, ready>>,
             attempt' \in {"none", "waiting", "resolved", "rejected"},
             server' \in {"none", "starting", "listening", "serving", "gone"}
      PROVE  IInv'
  <2>1. Order' /\ to_server' \in Seq(Pieces)
    BY <1>2, WrittenInOrder
  <2>2. pending' \subseteq Commands /\ UNCHANGED <<recv_buf, from_server, recvBuf, executed>>
    <3>1. \A k \in DOMAIN ns : ns[k] \in Commands
      BY <1>2, LenProperties, ElementOfSeq
    <3>2. pending' = pending \cup Range(ns) /\ pending \subseteq Commands
      BY <1>1, <1>2 DEF Write, TypeOK
    <3> QED BY <1>2, <3>1, <3>2 DEF Range, Write
  <2>3. TypeOK'
    BY <1>1, <1>2, <2>1, <2>2 DEF TypeOK
  <2>4. Replies'
    BY <1>1, <1>2, <2>2 DEF Replies, RepliesExecuted, AnsweredByItsOwn
  <2> QED BY <2>1, <2>3, <2>4 DEF IInv
<1>3. issued \in Nat /\ issued <= MaxCommands /\ MaxCommands \in Nat
  BY <1>1, ChannelAssumption DEF TypeOK
<1>4. CASE CallConnected
  <2> DEFINE ns == <<issued'>>
  <2>1. issued' = issued + 1 /\ issued < MaxCommands
    BY <1>4 DEF CallConnected, Issue
  <2>2. /\ issued' \in Commands /\ issued' \in 0 .. MaxCommands /\ issued <= issued'
        /\ issued < issued' /\ issued' <= issued'
    BY <1>3, <2>1 DEF Commands
  <2>3. /\ ns \in Seq(Commands) /\ Increasing(ns)
        /\ \A k \in DOMAIN ns : ns[k] <= issued' /\ issued < ns[k]
    BY <2>2 DEF Increasing
  <2>4. Write(ns) /\ UNCHANGED <<settled, answer, attempt, server, ready, socket>>
    BY <1>4 DEF CallConnected, process
  <2>5. /\ attempt \in {"none", "waiting", "resolved", "rejected"}
        /\ server \in {"none", "starting", "listening", "serving", "gone"}
        /\ socket \in {"none", "connecting", "open", "closed"}
    BY <1>1 DEF TypeOK
  <2> HIDE DEF ns
  <2> QED BY <1>2, <2>2, <2>3, <2>4, <2>5
<1>5. CASE OnConnect
  <2> DEFINE ns == [n \in Awaiting |-> n]
  <2>1. Awaiting = 1 .. IF attempt = "waiting" THEN issued ELSE 0
    BY DEF Awaiting
  <2>2. /\ ns \in Seq(Commands) /\ Increasing(ns)
        /\ \A k \in DOMAIN ns : ns[k] <= issued
    <3>1. PICK m \in Nat : Awaiting = 1 .. m /\ m <= issued
      BY <1>3, <2>1
    <3>2. ns \in [1 .. m -> Commands]
      BY <1>3, <3>1 DEF Commands
    <3>3. ns \in Seq(Commands)
      BY <3>2
    <3> QED BY <1>3, <3>1, <3>3 DEF Increasing
  <2>3. /\ Write(ns) /\ UNCHANGED <<settled, answer, ready, issued>>
        /\ socket' = "open" /\ attempt' = "resolved" /\ server' = "serving"
        /\ socket = "connecting"
    BY <1>5 DEF OnConnect
  <2>4. to_server = <<>> /\ recv_buf = <<>> /\ executed = <<>>
    BY <1>1, <2>3 DEF Order, NothingBeforeConnection
  <2>5. issued' \in 0 .. MaxCommands /\ issued <= issued' /\ issued' = issued
    BY <1>3, <2>3
  <2> HIDE DEF ns
  <2> QED BY <1>2, <2>2, <2>3, <2>4, <2>5
<1> QED BY <1>4, <1>5

LEMMA DropStep == ASSUME IInv, DropBuffer PROVE IInv'
<1>1. TypeOK /\ Order /\ Replies
  BY DEF IInv
<1>2. /\ recv_buf' = <<>> /\ to_server # <<>>
      /\ UNCHANGED <<client, process, socket, recvBuf, to_server, from_server, executed>>
  BY DEF DropBuffer, Serving
<1>3. TypeOK'
  BY <1>1, <1>2, ChannelAssumption DEF TypeOK, client, process
<1>4. Order'
  BY <1>1, <1>2
     DEF Order, NothingBeforeConnection, InputOrdered, Ordered, Follows, ExecutedAhead,
         CalledBefore, ExecutedInOrder, client
<1>5. Replies'
  BY <1>1, <1>2 DEF Replies, RepliesExecuted, AnsweredByItsOwn, client
<1> QED BY <1>3, <1>4, <1>5 DEF IInv

LEMMA CloseStep == ASSUME IInv, OnClose PROVE IInv'
<1>1. TypeOK /\ Order /\ Replies
  BY DEF IInv
<1>2. /\ to_server' = <<>> /\ from_server' = <<>> /\ pending' = {} /\ socket' = "closed"
      /\ settled' = Rejected(pending)
      /\ UNCHANGED <<issued, answer, attempt, server, ready, recv_buf, recvBuf, executed>>
  BY DEF OnClose, process
<1>3. /\ settled' \in [Commands -> {"waiting", "rejected", "answered"}]
      /\ \A n \in Commands : settled'[n] = "answered" => settled[n] = "answered"
  BY <1>1, <1>2, RejectedType DEF TypeOK
<1>4. TypeOK'
  BY <1>1, <1>2, <1>3 DEF TypeOK
<1>5. Order'
  BY <1>1, <1>2
     DEF Order, NothingBeforeConnection, InputOrdered, Ordered, Follows, ExecutedAhead,
         CalledBefore, ExecutedInOrder
<1>6. Replies'
  BY <1>1, <1>2, <1>3 DEF Replies, RepliesExecuted, AnsweredByItsOwn
<1> QED BY <1>4, <1>5, <1>6 DEF IInv

\* Answers are taken by the seq they carry.
LEMMA DataStep == ASSUME IInv, OnData PROVE IInv'
<1>1. TypeOK /\ Order /\ Replies
  BY DEF IInv
<1>2. PICK k \in 1 .. Len(from_server) :
        LET buf == recvBuf \o SubSeq(from_server, 1, k)
            taken == Taken(Whole(buf))
        IN  /\ recvBuf' = Rest(buf)
            /\ from_server' = SubSeq(from_server, k + 1, Len(from_server))
            /\ pending' = pending \ taken
            /\ settled' = [n \in Commands |-> IF n \in taken THEN "answered" ELSE settled[n]]
            /\ answer' = [n \in Commands |-> IF n \in taken THEN AnswerOf(n, Whole(buf))
                                                            ELSE answer[n]]
  BY DEF OnData
<1> DEFINE buf == Chunk(recvBuf, from_server, k)
           ns == Whole(buf)
           taken == Taken(ns)
<1>3. /\ recvBuf' = Rest(buf) /\ from_server' = Beyond(from_server, k)
      /\ pending' = pending \ taken
      /\ settled' = [n \in Commands |-> IF n \in taken THEN "answered" ELSE settled[n]]
      /\ answer' = [n \in Commands |-> IF n \in taken THEN AnswerOf(n, ns) ELSE answer[n]]
      /\ UNCHANGED <<issued, attempt, server, ready, socket, to_server, recv_buf, executed>>
  BY <1>2 DEF Chunk, Beyond, OnData, process
<1>4. from_server \in Seq(Pieces) /\ recvBuf \in Seq(Pieces)
  BY <1>1 DEF TypeOK
<1>5. recvBuf' \in Seq(Pieces) /\ from_server' \in Seq(Pieces) /\ ns \in Seq(Commands)
  BY <1>3, <1>4, ReadTypes
<1>6. /\ \A j \in DOMAIN recvBuf' : recvBuf'[j].of \in Range(executed)
      /\ \A j \in DOMAIN from_server' : from_server'[j].of \in Range(executed)
      /\ \A i \in DOMAIN ns : ns[i] \in Range(executed)
  BY <1>1, <1>3, <1>4, ReadFrom DEF Replies, RepliesExecuted
<1> HIDE DEF ns
<1>7. \A n \in taken : AnswerOf(n, ns) = n /\ n \in Range(executed)
  BY <1>6 DEF Taken, AnswerOf, Range
<1> HIDE DEF taken
<1>8. /\ settled' \in [Commands -> {"waiting", "rejected", "answered"}]
      /\ answer' \in [Commands -> Commands \cup {None}]
      /\ pending' \subseteq Commands
  BY <1>1, <1>3, <1>7 DEF TypeOK
<1>9. TypeOK'
  BY <1>1, <1>3, <1>5, <1>8 DEF TypeOK
<1>10. Order'
  BY <1>1, <1>3
     DEF Order, NothingBeforeConnection, InputOrdered, ExecutedAhead, CalledBefore,
         ExecutedInOrder
<1>11. Replies'
  BY <1>1, <1>3, <1>6, <1>7 DEF Replies, RepliesExecuted, AnsweredByItsOwn
<1> QED BY <1>9, <1>10, <1>11 DEF IInv

LEMMA StepIInv == IInv /\ [Next]_vars => IInv'
<1> SUFFICES ASSUME IInv, [Next]_vars PROVE IInv'
  OBVIOUS
<1>1. CASE CallFirst \/ CallLater \/ OnStderr \/ OnExit \/ OnConnectError \/ ServerReady
             \/ ServerDies
  BY <1>1, QuietSteps
<1>2. CASE CallConnected \/ OnConnect
  BY <1>2, WritingSteps
<1>3. CASE OnClose
  BY <1>3, CloseStep
<1>4. CASE OnData
  BY <1>4, DataStep
<1>5. CASE Read
  BY <1>5, ReadStep
<1>6. CASE DropBuffer
  BY <1>6, DropStep
<1>7. CASE UNCHANGED vars
  BY <1>7 DEF vars, client, process, lines, IInv, TypeOK, Order, Replies,
              NothingBeforeConnection, InputOrdered, Ordered, Follows, ExecutedAhead,
              CalledBefore, ExecutedInOrder, RepliesExecuted, AnsweredByItsOwn
<1> QED BY <1>1, <1>2, <1>3, <1>4, <1>5, <1>6, <1>7 DEF Next

(***************************************************************************)
(* The inductive invariant holds, whatever the sizes of the buffers, the   *)
(* commands called and the lines they make.                                *)
(***************************************************************************)
THEOREM Invariance == Spec => []IInv
BY InitIInv, StepIInv, PTL DEF Spec

(***************************************************************************)
(* The sockets and buffers hold pieces of lines; the server's buffer never *)
(* holds more than BufSize (server.cpp, serve_client).                     *)
(***************************************************************************)
THEOREM TypeCorrect == Spec => []TypeOK
<1>1. IInv => TypeOK
  BY DEF IInv
<1> QED BY <1>1, Invariance, PTL

(***************************************************************************)
(* The server executes commands in the order in which the client called    *)
(* them, and none twice, however its reads cut their lines and whatever it *)
(* discards for want of room (index.js, _sendCommand and _connect;         *)
(* server.cpp, serve_client).                                              *)
(***************************************************************************)
THEOREM OrderCorrect == Spec => []ExecutedInOrder
<1>1. IInv => ExecutedInOrder
  BY DEF IInv, Order
<1> QED BY <1>1, Invariance, PTL

(***************************************************************************)
(* A promise of the client is resolved with the answer to its own command, *)
(* and only when the server has executed it (index.js, the data handler).  *)
(***************************************************************************)
THEOREM AnswersCorrect == Spec => []AnsweredByItsOwn
<1>1. IInv => AnsweredByItsOwn
  BY DEF IInv, Replies
<1> QED BY <1>1, Invariance, PTL
-----------------------------------------------------------------------------
(***************************************************************************)
(* The service that all of this implements.  A step settles promises that  *)
(* wait and no others, because of where the connection and the server are  *)
(* when a promise waits or has been rejected.                              *)
(***************************************************************************)

\* A command that was not called yet, one that awaits the connection and one whose answer
\* is awaited: the promise of each waits.
PromisesWait ==
  /\ \A n \in Commands : issued < n => settled[n] = "waiting"
  /\ attempt \in {"none", "waiting"} => \A n \in Commands : settled[n] = "waiting"
  /\ \A n \in pending : n <= issued /\ settled[n] = "waiting"

\* Where there was no connection nothing awaits an answer.
AttemptFits ==
  /\ attempt = "none" => issued = 0 /\ server = "none"
  /\ attempt # "resolved" => pending = {} /\ socket # "open"
  /\ attempt = "rejected" => server \in {"none", "gone"}

\* Once a promise was rejected there is no server that could execute a command.
RejectedAtTheEnd ==
  (\E n \in Commands : settled[n] = "rejected") =>
     server \in {"none", "gone"} /\ attempt # "none"

PromisesInv == PromisesWait /\ AttemptFits /\ RejectedAtTheEnd

LEMMA PromisesInit == Init => PromisesInv
BY DEF Init, PromisesInv, PromisesWait, AttemptFits, RejectedAtTheEnd

\* The calls of commands.
LEMMA CallPromises ==
  ASSUME IInv, PromisesInv, CallFirst \/ CallLater \/ CallConnected
  PROVE  PromisesInv' /\ Service!Call
<1>1. /\ issued \in Nat /\ issued < MaxCommands /\ issued' = issued + 1
      /\ issued' \in Commands /\ MaxCommands \in Nat
      /\ settled \in [Commands -> {"waiting", "rejected", "answered"}]
      /\ pending \subseteq Commands
  BY ChannelAssumption
     DEF IInv, TypeOK, CallFirst, CallLater, CallConnected, Issue, Commands
<1>2. UNCHANGED <<executed, socket>>
  BY DEF CallFirst, CallLater, CallConnected, Write, lines
<1>3. /\ PromisesWait /\ AttemptFits /\ RejectedAtTheEnd
      /\ \A n \in Commands : issued' < n => issued < n
  BY <1>1 DEF PromisesInv, Commands
<1>4. CASE /\ settled' = settled /\ server' = server /\ attempt' = attempt
           /\ attempt = "waiting" /\ pending' = pending
  BY <1>1, <1>2, <1>3, <1>4
     DEF PromisesInv, PromisesWait, AttemptFits, RejectedAtTheEnd, Service!Call, Commands
<1>5. CASE /\ settled' = Rejected({issued'}) /\ server' = server /\ attempt' = "rejected"
           /\ attempt \in {"none", "rejected"} /\ pending' = pending
  <2>1. pending = {} /\ socket # "open" /\ server \in {"none", "gone"}
    BY <1>3, <1>5 DEF AttemptFits
  <2>2. \A n \in Commands : settled'[n] = IF n = issued' THEN "rejected" ELSE settled[n]
    BY <1>5 DEF Rejected
  <2>3. PromisesWait'
    <3>1. ASSUME NEW n \in Commands, issued' < n PROVE settled'[n] = "waiting"
      <4>1. n # issued' /\ issued < n
        BY <1>1, <1>3, <3>1 DEF Commands
      <4> QED BY <1>3, <2>2, <4>1 DEF PromisesWait
    <3>2. attempt' \notin {"none", "waiting"} /\ pending' = {}
      BY <1>5, <2>1
    <3> QED BY <3>1, <3>2 DEF PromisesWait
  <2>4. AttemptFits' /\ RejectedAtTheEnd'
    BY <1>2, <1>5, <2>1 DEF AttemptFits, RejectedAtTheEnd
  <2>5. Service!Settle({issued'}, "rejected")
    BY <1>5 DEF Service!Settle, Service!Commands, Rejected, Commands
  <2> QED BY <1>1, <1>2, <2>3, <2>4, <2>5 DEF PromisesInv, Service!Call
<1>6. CASE /\ settled' = settled /\ server' = "starting" /\ attempt' = "waiting"
           /\ attempt = "none" /\ pending' = pending
  <2>1. /\ pending = {} /\ socket # "open"
        /\ \A n \in Commands : settled'[n] = "waiting"
    BY <1>3, <1>6 DEF AttemptFits, PromisesWait
  <2>2. PromisesWait' /\ AttemptFits' /\ RejectedAtTheEnd'
    BY <1>2, <1>6, <2>1 DEF PromisesWait, AttemptFits, RejectedAtTheEnd
  <2> QED BY <1>1, <1>2, <1>6, <2>2 DEF PromisesInv, Service!Call
<1>7. CASE /\ settled' = settled /\ server' = server /\ attempt' = attempt
           /\ attempt = "resolved" /\ pending' = pending \cup {issued'}
  <2>1. settled[issued'] = "waiting"
    BY <1>1, <1>3 DEF PromisesWait
  <2>2. PromisesWait'
    BY <1>1, <1>3, <1>7, <2>1 DEF PromisesWait, Commands
  <2>3. AttemptFits' /\ RejectedAtTheEnd'
    BY <1>2, <1>3, <1>7 DEF AttemptFits, RejectedAtTheEnd
  <2> QED BY <1>1, <1>2, <1>7, <2>2, <2>3 DEF PromisesInv, Service!Call
<1>8. CASE CallFirst
  BY <1>5, <1>6, <1>8 DEF CallFirst, Spawn, process
<1>9. CASE CallLater
  BY <1>4, <1>5, <1>9 DEF CallLater, process
<1>10. CASE CallConnected
  <2>1. Range(<<issued'>>) = {issued'}
    BY DEF Range
  <2> QED BY <1>7, <1>10, <2>1 DEF CallConnected, Write, process
<1> QED BY <1>8, <1>9, <1>10

\* The steps of the connection, at which nothing is called, executed or settled.
LEMMA ConnectionPromises ==
  ASSUME IInv, PromisesInv, OnStderr \/ OnConnect \/ ServerReady \/ ServerDies \/ DropBuffer
  PROVE  PromisesInv' /\ UNCHANGED <<issued, settled, executed>>
<1>1. PromisesWait /\ AttemptFits /\ RejectedAtTheEnd
  BY DEF PromisesInv
<1>2. /\ issued \in Nat /\ settled \in [Commands -> {"waiting", "rejected", "answered"}]
      /\ MaxCommands \in Nat /\ issued <= MaxCommands
  BY ChannelAssumption DEF IInv, TypeOK
<1>3. CASE OnStderr \/ ServerReady \/ ServerDies \/ DropBuffer
  <2>1. UNCHANGED <<issued, settled, executed, pending, attempt>>
    BY <1>3 DEF OnStderr, ServerReady, ServerDies, DropBuffer, Serving, client, lines
  <2>2. \/ UNCHANGED <<server, socket>>
        \/ server' = server /\ socket' # "open"
        \/ server = "starting" /\ UNCHANGED socket
        \/ server \in {"starting", "listening", "serving"} /\ server' = "gone"
             /\ UNCHANGED socket
    BY <1>3 DEF OnStderr, ServerReady, ServerDies, DropBuffer, Serving, process
  <2>3. PromisesWait'
    BY <1>1, <2>1 DEF PromisesWait
  <2>4. AttemptFits' /\ RejectedAtTheEnd'
    BY <1>1, <2>1, <2>2 DEF AttemptFits, RejectedAtTheEnd
  <2> QED BY <2>1, <2>3, <2>4 DEF PromisesInv
<1>4. CASE OnConnect
  <2>1. /\ UNCHANGED <<issued, settled, executed>> /\ server = "listening"
        /\ server' = "serving" /\ attempt' = "resolved" /\ socket' = "open"
        /\ pending' = pending \cup Range([n \in Awaiting |-> n])
    BY <1>4 DEF OnConnect, Write
  <2>2. Range([n \in Awaiting |-> n]) = Awaiting
    BY DEF Range
  <2>3. \A n \in Awaiting : n \in Commands /\ n <= issued /\ settled[n] = "waiting"
    BY <1>1, <1>2 DEF Awaiting, PromisesWait, Commands
  <2>4. PromisesWait'
    BY <1>1, <2>1, <2>2, <2>3 DEF PromisesWait
  <2>5. AttemptFits' /\ RejectedAtTheEnd'
    BY <1>1, <2>1 DEF AttemptFits, RejectedAtTheEnd
  <2> QED BY <2>1, <2>4, <2>5 DEF PromisesInv
<1> QED BY <1>3, <1>4

\* The connection cannot be made, or is closed.
LEMMA FailurePromises ==
  ASSUME IInv, PromisesInv, OnExit \/ OnConnectError \/ OnClose
  PROVE  PromisesInv' /\ \E S \in SUBSET Commands : Service!Fail(S)
<1>1. PromisesWait /\ AttemptFits /\ RejectedAtTheEnd
  BY DEF PromisesInv
<1>2. /\ issued \in Nat /\ settled \in [Commands -> {"waiting", "rejected", "answered"}]
      /\ MaxCommands \in Nat /\ issued <= MaxCommands /\ pending \subseteq Commands
  BY ChannelAssumption DEF IInv, TypeOK
<1>3. ASSUME NEW S \in SUBSET Commands, \A n \in S : n <= issued /\ settled[n] = "waiting",
             settled' = Rejected(S), UNCHANGED <<issued, executed>>
      PROVE  Service!Fail(S)
  <2>1. S \subseteq Service!Open
    BY <1>2, <1>3 DEF Service!Open, Commands
  <2>2. Service!Settle(S, "rejected")
    BY <1>3 DEF Service!Settle, Service!Commands, Rejected, Commands
  <2> QED BY <1>3, <2>1, <2>2 DEF Service!Fail
<1>4. CASE OnExit \/ OnConnectError
  <2>1. /\ attempt = "waiting" /\ server = "gone" /\ attempt' = "rejected"
        /\ settled' = Rejected(Awaiting)
        /\ UNCHANGED <<issued, executed, pending, server>>
        /\ socket' = socket \/ socket' = "closed"
    BY <1>4 DEF OnExit, OnConnectError, AttemptFails, process, lines
  <2>2. Awaiting = 1 .. issued /\ pending = {} /\ socket' # "open"
    BY <1>1, <2>1 DEF Awaiting, AttemptFits
  <2>3. /\ Awaiting \in SUBSET Commands
        /\ \A n \in Awaiting : n <= issued /\ settled[n] = "waiting"
    BY <1>1, <1>2, <2>1, <2>2 DEF PromisesWait, Commands
  <2>4. \A n \in Commands : issued < n => settled'[n] = "waiting"
    BY <1>1, <1>2, <2>1, <2>2 DEF Rejected, PromisesWait, Commands
  <2>5. PromisesWait' /\ AttemptFits' /\ RejectedAtTheEnd'
    BY <2>1, <2>2, <2>4 DEF PromisesWait, AttemptFits, RejectedAtTheEnd
  <2> QED BY <1>3, <2>1, <2>3, <2>5 DEF PromisesInv
<1>5. CASE OnClose
  <2>1. /\ socket = "open" /\ server = "gone" /\ socket' = "closed"
        /\ settled' = Rejected(pending) /\ pending' = {}
        /\ UNCHANGED <<issued, executed, attempt, server>>
    BY <1>5 DEF OnClose, process
  <2>2. attempt = "resolved"
    BY <1>1, <2>1 DEF AttemptFits
  <2>3. \A n \in pending : n <= issued /\ settled[n] = "waiting"
    BY <1>1 DEF PromisesWait
  <2>4. \A n \in Commands : issued < n => settled'[n] = "waiting"
    BY <1>1, <1>2, <2>1, <2>3 DEF Rejected, PromisesWait, Commands
  <2>5. PromisesWait' /\ AttemptFits' /\ RejectedAtTheEnd'
    BY <2>1, <2>2, <2>4 DEF PromisesWait, AttemptFits, RejectedAtTheEnd
  <2> QED BY <1>2, <1>3, <2>1, <2>3, <2>5 DEF PromisesInv
<1> QED BY <1>4, <1>5

\* Answers come for what was executed.
LEMMA DataPromises ==
  ASSUME IInv, IInv', PromisesInv, OnData
  PROVE  PromisesInv' /\ \E S \in SUBSET Commands : Service!Answer(S)
<1>1. PromisesWait /\ AttemptFits /\ RejectedAtTheEnd
  BY DEF PromisesInv
<1>2. /\ issued \in Nat /\ settled \in [Commands -> {"waiting", "rejected", "answered"}]
      /\ pending \subseteq Commands /\ executed \in Seq(Commands)
  BY DEF IInv, TypeOK
<1>3. PICK taken :
        /\ taken \subseteq pending /\ pending' = pending \ taken
        /\ settled' = [n \in Commands |-> IF n \in taken THEN "answered" ELSE settled[n]]
  <2>1. PICK k \in 1 .. Len(from_server) :
          LET buf == recvBuf \o SubSeq(from_server, 1, k)
              taken == Taken(Whole(buf))
          IN  /\ pending' = pending \ taken
              /\ settled' = [n \in Commands |-> IF n \in taken THEN "answered"
                                                               ELSE settled[n]]
    BY DEF OnData
  <2> DEFINE taken == Taken(Whole(recvBuf \o SubSeq(from_server, 1, k)))
  <2>2. taken \subseteq pending
    BY DEF Taken
  <2> QED BY <2>1, <2>2
<1>4. socket = "open" /\ UNCHANGED <<issued, executed, attempt, server, socket>>
  BY DEF OnData, process
<1>5. attempt = "resolved"
  BY <1>1, <1>4 DEF AttemptFits
<1>6. taken \in SUBSET Commands /\ \A n \in taken : n <= issued /\ settled[n] = "waiting"
  BY <1>1, <1>2, <1>3 DEF PromisesWait
<1>7. PromisesWait'
  BY <1>1, <1>2, <1>3, <1>4, <1>5, <1>6 DEF PromisesWait, Commands
<1>8. \A n \in Commands : settled'[n] = "rejected" => settled[n] = "rejected"
  BY <1>3
<1>9. AttemptFits' /\ RejectedAtTheEnd'
  BY <1>1, <1>4, <1>5, <1>8 DEF AttemptFits, RejectedAtTheEnd
<1>10. \A n \in taken : \E j \in DOMAIN executed : executed[j] = n
  <2>1. \A n \in taken : n \in Range(executed')
    BY <1>3, <1>6 DEF IInv, Replies, AnsweredByItsOwn
  <2> QED BY <1>4, <2>1 DEF Range
<1>11. Service!Answer(taken)
  <2>1. taken \subseteq Service!Open
    BY <1>2, <1>6 DEF Service!Open, Commands
  <2>2. Service!Settle(taken, "answered")
    BY <1>3 DEF Service!Settle, Service!Commands, Commands
  <2> QED BY <1>4, <1>10, <2>1, <2>2 DEF Service!Answer
<1> QED BY <1>6, <1>7, <1>9, <1>11 DEF PromisesInv

\* Commands in ascending order are no more than there are.
LEMMA AscendingIsShort ==
  ASSUME NEW ns \in Seq(Commands), \A j, k \in DOMAIN ns : j < k => ns[j] < ns[k]
  PROVE  ns # <<>> => ns \in Service!Batches
<1> DEFINE T == {n \in Nat : n \in DOMAIN ns => n <= ns[n]}
<1>1. DOMAIN ns = 1 .. Len(ns) /\ Len(ns) \in Nat /\ MaxCommands \in Nat
      /\ \A k \in DOMAIN ns : ns[k] \in Commands
  BY LenProperties, ElementOfSeq, ChannelAssumption
<1>2. 0 \in T
  BY <1>1
<1>3. ASSUME NEW n \in Nat, n \in T PROVE n + 1 \in T
  <2> SUFFICES ASSUME n + 1 \in DOMAIN ns PROVE n + 1 <= ns[n + 1]
    OBVIOUS
  <2>1. CASE n = 0
    BY <1>1, <2>1 DEF Commands
  <2>2. CASE n # 0
    <3>1. n \in DOMAIN ns /\ n < n + 1
      BY <1>1, <2>2
    <3>2. n <= ns[n]
      BY <1>3, <3>1
    <3>3. ns[n] < ns[n + 1]
      BY <3>1
    <3>4. ns[n] \in Nat /\ ns[n + 1] \in Nat
      BY <1>1, <3>1 DEF Commands
    <3> QED BY <3>2, <3>3, <3>4
  <2> QED BY <2>1, <2>2
<1>4. \A n \in Nat : n \in T
  <2> HIDE DEF T
  <2> QED BY <1>2, <1>3, NatSetInduction
<1> SUFFICES ASSUME ns # <<>> PROVE ns \in Service!Batches
  OBVIOUS
<1>5. Len(ns) # 0 /\ Len(ns) \in DOMAIN ns
  BY <1>1, EmptySeq
<1>6. Len(ns) <= ns[Len(ns)] /\ ns[Len(ns)] \in 1 .. MaxCommands
  BY <1>1, <1>4, <1>5 DEF Commands
<1>7. Len(ns) \in Commands
  BY <1>1, <1>5, <1>6 DEF Commands
<1>8. ns \in [1 .. Len(ns) -> Commands]
  BY <1>1
<1> QED BY <1>7, <1>8 DEF Service!Batches, Service!Commands, Commands

\* The server reads only while no promise has been rejected.
LEMMA ReadPromises ==
  ASSUME IInv, IInv', PromisesInv, Read
  PROVE  /\ PromisesInv'
         /\ \/ UNCHANGED <<issued, settled, executed>>
            \/ \E ns \in Service!Batches : Service!Execute(ns)
<1>1. PromisesWait /\ AttemptFits /\ RejectedAtTheEnd
  BY DEF PromisesInv
<1>2. /\ UNCHANGED <<issued, settled, answer, attempt, pending, server, socket>>
      /\ server = "serving"
  BY DEF Read, Serving, client, process
<1>3. PromisesInv'
  BY <1>1, <1>2 DEF PromisesInv, PromisesWait, AttemptFits, RejectedAtTheEnd
<1>4. /\ settled \in [Commands -> {"waiting", "rejected", "answered"}]
      /\ executed \in Seq(Commands) /\ executed' \in Seq(Commands)
      /\ to_server \in Seq(Pieces) /\ recv_buf \in Seq(Pieces) /\ issued \in Nat
  BY DEF IInv, TypeOK
<1>5. PICK ns : ns \in Seq(Commands) /\ executed' = executed \o ns
  <2>1. PICK n \in 1 .. Smaller(Room, Len(to_server)) :
          LET buf == recv_buf \o SubSeq(to_server, 1, n) IN Dispatch(Whole(buf))
    BY DEF Read
  <2>2. n \in 1 .. Len(to_server)
    BY <1>4, <2>1, LenProperties, ChannelAssumption DEF Smaller, Room
  <2>3. Whole(Chunk(recv_buf, to_server, n)) \in Seq(Commands)
    BY <1>4, <2>2, ReadTypes
  <2> QED BY <2>1, <2>3 DEF Dispatch, Chunk
<1>6. /\ Len(executed) \in Nat /\ Len(ns) \in Nat
      /\ DOMAIN executed = 1 .. Len(executed) /\ DOMAIN ns = 1 .. Len(ns)
      /\ DOMAIN executed' = 1 .. Len(executed) + Len(ns)
      /\ \A j \in DOMAIN executed : executed'[j] = executed[j]
      /\ \A k \in DOMAIN ns : executed'[Len(executed) + k] = ns[k]
  BY <1>4, <1>5, Longer DEF Then
<1>7. /\ \A j, k \in DOMAIN executed' : j < k => executed'[j] < executed'[k]
      /\ \A j \in DOMAIN executed' : executed'[j] <= issued
  BY <1>2 DEF IInv, Order, ExecutedInOrder, CalledBefore
<1>8. ASSUME NEW k \in DOMAIN ns
      PROVE  /\ \A j \in DOMAIN executed : executed[j] < ns[k]
             /\ \A j \in DOMAIN ns : k < j => ns[k] < ns[j]
             /\ ns[k] <= issued /\ ns[k] \in Commands
  <2>1. /\ \A j \in DOMAIN executed : j < Len(executed) + k
        /\ \A j \in DOMAIN ns : k < j => Len(executed) + k < Len(executed) + j
        /\ \A j \in DOMAIN ns : Len(executed) + j \in DOMAIN executed'
        /\ DOMAIN executed \subseteq DOMAIN executed'
    BY <1>6
  <2>2. ns[k] \in Commands
    BY <1>5, <1>6, ElementOfSeq
  <2> QED BY <1>6, <1>7, <2>1, <2>2
<1>9. ASSUME NEW k \in DOMAIN ns PROVE ns[k] \in Service!Open
  <2>1. ns[k] <= issued /\ ns[k] \in Commands /\ \A j \in DOMAIN executed : executed[j] < ns[k]
    BY <1>8
  <2>2. settled[ns[k]] # "rejected"
    BY <1>1, <1>2, <2>1 DEF RejectedAtTheEnd
  <2>3. settled[ns[k]] # "answered"
    <3>1. SUFFICES ASSUME ns[k] \in Range(executed) PROVE FALSE
      BY <2>1 DEF IInv, Replies, AnsweredByItsOwn
    <3>2. PICK j \in DOMAIN executed : executed[j] = ns[k]
      BY <3>1 DEF Range
    <3> QED BY <2>1, <3>2 DEF Commands
  <2>4. settled[ns[k]] = "waiting"
    BY <1>4, <2>1, <2>2, <2>3
  <2> QED BY <1>4, <2>1, <2>4 DEF Service!Open, Commands
<1>10. Service!Execute(ns)
  BY <1>2, <1>5, <1>8, <1>9 DEF Service!Execute
<1>11. ns # <<>> => ns \in Service!Batches
  BY <1>5, <1>8, AscendingIsShort
<1>12. ns = <<>> => executed' = executed
  BY <1>4, <1>5
<1> QED BY <1>2, <1>3, <1>10, <1>11, <1>12

LEMMA ServiceInit == Init => Service!Init
BY DEF Init, Service!Init, Commands, Service!Commands

LEMMA ServiceStep ==
  IInv /\ IInv' /\ PromisesInv /\ [Next]_vars =>
    PromisesInv' /\ [Service!Next]_<<issued, settled, executed>>
<1> SUFFICES ASSUME IInv, IInv', PromisesInv, [Next]_vars
             PROVE  PromisesInv' /\ [Service!Next]_<<issued, settled, executed>>
  OBVIOUS
<1>1. CASE CallFirst \/ CallLater \/ CallConnected
  BY <1>1, CallPromises DEF Service!Next
<1>2. CASE OnStderr \/ OnConnect \/ ServerReady \/ ServerDies \/ DropBuffer
  BY <1>2, ConnectionPromises
<1>3. CASE OnExit \/ OnConnectError \/ OnClose
  BY <1>3, FailurePromises DEF Service!Next, Service!Commands, Commands
<1>4. CASE OnData
  BY <1>4, DataPromises DEF Service!Next, Service!Commands, Commands
<1>5. CASE Read
  BY <1>5, ReadPromises DEF Service!Next
<1>6. CASE UNCHANGED vars
  BY <1>6 DEF vars, client, process, lines, PromisesInv, PromisesWait, AttemptFits,
              RejectedAtTheEnd
<1> QED BY <1>1, <1>2, <1>3, <1>4, <1>5, <1>6 DEF Next

(***************************************************************************)
(* Library, connection and server implement CommandService, for any number *)
(* of commands of any lengths and whenever the server dies: commands are   *)
(* executed in order, at most once and never after their rejection, and    *)
(* each promise settles at most once (index.js, server.cpp).               *)
(***************************************************************************)
THEOREM ServiceImplemented == Spec => ImplementsService
<1>1. Init => PromisesInv /\ Service!Init
  BY PromisesInit, ServiceInit
<1>2. IInv /\ IInv' /\ PromisesInv /\ [Next]_vars =>
        PromisesInv' /\ [Service!Next]_<<issued, settled, executed>>
  BY ServiceStep
<1> QED BY <1>1, <1>2, Invariance, PTL DEF Spec, ImplementsService, Service!Spec
=============================================================================
