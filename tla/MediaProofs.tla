----------------------------- MODULE MediaProofs -----------------------------
(***************************************************************************)
(* Proofs about the media of a call (MediaEndpoints and TcpMedia), for any *)
(* lists of media, any offers, any messages and any pieces they come in.   *)
(*                                                                         *)
(* The argument has three parts.  on_data_read() cuts what has arrived into*)
(* the messages it was joined from, because the size it finds depends on   *)
(* the message in front only.  process_media() makes and keeps endpoints so*)
(* that whatever is open will be closed with the call, or is lost (Sound). *)
(* And it takes for each item the first place of the item's type that is   *)
(* not taken yet, which is the place of the line that the negotiator, who  *)
(* matches lines by type and rank, will put there (Matches): before that   *)
(* place there are as many of the type as there were items of the type.    *)
(* So the lines and the places of call->media agree when on_media_update() *)
(* looks at them, and remain so while it goes through them (MediaInv).     *)
(*                                                                         *)
(* CommandChannelProofs has the lemmas about sequences that are joined.    *)
(***************************************************************************)
EXTENDS CommandChannelProofs, MediaEndpoints, FiniteSetTheorems

-----------------------------------------------------------------------------
\* Min of FiniteSetsExt, for any non-empty set of naturals.
LEMMA MinIsLeast ==
  ASSUME NEW T, T \subseteq Nat, T # {}
  PROVE  Min(T) \in T /\ \A y \in T : Min(T) <= y
<1>1. \E x \in T : \A y \in T : x <= y
  BY LeastExists
<1> QED BY <1>1 DEF Min

LEMMA MinIs ==
  ASSUME NEW T, T \subseteq Nat, NEW x \in T, \A y \in T : x <= y
  PROVE  Min(T) = x
<1>1. Min(T) \in T /\ Min(T) <= x
  BY MinIsLeast
<1>2. x <= Min(T) /\ x \in Nat /\ Min(T) \in Nat
  BY <1>1
<1> QED BY <1>1, <1>2

(***************************************************************************)
(* The framing of messages.  What on_data_read() finds at the start of the *)
(* buffer depends on the message that is there and on nothing behind it.   *)
(***************************************************************************)
LEMMA BodyLengthType ==
  ASSUME NEW b, NEW end \in Nat
  PROVE  BodyLength(b, end) \in Nat
<1> DEFINE at == {i \in 1 .. end : b[i] \in DOMAIN ContentLengths}
<1>1. CASE at = {}
  BY <1>1 DEF BodyLength
<1>2. CASE at # {}
  <2>1. at \subseteq Nat
    OBVIOUS
  <2>2. Min(at) \in at
    BY <1>2, <2>1, MinIsLeast
  <2>3. b[Min(at)] \in {"c0", "c1", "c2"}
    BY <2>2 DEF ContentLengths
  <2>4. ContentLengths[b[Min(at)]] \in Nat
    BY <2>3 DEF ContentLengths
  <2> QED BY <1>2, <2>4 DEF BodyLength
<1> QED BY <1>1, <1>2

LEMMA BlankLineType ==
  ASSUME NEW b \in Seq(STRING)
  PROVE  /\ BlankLine(b) \in Nat
         /\ BlankLine(b) # 0 => /\ BlankLine(b) \in 1 .. Len(b) - 1
                                /\ b[BlankLine(b)] = "n" /\ b[BlankLine(b) + 1] = "n"
                                /\ \A i \in 1 .. Len(b) - 1 :
                                     b[i] = "n" /\ b[i + 1] = "n" => BlankLine(b) <= i
         /\ BlankLine(b) = 0 => \A i \in 1 .. Len(b) - 1 : ~ (b[i] = "n" /\ b[i + 1] = "n")
<1> DEFINE at == {i \in 1 .. Len(b) - 1 : b[i] = "n" /\ b[i + 1] = "n"}
<1>1. at \subseteq Nat \ {0}
  OBVIOUS
<1>2. CASE at = {}
  BY <1>2 DEF BlankLine
<1>3. CASE at # {}
  <2>1. Min(at) \in at /\ \A y \in at : Min(at) <= y
    BY <1>1, <1>3, MinIsLeast
  <2>2. BlankLine(b) = Min(at)
    BY <1>3 DEF BlankLine
  <2> HIDE DEF at
  <2>3. BlankLine(b) \in at /\ \A y \in at : BlankLine(b) <= y
    BY <2>1, <2>2
  <2> QED BY <1>1, <2>3 DEF at
<1> QED BY <1>2, <1>3

\* The first blank line is known from its own two units and those in front.
LEMMA BlankLineIs ==
  ASSUME NEW b \in Seq(STRING), NEW end \in 1 .. Len(b) - 1, b[end] = "n", b[end + 1] = "n",
         \A i \in 1 .. end - 1 : ~ (b[i] = "n" /\ b[i + 1] = "n")
  PROVE  BlankLine(b) = end
<1>1. BlankLine(b) # 0 /\ BlankLine(b) <= end
  BY BlankLineType, LenProperties
<1>2. ~ (BlankLine(b) < end)
  BY <1>1, BlankLineType, LenProperties
<1> QED BY <1>1, <1>2, BlankLineType, LenProperties

LEMMA MessageSizeType ==
  ASSUME NEW b \in Seq(STRING)
  PROVE  MessageSize(b) \in 0 .. Len(b)
<1>1. BlankLine(b) \in Nat /\ BodyLength(b, BlankLine(b)) \in Nat /\ Len(b) \in Nat
  BY BlankLineType, BodyLengthType, LenProperties
<1> QED BY <1>1 DEF MessageSize

LEMMA NoMessageInNothing == MessageSize(<<>>) = 0
<1>1. <<>> \in Seq(STRING) /\ Len(<<>>) = 0
  BY EmptySeq
<1>2. MessageSize(<<>>) \in 0 .. 0
  BY <1>1, MessageSizeType
<1> QED BY <1>2

\* The size of a message at the start of b, once so much of it is there.
LEMMA MessageSizeOf ==
  ASSUME NEW m \in Messages, NEW b \in Seq(STRING),
         \A i \in 1 .. Len(m) : i <= Len(b) => b[i] = m[i]
  PROVE  MessageSize(b) = IF Len(m) <= Len(b) THEN Len(m) ELSE 0
<1> DEFINE end == BlankLine(m)
<1>1. /\ m \in Seq(STRING) /\ MessageSize(m) = Len(m)
      /\ Len(m) \in Nat \ {0} /\ Len(b) \in Nat
  BY MessageAssumption, LenProperties, EmptySeq
<1>2. /\ end \in 1 .. Len(m) - 1 /\ m[end] = "n" /\ m[end + 1] = "n"
      /\ end + 1 + BodyLength(m, end) = Len(m)
  BY <1>1, BlankLineType DEF MessageSize
<1>3. ASSUME NEW i \in 1 .. end - 1, m[i] = "n" /\ m[i + 1] = "n" PROVE FALSE
  <2>1. i \in 1 .. Len(m) - 1 /\ ~ (end <= i) /\ end # 0
    BY <1>1, <1>2
  <2> QED BY <1>1, <1>3, <2>1, BlankLineType
<1>4. BodyLength(m, end) \in Nat
  BY <1>2, BodyLengthType
<1> HIDE DEF end
<1>5. CASE Len(b) < end + 1
  <2>1. ASSUME BlankLine(b) # 0 PROVE FALSE
    <3>1. BlankLine(b) \in 1 .. end - 1 /\ BlankLine(b) + 1 <= Len(b)
      BY <1>1, <1>2, <1>5, <2>1, BlankLineType
    <3>2. BlankLine(b) \in 1 .. Len(m) /\ BlankLine(b) + 1 \in 1 .. Len(m)
      BY <1>1, <1>2, <3>1
    <3>3. m[BlankLine(b)] = b[BlankLine(b)] /\ m[BlankLine(b) + 1] = b[BlankLine(b) + 1]
      BY <1>1, <3>1, <3>2
    <3> QED BY <1>3, <2>1, <3>1, <3>3, BlankLineType
  <2>2. Len(b) < Len(m)
    BY <1>1, <1>2, <1>5
  <2> QED BY <1>1, <2>1, <2>2 DEF MessageSize
<1>6. CASE end + 1 <= Len(b)
  <2>1. \A i \in 1 .. end + 1 : b[i] = m[i]
    BY <1>1, <1>2, <1>6
  <2>2. \A i \in 1 .. end - 1 : i \in 1 .. end + 1 /\ i + 1 \in 1 .. end + 1
    BY <1>1, <1>2
  <2>3. \A i \in 1 .. end - 1 : b[i] = m[i] /\ b[i + 1] = m[i + 1]
    BY <2>1, <2>2
  <2>4. b[end] = "n" /\ b[end + 1] = "n" /\ end \in 1 .. Len(b) - 1
    BY <1>1, <1>2, <1>6, <2>1
  <2>5. BlankLine(b) = end
    BY <1>3, <2>3, <2>4, BlankLineIs
  <2>6. BodyLength(b, end) = BodyLength(m, end)
    <3>1. {i \in 1 .. end : b[i] \in DOMAIN ContentLengths}
             = {i \in 1 .. end : m[i] \in DOMAIN ContentLengths}
      <4>1. \A i \in 1 .. end : b[i] = m[i]
        BY <1>1, <1>2, <2>1
      <4> QED BY <4>1
    <3> DEFINE at == {i \in 1 .. end : m[i] \in DOMAIN ContentLengths}
    <3>2. at # {} => Min(at) \in 1 .. end
      <4>1. at \subseteq Nat
        OBVIOUS
      <4> QED BY <4>1, MinIsLeast
    <3>3. at # {} => b[Min(at)] = m[Min(at)]
      BY <1>1, <1>2, <2>1, <3>2
    <3>4. BodyLength(b, end) = IF at = {} THEN 0 ELSE ContentLengths[b[Min(at)]]
      BY <3>1 DEF BodyLength
    <3>5. BodyLength(m, end) = IF at = {} THEN 0 ELSE ContentLengths[m[Min(at)]]
      BY DEF BodyLength
    <3> QED BY <3>3, <3>4, <3>5
  <2>7. MessageSize(b) = IF Len(m) > Len(b) THEN 0 ELSE Len(m)
    BY <1>1, <1>2, <2>5, <2>6 DEF MessageSize
  <2> QED BY <1>1, <2>7
<1> QED BY <1>1, <1>2, <1>5, <1>6

-----------------------------------------------------------------------------
(***************************************************************************)
(* The loop of on_data_read() is a function that is defined by recursion   *)
(* over the buffer; that there is one is by induction over its length.     *)
(***************************************************************************)
\* What one turn of the loop makes of b; f is the rest of it.
Turn(f, b) ==
  LET size == MessageSize(b)
      rest == f[SubSeq(b, size + 1, Len(b))]
  IN  IF size = 0 THEN [messages |-> <<>>, remain |-> b]
      ELSE [messages |-> <<SubSeq(b, 1, size)>> \o rest.messages, remain |-> rest.remain]

\* f cuts what is no longer than n.
CutsTo(f, n) == \A b \in Seq(STRING) : Len(b) <= n => f[b] = Turn(f, b)

\* What is left behind a message is shorter.
LEMMA RestIsShorter ==
  ASSUME NEW b \in Seq(STRING), MessageSize(b) # 0
  PROVE  /\ SubSeq(b, MessageSize(b) + 1, Len(b)) \in Seq(STRING)
         /\ Len(SubSeq(b, MessageSize(b) + 1, Len(b))) = Len(b) - MessageSize(b)
         /\ Len(SubSeq(b, MessageSize(b) + 1, Len(b))) \in 0 .. Len(b) - 1
<1>1. MessageSize(b) \in 1 .. Len(b) /\ Len(b) \in Nat
  BY MessageSizeType, LenProperties
<1>2. \A i \in MessageSize(b) + 1 .. Len(b) : b[i] \in STRING
  BY <1>1, ElementOfSeq
<1>3. SubSeq(b, MessageSize(b) + 1, Len(b)) \in Seq(STRING)
  BY <1>1, <1>2, SubSeqProperties
<1> QED BY <1>1, <1>3, SubSeqProperties

LEMMA TurnsAgree ==
  ASSUME NEW f, NEW g, NEW b \in Seq(STRING), NEW n \in Nat, Len(b) <= n + 1,
         \A s \in Seq(STRING) : Len(s) <= n => f[s] = g[s]
  PROVE  Turn(f, b) = Turn(g, b)
<1>1. CASE MessageSize(b) = 0
  BY <1>1 DEF Turn
<1>2. CASE MessageSize(b) # 0
  <2> DEFINE rest == SubSeq(b, MessageSize(b) + 1, Len(b))
  <2>1. rest \in Seq(STRING) /\ Len(rest) <= n
    BY <1>2, RestIsShorter, LenProperties
  <2>2. f[rest] = g[rest]
    BY <2>1
  <2> QED BY <2>2 DEF Turn
<1> QED BY <1>1, <1>2

LEMMA CutterExists == \A n \in Nat : \E f : CutsTo(f, n)
<1> DEFINE T == {n \in Nat : \E f : CutsTo(f, n)}
<1>1. 0 \in T
  <2> DEFINE f == [b \in Seq(STRING) |-> [messages |-> <<>>, remain |-> b]]
  <2>1. ASSUME NEW b \in Seq(STRING), Len(b) <= 0 PROVE f[b] = Turn(f, b)
    <3>1. MessageSize(b) = 0
      BY <2>1, MessageSizeType, LenProperties
    <3> QED BY <3>1 DEF Turn
  <2> QED BY <2>1 DEF CutsTo
<1>2. ASSUME NEW n \in Nat, n \in T PROVE n + 1 \in T
  <2>1. PICK f : CutsTo(f, n)
    BY <1>2
  <2> DEFINE g == [b \in Seq(STRING) |-> IF Len(b) <= n THEN f[b] ELSE Turn(f, b)]
  <2>2. \A b \in Seq(STRING) : Len(b) <= n => g[b] = f[b]
    OBVIOUS
  <2>3. \A b \in Seq(STRING) : ~ (Len(b) <= n) => g[b] = Turn(f, b)
    OBVIOUS
  <2> HIDE DEF g
  <2>4. ASSUME NEW b \in Seq(STRING), Len(b) <= n + 1 PROVE g[b] = Turn(g, b)
    <3>1. Turn(f, b) = Turn(g, b)
      BY <2>2, <2>4, TurnsAgree
    <3>2. g[b] = Turn(f, b)
      BY <2>1, <2>2, <2>3 DEF CutsTo
    <3> QED BY <3>1, <3>2
  <2>5. CutsTo(g, n + 1)
    BY <2>4 DEF CutsTo
  <2> QED BY <2>5
<1> HIDE DEF T
<1>3. \A n \in Nat : n \in T
  BY <1>1, <1>2, NatSetInduction
<1> QED BY <1>3 DEF T

LEMMA CuttersAgree ==
  ASSUME NEW n \in Nat, NEW f, NEW g, CutsTo(f, n), CutsTo(g, n)
  PROVE  \A b \in Seq(STRING) : Len(b) <= n => f[b] = g[b]
<1> DEFINE T == {k \in Nat : \A b \in Seq(STRING) : Len(b) <= n /\ Len(b) <= k => f[b] = g[b]}
<1>1. 0 \in T
  <2> SUFFICES ASSUME NEW b \in Seq(STRING), Len(b) <= 0 PROVE f[b] = g[b]
    OBVIOUS
  <2>1. MessageSize(b) = 0
    BY MessageSizeType, LenProperties
  <2>2. Turn(f, b) = Turn(g, b)
    BY <2>1 DEF Turn
  <2>3. Len(b) <= n
    BY LenProperties
  <2> QED BY <2>2, <2>3 DEF CutsTo
<1>2. ASSUME NEW k \in Nat, k \in T PROVE k + 1 \in T
  <2> SUFFICES ASSUME NEW b \in Seq(STRING), Len(b) <= n, Len(b) <= k + 1 PROVE f[b] = g[b]
    OBVIOUS
  <2>1. CASE k <= n
    <3>1. \A s \in Seq(STRING) : Len(s) <= k => f[s] = g[s]
      BY <1>2, <2>1, LenProperties
    <3>2. Turn(f, b) = Turn(g, b)
      BY <3>1, TurnsAgree
    <3> QED BY <3>2 DEF CutsTo
  <2>2. CASE ~ (k <= n)
    <3>1. Len(b) <= k
      BY <2>2, LenProperties
    <3> QED BY <1>2, <3>1
  <2> QED BY <2>1, <2>2
<1> HIDE DEF T
<1>3. \A k \in Nat : k \in T
  BY <1>1, <1>2, NatSetInduction
<1>4. n \in T
  BY <1>3
<1> QED BY <1>4 DEF T

LEMMA CutEquation == \A b \in Seq(STRING) : Cut[b] = Turn(Cut, b)
<1> DEFINE F(n) == CHOOSE f : CutsTo(f, n)
           h == [b \in Seq(STRING) |-> F(Len(b))[b]]
           Cuts(c) == c = [b \in Seq(STRING) |-> Turn(c, b)]
<1>1. \A n \in Nat : CutsTo(F(n), n)
  BY CutterExists
<1> HIDE DEF F
<1>2. ASSUME NEW b \in Seq(STRING) PROVE h[b] = Turn(h, b)
  <2>1. Len(b) \in Nat /\ h[b] = F(Len(b))[b]
    BY LenProperties
  <2>2. F(Len(b))[b] = Turn(F(Len(b)), b)
    BY <1>1, <2>1 DEF CutsTo
  <2>3. ASSUME NEW s \in Seq(STRING), Len(s) <= Len(b) PROVE F(Len(b))[s] = h[s]
    <3>1. Len(s) \in Nat /\ h[s] = F(Len(s))[s]
      BY LenProperties
    <3>2. CutsTo(F(Len(s)), Len(s)) /\ CutsTo(F(Len(b)), Len(b))
      BY <1>1, <2>1, <3>1
    <3>3. CutsTo(F(Len(b)), Len(s))
      <4>1. ASSUME NEW t \in Seq(STRING), Len(t) <= Len(s)
            PROVE  F(Len(b))[t] = Turn(F(Len(b)), t)
        <5>1. Len(t) <= Len(b)
          BY <2>1, <2>3, <3>1, <4>1, LenProperties
        <5> QED BY <3>2, <5>1 DEF CutsTo
      <4> QED BY <4>1 DEF CutsTo
    <3> QED BY <3>1, <3>2, <3>3, CuttersAgree
  <2> HIDE DEF h
  <2>4. Turn(F(Len(b)), b) = Turn(h, b)
    BY <2>1, <2>3, TurnsAgree
  <2> QED BY <2>1, <2>2, <2>4
<1>3. Cuts(h)
  BY <1>2
<1>4. Cut = CHOOSE c : Cuts(c)
  BY DEF Cut, Turn
<1> HIDE DEF h
<1>5. Cuts(Cut)
  BY <1>3, <1>4
<1>6. ASSUME NEW b \in Seq(STRING) PROVE Cut[b] = Turn(Cut, b)
  BY <1>5
<1> QED BY <1>6

-----------------------------------------------------------------------------
(***************************************************************************)
(* Messages joined and cut up again, in pieces.                            *)
(***************************************************************************)

\* What is known of b and the units w behind it when together they are messages: the
\* messages that are whole are cut off, and the rest is still messages.
CutsWell(b, w, msgs) ==
  \E done \in Seq(Messages), rest \in Seq(Messages) :
    /\ msgs = done \o rest
    /\ Cut[b].messages = done
    /\ Cut[b].remain \in Seq(STRING)
    /\ MessageSize(Cut[b].remain) = 0
    /\ Cut[b].remain \o w = Joined(rest)

LEMMA CutsWellBy ==
  ASSUME NEW b, NEW w, NEW msgs, NEW done \in Seq(Messages), NEW rest \in Seq(Messages),
         msgs = done \o rest, Cut[b].messages = done, Cut[b].remain \in Seq(STRING),
         MessageSize(Cut[b].remain) = 0, Cut[b].remain \o w = Joined(rest)
  PROVE  CutsWell(b, w, msgs)
<1> DEFINE Both(d, r) == /\ msgs = d \o r
                         /\ Cut[b].messages = d
                         /\ Cut[b].remain \in Seq(STRING)
                         /\ MessageSize(Cut[b].remain) = 0
                         /\ Cut[b].remain \o w = Joined(r)
<1>1. Both(done, rest)
  OBVIOUS
<1> HIDE DEF Both
<1>2. \E d \in Seq(Messages), r \in Seq(Messages) : Both(d, r)
  BY <1>1
<1> QED BY <1>2 DEF CutsWell, Both

LEMMA MessagesAreUnits ==
  ASSUME NEW msgs \in Seq(Messages)
  PROVE  msgs \in Seq(Seq(STRING)) /\ Joined(msgs) \in Seq(STRING)
<1>1. Messages \subseteq Seq(STRING)
  BY MessageAssumption
<1>2. msgs \in Seq(Seq(STRING))
  BY <1>1, SeqMonotonic
<1> QED BY <1>2, JoinedType

\* The units in front of a point are those of the first message.
LEMMA FirstMessage ==
  ASSUME NEW msgs \in Seq(Messages), msgs # <<>>,
         NEW b \in Seq(STRING), NEW w \in Seq(STRING), b \o w = Joined(msgs)
  PROVE  /\ Head(msgs) \in Messages /\ Head(msgs) \in Seq(STRING)
         /\ Len(Head(msgs)) \in Nat \ {0}
         /\ Tail(msgs) \in Seq(Messages)
         /\ Joined(Tail(msgs)) \in Seq(STRING)
         /\ b \o w = Head(msgs) \o Joined(Tail(msgs))
         /\ MessageSize(b) = IF Len(Head(msgs)) <= Len(b) THEN Len(Head(msgs)) ELSE 0
<1> DEFINE m == Head(msgs)
           more == Joined(Tail(msgs))
<1>1. m \in Messages /\ Tail(msgs) \in Seq(Messages)
  BY HeadTailProperties
<1>2. /\ m \in Seq(STRING) /\ Len(m) \in Nat \ {0} /\ more \in Seq(STRING)
      /\ Len(b) \in Nat /\ Len(w) \in Nat
  BY <1>1, MessageAssumption, MessagesAreUnits, EmptySeq, LenProperties
<1>3. b \o w = m \o more
  BY MessagesAreUnits, JoinedTail
<1>4. ASSUME NEW i \in 1 .. Len(m), i <= Len(b) PROVE b[i] = m[i]
  <2>1. (b \o w)[i] = b[i]
    BY <1>2, <1>4, ConcatProperties
  <2>2. (m \o more)[i] = m[i]
    BY <1>2, ConcatProperties, LenProperties
  <2> QED BY <1>3, <2>1, <2>2
<1>5. MessageSize(b) = IF Len(m) <= Len(b) THEN Len(m) ELSE 0
  BY <1>1, <1>4, MessageSizeOf
<1> QED BY <1>1, <1>2, <1>3, <1>5

LEMMA ConcatFront ==
  ASSUME NEW b \in Seq(STRING), NEW w \in Seq(STRING), NEW m \in Seq(STRING),
         NEW more \in Seq(STRING), Then(b, w) = Then(m, more), Len(m) <= Len(b)
  PROVE  /\ SubSeq(b, 1, Len(m)) = m
         /\ SubSeq(b, Len(m) + 1, Len(b)) \in Seq(STRING)
         /\ Then(SubSeq(b, Len(m) + 1, Len(b)), w) = more
<1> USE DEF Then
<1> DEFINE front == SubSeq(b, 1, Len(m))
           back == SubSeq(b, Len(m) + 1, Len(b))
<1>1. Len(b) \in Nat /\ Len(m) \in Nat /\ Len(w) \in Nat /\ Len(more) \in Nat
  BY LenProperties
<1>2. \A i \in 1 .. Len(b) : b[i] \in STRING
  BY ElementOfSeq
<1>3. \A i \in 1 .. Len(m) : b[i] \in STRING
  BY <1>1, <1>2
<1>4. \A i \in Len(m) + 1 .. Len(b) : b[i] \in STRING
  BY <1>1, <1>2
<1>5. /\ front \in Seq(STRING) /\ Len(front) = Len(m)
      /\ \A i \in 1 .. Len(m) - 1 + 1 : front[i] = b[1 + i - 1]
  BY <1>1, <1>3, SubSeqProperties
<1>6. /\ back \in Seq(STRING) /\ Len(back) = Len(b) - Len(m)
      /\ \A i \in 1 .. Len(b) - (Len(m) + 1) + 1 : back[i] = b[(Len(m) + 1) + i - 1]
  BY <1>1, <1>4, SubSeqProperties
<1> HIDE DEF front, back
<1>7. \A i \in 1 .. Len(m) : front[i] = m[i]
  <2> TAKE i \in 1 .. Len(m)
  <2>1. front[i] = b[i]
    BY <1>1, <1>5
  <2>2. (b \o w)[i] = b[i] /\ (m \o more)[i] = m[i]
    BY <1>1, ConcatProperties
  <2> QED BY <2>1, <2>2
<1>8. front = m
  BY <1>1, <1>5, <1>7, SeqEqual
<1>9. back \o w \in Seq(STRING) /\ Len(back \o w) = Len(more)
  <2>1. Len(b \o w) = Len(b) + Len(w) /\ Len(m \o more) = Len(m) + Len(more)
    BY ConcatProperties
  <2>2. back \o w \in Seq(STRING) /\ Len(back \o w) = Len(back) + Len(w)
    BY <1>6, ConcatProperties
  <2> QED BY <1>1, <1>6, <2>1, <2>2
<1>10. ASSUME NEW i \in 1 .. Len(more) PROVE (back \o w)[i] = more[i]
  <2>1. Len(b \o w) = Len(b) + Len(w) /\ Len(m \o more) = Len(m) + Len(more)
    BY ConcatProperties
  <2>2. Len(m) + i \in 1 .. Len(b) + Len(w) /\ Len(m) + i \in 1 .. Len(m) + Len(more)
    BY <1>1, <2>1
  <2>3. (m \o more)[Len(m) + i] = more[i]
    <3>1. (m \o more)[Len(m) + i] = more[(Len(m) + i) - Len(m)]
      BY <1>1, <2>2, ConcatProperties
    <3> QED BY <1>1, <3>1
  <2>4. CASE i <= Len(back)
    <3>1. (back \o w)[i] = back[i]
      BY <1>1, <1>6, <2>4, ConcatProperties
    <3>2. back[i] = b[Len(m) + i]
      <4>1. i \in 1 .. Len(b) - (Len(m) + 1) + 1 /\ (Len(m) + 1) + i - 1 = Len(m) + i
        BY <1>1, <1>6, <2>4
      <4> QED BY <1>6, <4>1
    <3>3. (b \o w)[Len(m) + i] = b[Len(m) + i]
      <4>1. Len(m) + i <= Len(b)
        BY <1>1, <1>6, <2>4
      <4> QED BY <2>2, <4>1, ConcatProperties
    <3> QED BY <2>3, <3>1, <3>2, <3>3
  <2>5. CASE ~ (i <= Len(back))
    <3>1. i \in 1 .. Len(back) + Len(w)
      BY <1>1, <1>6, <2>1
    <3>2. (back \o w)[i] = w[i - Len(back)]
      BY <1>6, <2>5, <3>1, ConcatProperties
    <3>3. (b \o w)[Len(m) + i] = w[(Len(m) + i) - Len(b)]
      <4>1. ~ (Len(m) + i <= Len(b))
        BY <1>1, <1>6, <2>5
      <4> QED BY <2>2, <4>1, ConcatProperties
    <3>4. (Len(m) + i) - Len(b) = i - Len(back)
      BY <1>1, <1>6
    <3> QED BY <2>3, <3>2, <3>3, <3>4
  <2> QED BY <2>4, <2>5
<1>11. back \o w = more
  <2>1. \A i \in 1 .. Len(back \o w) : (back \o w)[i] = more[i]
    BY <1>9, <1>10
  <2> QED BY <1>9, <2>1, SeqEqual
<1> QED BY <1>6, <1>8, <1>11 DEF front, back

(***************************************************************************)
(* on_data_read() cuts the messages out again, wherever the pieces end: of *)
(* units that are messages joined it takes a whole number, and keeps a     *)
(* remainder that together with what is still to come is the others.       *)
(***************************************************************************)
THEOREM CutsMessages ==
  ASSUME NEW w \in Seq(STRING)
  PROVE  \A msgs \in Seq(Messages), b \in Seq(STRING) :
           b \o w = Joined(msgs) => CutsWell(b, w, msgs)
<1> DEFINE T == {n \in Nat : \A msgs \in Seq(Messages), b \in Seq(STRING) :
                   Len(msgs) = n /\ b \o w = Joined(msgs) => CutsWell(b, w, msgs)}
<1>1. 0 \in T
  <2> SUFFICES ASSUME NEW msgs \in Seq(Messages), NEW b \in Seq(STRING), Len(msgs) = 0,
                      b \o w = Joined(msgs)
               PROVE  CutsWell(b, w, msgs)
    OBVIOUS
  <2>1. msgs = <<>>
    BY EmptySeq
  <2>2. b = <<>>
    BY <2>1, JoinedEmpty, ConcatEqualIffEmpty
  <2>3. Cut[b] = [messages |-> <<>>, remain |-> b]
    BY <2>2, NoMessageInNothing, CutEquation DEF Turn
  <2>4. msgs = msgs \o msgs
    BY <2>1, ConcatEmptySeq
  <2>5. Cut[b].messages = msgs /\ Cut[b].remain = b /\ MessageSize(b) = 0
    BY <2>1, <2>2, <2>3, NoMessageInNothing
  <2> QED BY <2>4, <2>5, CutsWellBy
<1>2. ASSUME NEW n \in Nat, n \in T PROVE n + 1 \in T
  <2> SUFFICES ASSUME NEW msgs \in Seq(Messages), NEW b \in Seq(STRING), Len(msgs) = n + 1,
                      b \o w = Joined(msgs)
               PROVE  CutsWell(b, w, msgs)
    OBVIOUS
  <2> DEFINE m == Head(msgs)
             more == Joined(Tail(msgs))
  <2>1. msgs # <<>>
    BY EmptySeq
  <2>2. /\ m \in Messages /\ m \in Seq(STRING) /\ Len(m) \in Nat \ {0}
        /\ Tail(msgs) \in Seq(Messages) /\ Len(Tail(msgs)) = n
        /\ more \in Seq(STRING) /\ b \o w = m \o more
        /\ MessageSize(b) = IF Len(m) <= Len(b) THEN Len(m) ELSE 0
    <3>1. Len(Tail(msgs)) = n
      BY <2>1, HeadTailProperties
    <3> QED BY <2>1, <3>1, FirstMessage
  <2>3. CASE ~ (Len(m) <= Len(b))
    <3>1. MessageSize(b) = 0
      BY <2>2, <2>3
    <3>2. Cut[b] = [messages |-> <<>>, remain |-> b]
      BY <3>1, CutEquation DEF Turn
    <3>3. <<>> \in Seq(Messages) /\ msgs = <<>> \o msgs
      BY EmptySeq, ConcatEmptySeq
    <3>4. Cut[b].messages = <<>> /\ Cut[b].remain = b
      BY <3>2
    <3> QED BY <3>1, <3>3, <3>4, CutsWellBy
  <2>4. CASE Len(m) <= Len(b)
    <3> DEFINE back == SubSeq(b, Len(m) + 1, Len(b))
    <3>1. SubSeq(b, 1, Len(m)) = m /\ back \in Seq(STRING) /\ back \o w = more
      <4> HIDE DEF m, more
      <4>1. m \in Seq(STRING) /\ more \in Seq(STRING) /\ Then(b, w) = Then(m, more)
        BY <2>2 DEF Then
      <4>2. /\ SubSeq(b, 1, Len(m)) = m
            /\ SubSeq(b, Len(m) + 1, Len(b)) \in Seq(STRING)
            /\ Then(SubSeq(b, Len(m) + 1, Len(b)), w) = more
        BY <2>4, <4>1, ConcatFront
      <4> QED BY <4>2 DEF Then
    <3>2. Cut[b] = [messages |-> <<m>> \o Cut[back].messages, remain |-> Cut[back].remain]
      BY <2>2, <2>4, <3>1, CutEquation DEF Turn
    <3>3. CutsWell(back, w, Tail(msgs))
      BY <1>2, <2>2, <3>1
    <3> HIDE DEF back
    <3>4. PICK done \in Seq(Messages), rest \in Seq(Messages) :
            /\ Tail(msgs) = done \o rest
            /\ Cut[back].messages = done
            /\ Cut[back].remain \in Seq(STRING)
            /\ MessageSize(Cut[back].remain) = 0
            /\ Cut[back].remain \o w = Joined(rest)
      BY <3>3 DEF CutsWell
    <3> HIDE DEF m
    <3>5. <<m>> \in Seq(Messages)
      BY <2>2
    <3>6. msgs = <<m>> \o Tail(msgs)
      BY <2>1 DEF m
    <3>7. /\ <<m>> \o (done \o rest) = (<<m>> \o done) \o rest
          /\ <<m>> \o done \in Seq(Messages)
      <4> DEFINE first == <<m>>
      <4>1. first \in Seq(Messages) /\ done \in Seq(Messages) /\ rest \in Seq(Messages)
        BY <3>5
      <4> HIDE DEF first
      <4>2. Then(Then(first, done), rest) = Then(first, Then(done, rest))
        BY <4>1, ThenAssociative
      <4>3. first \o done \in Seq(Messages)
        BY <4>1, ConcatProperties
      <4> QED BY <4>2, <4>3 DEF first, Then
    <3>8. msgs = (<<m>> \o done) \o rest
      BY <3>4, <3>6, <3>7
    <3>9. Cut[b].messages = <<m>> \o done /\ Cut[b].remain = Cut[back].remain
      BY <3>2, <3>4
    <3> QED BY <3>4, <3>7, <3>8, <3>9, CutsWellBy
  <2> QED BY <2>3, <2>4
<1> HIDE DEF T
<1>3. \A n \in Nat : n \in T
  BY <1>1, <1>2, NatSetInduction
<1> QED BY <1>3, LenProperties DEF T

-----------------------------------------------------------------------------
(***************************************************************************)
(* The connection: what was heard and what is on its way are what was      *)
(* sent.                                                                   *)
(***************************************************************************)

\* What is yet to be heard is in the buffer and on the wire while the endpoint reads.
YetToBeHeard(rest) ==
  /\ sent = heard \o rest
  /\ asock = "connected" => MessageSize(buf) = 0 /\ Then(buf, wire) = Joined(rest)

TcpInv ==
  /\ asock \in {"none", "listening", "connecting", "connected", "deaf"}
  /\ wire \in Seq(STRING) /\ buf \in Seq(STRING)
  /\ sent \in Seq(Messages) /\ heard \in Seq(Messages)
  /\ asock \in {"none", "listening", "connecting"} => NoData
  /\ \E rest \in Seq(Messages) : YetToBeHeard(rest)

\* All that the call does to its connection.
TcpMoves == Listen \/ StartTcpMedia \/ CloseSocket \/ TcpStep \/ UNCHANGED tcp

LEMMA NothingYet ==
  ASSUME NoData, asock \in {"none", "listening", "connecting", "connected", "deaf"}
  PROVE  TcpInv
<1>1. <<>> \in Seq(STRING) /\ <<>> \in Seq(Messages)
  BY EmptySeq
<1>2. <<>> \o <<>> = <<>>
  BY <1>1, ConcatEmptySeq
<1>3. YetToBeHeard(<<>>)
  BY <1>2, NoMessageInNothing, JoinedEmpty DEF YetToBeHeard, NoData, Then
<1> QED BY <1>1, <1>3 DEF TcpInv, NoData

LEMMA ForgottenIsNothingYet ==
  ASSUME Forgotten, asock' \in {"none", "listening", "connecting"}
  PROVE  TcpInv'
<1>1. <<>> \in Seq(STRING) /\ <<>> \in Seq(Messages)
  BY EmptySeq
<1>2. <<>> \o <<>> = <<>>
  BY <1>1, ConcatEmptySeq
<1>3. YetToBeHeard(<<>>)'
  BY <1>2, NoMessageInNothing, JoinedEmpty DEF YetToBeHeard, Forgotten, Then
<1> QED BY <1>1, <1>3 DEF TcpInv, NoData, Forgotten

LEMMA PeerSendsStep == ASSUME TcpInv, PeerSends PROVE TcpInv'
<1>1. PICK rest \in Seq(Messages) : YetToBeHeard(rest)
  BY DEF TcpInv
<1>2. PICK m \in Messages : wire' = wire \o m /\ sent' = Append(sent, m)
  BY DEF PeerSends
<1>3. asock' = "connected" /\ asock = "connected" /\ buf' = buf /\ heard' = heard
  BY DEF PeerSends
<1>4. /\ m \in Seq(STRING) /\ wire \in Seq(STRING) /\ buf \in Seq(STRING)
      /\ sent \in Seq(Messages) /\ heard \in Seq(Messages)
  BY MessageAssumption DEF TcpInv
<1>5. wire' \in Seq(STRING) /\ sent' \in Seq(Messages) /\ Append(rest, m) \in Seq(Messages)
  BY <1>2, <1>4, ConcatProperties, AppendProperties
<1>6. sent' = heard \o Append(rest, m)
  <2> DEFINE last == <<m>>
  <2>1. heard \in Seq(Messages) /\ rest \in Seq(Messages) /\ last \in Seq(Messages)
    BY <1>4
  <2>2. Append(sent, m) = sent \o last /\ Append(rest, m) = rest \o last
    BY <1>4, AppendIsConcat
  <2> HIDE DEF last
  <2>3. Then(Then(heard, rest), last) = Then(heard, Then(rest, last))
    BY <2>1, ThenAssociative
  <2>4. (heard \o rest) \o last = heard \o (rest \o last)
    BY <2>3 DEF Then
  <2> QED BY <1>1, <1>2, <2>2, <2>4 DEF YetToBeHeard
<1>7. Then(buf, wire') = Joined(Append(rest, m))
  <2>1. Then(buf, wire) = Joined(rest)
    BY <1>1, <1>3 DEF YetToBeHeard
  <2>2. Joined(Append(rest, m)) = Then(Joined(rest), m)
    <3>1. rest \in Seq(Seq(STRING))
      BY MessagesAreUnits
    <3> QED BY <1>4, <3>1, JoinedAppend DEF Then
  <2>3. Then(Then(buf, wire), m) = Then(buf, Then(wire, m))
    BY <1>4, ThenAssociative
  <2> QED BY <1>2, <2>1, <2>2, <2>3 DEF Then
<1>8. MessageSize(buf) = 0
  BY <1>1, <1>3 DEF YetToBeHeard
<1>9. YetToBeHeard(Append(rest, m))'
  BY <1>3, <1>6, <1>7, <1>8 DEF YetToBeHeard
<1> QED BY <1>3, <1>4, <1>5, <1>9 DEF TcpInv

LEMMA SplitWire ==
  ASSUME NEW w \in Seq(STRING), NEW n \in 1 .. Len(w)
  PROVE  /\ SubSeq(w, 1, n) \in Seq(STRING)
         /\ SubSeq(w, n + 1, Len(w)) \in Seq(STRING)
         /\ Then(SubSeq(w, 1, n), SubSeq(w, n + 1, Len(w))) = w
<1>1. Len(w) \in Nat /\ n \in 1 - 1 .. Len(w) /\ Len(w) \in n .. Len(w) /\ 1 \in 1 .. Len(w) + 1
  BY LenProperties
<1>2. SubSeq(w, 1, n) \o SubSeq(w, n + 1, Len(w)) = SubSeq(w, 1, Len(w))
  BY <1>1, ConcatAdjacentSubSeq
<1>3. SubSeq(w, 1, Len(w)) = w
  BY SubSeqFull
<1>4. \A i \in 1 .. Len(w) : w[i] \in STRING
  BY ElementOfSeq
<1>5. (\A i \in 1 .. n : w[i] \in STRING) /\ (\A i \in n + 1 .. Len(w) : w[i] \in STRING)
  BY <1>1, <1>4
<1>6. SubSeq(w, 1, n) \in Seq(STRING) /\ SubSeq(w, n + 1, Len(w)) \in Seq(STRING)
  BY <1>1, <1>5, SubSeqProperties
<1> QED BY <1>2, <1>3, <1>6 DEF Then

LEMMA DataReadStep ==
  ASSUME TcpInv, NEW n \in 1 .. Len(wire), OnDataRead(n)
  PROVE  TcpInv'
<1> DEFINE piece == SubSeq(wire, 1, n)
           behind == SubSeq(wire, n + 1, Len(wire))
           b == Then(buf, piece)
<1>1. PICK rest \in Seq(Messages) : YetToBeHeard(rest)
  BY DEF TcpInv
<1>2. asock = "connected" /\ wire' = behind /\ sent' = sent
  BY DEF OnDataRead
<1>3. /\ wire \in Seq(STRING) /\ buf \in Seq(STRING)
      /\ sent \in Seq(Messages) /\ heard \in Seq(Messages)
  BY DEF TcpInv
<1>4. piece \in Seq(STRING) /\ behind \in Seq(STRING) /\ Then(piece, behind) = wire
  BY <1>3, SplitWire
<1>5. \/ asock' = "deaf" /\ buf' = buf /\ heard' = heard
      \/ /\ asock' = "connected" /\ heard' = heard \o Cut[b].messages
         /\ buf' = Cut[b].remain
  BY <1>2 DEF OnDataRead, Then
<1> HIDE DEF piece, behind
<1>6. CASE asock' = "deaf" /\ buf' = buf /\ heard' = heard
  <2>1. YetToBeHeard(rest)'
    BY <1>1, <1>2, <1>6 DEF YetToBeHeard
  <2> QED BY <1>2, <1>3, <1>4, <1>6, <2>1 DEF TcpInv
<1>7. CASE /\ asock' = "connected" /\ heard' = heard \o Cut[b].messages
           /\ buf' = Cut[b].remain
  <2>1. b \in Seq(STRING)
    BY <1>3, <1>4, ConcatProperties DEF Then
  <2>2. Then(b, behind) = Joined(rest)
    <3>1. Then(b, behind) = Then(buf, Then(piece, behind))
      BY <1>3, <1>4, ThenAssociative
    <3> QED BY <1>1, <1>2, <1>4, <3>1 DEF YetToBeHeard
  <2> HIDE DEF b
  <2>3. CutsWell(b, behind, rest)
    <3>1. b \o behind = Joined(rest)
      BY <2>2 DEF Then
    <3> QED BY <1>4, <2>1, <3>1, CutsMessages
  <2>4. PICK done \in Seq(Messages), later \in Seq(Messages) :
          /\ rest = done \o later
          /\ Cut[b].messages = done
          /\ Cut[b].remain \in Seq(STRING)
          /\ MessageSize(Cut[b].remain) = 0
          /\ Cut[b].remain \o behind = Joined(later)
    BY <2>3 DEF CutsWell
  <2>5. heard' = heard \o done /\ heard' \in Seq(Messages)
    BY <1>3, <1>7, <2>4, ConcatProperties
  <2>6. sent' = heard' \o later
    <3>1. (heard \o done) \o later = heard \o (done \o later)
      <4>1. heard \in Seq(Messages) /\ done \in Seq(Messages) /\ later \in Seq(Messages)
        BY <1>3
      <4>2. Then(Then(heard, done), later) = Then(heard, Then(done, later))
        BY <4>1, ThenAssociative
      <4> QED BY <4>2 DEF Then
    <3> QED BY <1>1, <1>2, <2>4, <2>5, <3>1 DEF YetToBeHeard
  <2>7. Then(buf', wire') = Joined(later) /\ MessageSize(buf') = 0 /\ buf' \in Seq(STRING)
    BY <1>2, <1>7, <2>4 DEF Then
  <2>8. YetToBeHeard(later)'
    BY <2>6, <2>7 DEF YetToBeHeard
  <2> QED BY <1>2, <1>3, <1>4, <1>7, <2>5, <2>7, <2>8 DEF TcpInv
<1> QED BY <1>5, <1>6, <1>7

LEMMA TcpInvStep == ASSUME TcpInv, TcpMoves PROVE TcpInv'
<1>1. CASE Listen
  BY <1>1, ForgottenIsNothingYet DEF Listen
<1>2. CASE CloseSocket
  BY <1>2, ForgottenIsNothingYet DEF CloseSocket
<1>3. CASE UNCHANGED tcp
  BY <1>3 DEF TcpInv, YetToBeHeard, NoData, tcp
<1>4. CASE StartTcpMedia
  BY <1>3, <1>4, ForgottenIsNothingYet DEF StartTcpMedia
<1>5. CASE OnAcceptComplete \/ OnConnectComplete
  <2>1. NoData' /\ asock' \in {"connected", "deaf"}
    BY <1>5 DEF OnAcceptComplete, OnConnectComplete, TcpInv, NoData, data
  <2>2. <<>> \in Seq(STRING) /\ <<>> \in Seq(Messages)
    BY EmptySeq
  <2>3. <<>> \o <<>> = <<>>
    BY <2>2, ConcatEmptySeq
  <2>4. YetToBeHeard(<<>>)'
    BY <2>1, <2>3, NoMessageInNothing, JoinedEmpty DEF YetToBeHeard, NoData, Then
  <2> QED BY <2>1, <2>2, <2>4 DEF TcpInv, NoData
<1>6. CASE OnEndOfData
  BY <1>6 DEF OnEndOfData, TcpInv, YetToBeHeard, NoData, data
<1>7. CASE TcpStep
  BY <1>5, <1>6, <1>7, PeerSendsStep, DataReadStep DEF TcpStep
<1> QED BY <1>1, <1>2, <1>3, <1>4, <1>7 DEF TcpMoves

LEMMA TcpInvMeans == ASSUME TcpInv PROVE MessagesWhole
<1>1. PICK rest \in Seq(Messages) : YetToBeHeard(rest)
  BY DEF TcpInv
<1>2. sent \in Seq(Messages) /\ heard \in Seq(Messages) /\ buf \in Seq(STRING)
  BY DEF TcpInv
<1>3. IsPrefix(heard, sent)
  <2>1. Len(sent) = Len(heard) + Len(rest) /\ Len(heard) \in Nat /\ Len(rest) \in Nat
    BY <1>1, <1>2, ConcatProperties, LenProperties DEF YetToBeHeard
  <2>2. \A i \in 1 .. Len(heard) : sent[i] = heard[i] /\ heard[i] \in Messages
    BY <1>1, <1>2, <2>1, ConcatProperties, ElementOfSeq DEF YetToBeHeard
  <2>3. \A i \in 1 .. Len(heard) : sent[i] \in Messages
    BY <2>2
  <2>4. /\ SubSeq(sent, 1, Len(heard)) \in Seq(Messages)
        /\ Len(SubSeq(sent, 1, Len(heard))) = Len(heard)
        /\ \A i \in 1 .. Len(heard) - 1 + 1 : SubSeq(sent, 1, Len(heard))[i] = sent[1 + i - 1]
    BY <2>1, <2>3, SubSeqProperties
  <2>5. \A i \in 1 .. Len(heard) : SubSeq(sent, 1, Len(heard))[i] = heard[i]
    BY <2>1, <2>2, <2>4
  <2>6. SubSeq(sent, 1, Len(heard)) = heard
    BY <1>2, <2>4, <2>5, SeqEqual
  <2>7. SubSeq(heard, 1, Len(heard)) = heard
    BY <1>2, SubSeqFull
  <2> QED BY <2>1, <2>6, <2>7 DEF IsPrefix
<1>4. ASSUME asock = "connected", wire = <<>> PROVE heard = sent /\ buf = <<>>
  <2>1. buf \o <<>> = Joined(rest) /\ MessageSize(buf) = 0
    BY <1>1, <1>4 DEF YetToBeHeard, Then
  <2>2. ASSUME rest # <<>> PROVE FALSE
    <3>1. <<>> \in Seq(STRING)
      BY EmptySeq
    <3>2. /\ Head(rest) \in Seq(STRING) /\ Len(Head(rest)) \in Nat \ {0}
          /\ Joined(Tail(rest)) \in Seq(STRING)
          /\ buf \o <<>> = Head(rest) \o Joined(Tail(rest))
          /\ MessageSize(buf) = IF Len(Head(rest)) <= Len(buf) THEN Len(Head(rest)) ELSE 0
      BY <1>2, <2>1, <2>2, <3>1, FirstMessage
    <3>3. Len(buf) = Len(Head(rest)) + Len(Joined(Tail(rest)))
      <4>1. buf \o <<>> = buf
        BY <1>2, ConcatEmptySeq
      <4>2. Len(Head(rest) \o Joined(Tail(rest))) = Len(Head(rest)) + Len(Joined(Tail(rest)))
        BY <3>2, ConcatProperties
      <4> QED BY <3>2, <4>1, <4>2
    <3>4. Len(Joined(Tail(rest))) \in Nat
      BY <3>2, LenProperties
    <3>5. Len(Head(rest)) <= Len(buf)
      BY <3>2, <3>3, <3>4
    <3> QED BY <2>1, <3>2, <3>5
  <2>3. rest = <<>>
    BY <2>2
  <2>4. buf = <<>>
    BY <1>2, <2>1, <2>3, JoinedEmpty, ConcatEmptySeq
  <2>5. heard \o <<>> = heard
    BY <1>2, ConcatEmptySeq
  <2> QED BY <1>1, <2>3, <2>4, <2>5 DEF YetToBeHeard
<1> QED BY <1>3, <1>4 DEF MessagesWhole

-----------------------------------------------------------------------------
(***************************************************************************)
(* Counting: how many elements of a set of places there are up to a place. *)
(***************************************************************************)
Places(S) == \A p \in S : p \in Nat \ {0}

LEMMA UpToFinite ==
  ASSUME NEW S, Places(S), NEW i \in Nat
  PROVE  IsFiniteSet({j \in S : j <= i}) /\ UpTo(S, i) \in Nat
<1>1. IsFiniteSet({j \in S : j <= i})
  <2>1. {j \in S : j <= i} \in SUBSET Nat /\ \A j \in {j \in S : j <= i} : j <= i
    BY DEF Places
  <2> QED BY <2>1, FS_BoundedSetOfNaturals
<1> QED BY <1>1, FS_CardinalityType DEF UpTo

LEMMA UpToNext ==
  ASSUME NEW S, Places(S), NEW i \in Nat
  PROVE  UpTo(S, i + 1) = IF i + 1 \in S THEN UpTo(S, i) + 1 ELSE UpTo(S, i)
<1> DEFINE T == {j \in S : j <= i}
           U == {j \in S : j <= i + 1}
<1>1. IsFiniteSet(T)
  BY UpToFinite
<1>2. CASE i + 1 \in S
  <2>1. U = T \cup {i + 1} /\ i + 1 \notin T
    BY <1>2 DEF Places
  <2> HIDE DEF T, U
  <2>2. Cardinality(U) = Cardinality(T) + 1
    BY <1>1, <2>1, FS_AddElement
  <2> QED BY <1>2, <2>2 DEF T, U, UpTo
<1>3. CASE i + 1 \notin S
  <2>1. U = T
    BY <1>3 DEF Places
  <2> QED BY <1>3, <2>1 DEF UpTo
<1> QED BY <1>2, <1>3

LEMMA UpToZero ==
  ASSUME NEW S, Places(S)
  PROVE  UpTo(S, 0) = 0
<1>1. {j \in S : j <= 0} = {}
  BY DEF Places
<1> QED BY <1>1, FS_EmptySet DEF UpTo

LEMMA UpToGrows ==
  ASSUME NEW S, Places(S), NEW i \in Nat, NEW j \in Nat, i <= j
  PROVE  UpTo(S, i) <= UpTo(S, j)
<1>1. {k \in S : k <= i} \in SUBSET {k \in S : k <= j}
  <2>1. \A k \in S : k <= i => k <= j
    BY DEF Places
  <2> QED BY <2>1
<1>2. IsFiniteSet({k \in S : k <= j})
  BY UpToFinite
<1> QED BY <1>1, <1>2, FS_Subset DEF UpTo

LEMMA UpToIncreases ==
  ASSUME NEW S, Places(S), NEW i \in Nat, NEW j \in S, i < j
  PROVE  UpTo(S, i) < UpTo(S, j)
<1>1. j \in Nat \ {0} /\ j - 1 \in Nat /\ i <= j - 1 /\ (j - 1) + 1 = j
  BY DEF Places
<1>2. UpTo(S, j) = UpTo(S, j - 1) + 1
  <2>1. UpTo(S, (j - 1) + 1) = UpTo(S, j - 1) + 1
    BY <1>1, UpToNext
  <2> QED BY <1>1, <2>1
<1>3. UpTo(S, i) <= UpTo(S, j - 1) /\ UpTo(S, i) \in Nat /\ UpTo(S, j - 1) \in Nat
  BY <1>1, UpToGrows, UpToFinite
<1> QED BY <1>2, <1>3

LEMMA UpToPositive ==
  ASSUME NEW S, Places(S), NEW j \in S
  PROVE  UpTo(S, j) \in Nat \ {0}
<1>1. j \in Nat /\ 0 < j /\ 0 \in Nat
  BY DEF Places
<1>2. UpTo(S, 0) < UpTo(S, j) /\ UpTo(S, j) \in Nat
  BY <1>1, UpToIncreases, UpToFinite
<1> QED BY <1>2, UpToZero

LEMMA UpToInjective ==
  ASSUME NEW S, Places(S), NEW i \in S, NEW j \in S, UpTo(S, i) = UpTo(S, j)
  PROVE  i = j
<1>1. i \in Nat /\ j \in Nat
  BY DEF Places
<1>2. UpTo(S, i) \in Nat /\ UpTo(S, j) \in Nat
  BY <1>1, UpToFinite
<1>3. i < j => UpTo(S, i) < UpTo(S, j)
  BY <1>1, UpToIncreases
<1>4. j < i => UpTo(S, j) < UpTo(S, i)
  BY <1>1, UpToIncreases
<1> QED BY <1>1, <1>2, <1>3, <1>4

\* The counts leave no number out.
LEMMA UpToTakesAll ==
  ASSUME NEW S, Places(S)
  PROVE  \A n \in Nat : \A v \in 1 .. UpTo(S, n) : \E j \in S : j <= n /\ UpTo(S, j) = v
<1> DEFINE T == {n \in Nat : \A v \in 1 .. UpTo(S, n) : \E j \in S : j <= n /\ UpTo(S, j) = v}
<1>1. 0 \in T
  BY UpToZero
<1>2. ASSUME NEW n \in Nat, n \in T PROVE n + 1 \in T
  <2> SUFFICES ASSUME NEW v \in 1 .. UpTo(S, n + 1)
               PROVE  \E j \in S : j <= n + 1 /\ UpTo(S, j) = v
    OBVIOUS
  <2>1. UpTo(S, n) \in Nat /\ UpTo(S, n + 1) \in Nat
    <3>1. n + 1 \in Nat
      OBVIOUS
    <3> QED BY <3>1, UpToFinite
  <2>2. CASE v <= UpTo(S, n)
    <3>1. PICK j \in S : j <= n /\ UpTo(S, j) = v
      BY <1>2, <2>1, <2>2
    <3>2. j <= n + 1
      <4>1. j \in Nat
        BY DEF Places
      <4> QED BY <3>1, <4>1
    <3> QED BY <3>1, <3>2
  <2>3. CASE ~ (v <= UpTo(S, n))
    <3>1. UpTo(S, n + 1) = IF n + 1 \in S THEN UpTo(S, n) + 1 ELSE UpTo(S, n)
      BY UpToNext
    <3>2. n + 1 \in S /\ UpTo(S, n + 1) = v
      BY <2>1, <2>3, <3>1
    <3>3. n + 1 <= n + 1
      OBVIOUS
    <3> QED BY <3>2, <3>3
  <2> QED BY <2>2, <2>3
<1> HIDE DEF T
<1>3. \A n \in Nat : n \in T
  BY <1>1, <1>2, NatSetInduction
<1> QED BY <1>3 DEF T

LEMMA NthIs ==
  ASSUME NEW S, Places(S), NEW j \in S
  PROVE  Nth(S, UpTo(S, j)) = j
<1>1. \A i \in S : UpTo(S, i) = UpTo(S, j) => i = j
  BY UpToInjective
<1> QED BY <1>1 DEF Nth

LEMMA NthOf ==
  ASSUME NEW S, Places(S), NEW n \in Nat, NEW v \in 1 .. UpTo(S, n)
  PROVE  Nth(S, v) \in S /\ Nth(S, v) <= n /\ UpTo(S, Nth(S, v)) = v
<1>1. PICK j \in S : j <= n /\ UpTo(S, j) = v
  BY UpToTakesAll
<1>2. Nth(S, v) = j
  BY <1>1, NthIs
<1> QED BY <1>1, <1>2

LEMMA UpToSame ==
  ASSUME NEW S, NEW T, NEW n, \A j \in S \cup T : j <= n => (j \in S <=> j \in T)
  PROVE  UpTo(S, n) = UpTo(T, n)
<1>1. {j \in S : j <= n} = {j \in T : j <= n}
  OBVIOUS
<1> QED BY <1>1 DEF UpTo

\* All of S is up to n.
LEMMA UpToWhole ==
  ASSUME NEW n \in Nat, NEW S, S \subseteq 1 .. n
  PROVE  UpTo(S, n) = Cardinality(S)
<1>1. \A j \in S : j <= n
  OBVIOUS
<1>2. {j \in S : j <= n} = S
  BY <1>1
<1> QED BY <1>2 DEF UpTo

LEMMA UpToInterval ==
  ASSUME NEW m \in Nat, NEW n \in Nat, NEW j \in m + 1 .. n
  PROVE  UpTo(m + 1 .. n, j) = j - m
<1>1. {k \in m + 1 .. n : k <= j} = m + 1 .. j
  OBVIOUS
<1>2. Cardinality(m + 1 .. j) = j - (m + 1) + 1
  <2>1. m + 1 \in Int /\ j \in Int /\ ~ (m + 1 > j)
    OBVIOUS
  <2> QED BY <2>1, FS_Interval
<1>3. UpTo(m + 1 .. n, j) = Cardinality({k \in m + 1 .. n : k <= j})
  BY DEF UpTo
<1>4. j - (m + 1) + 1 = j - m
  OBVIOUS
<1> QED BY <1>1, <1>2, <1>3, <1>4

(***************************************************************************)
(* Lines and their partners, of two sequences that are known by their      *)
(* types.                                                                  *)
(***************************************************************************)
\* lines is a sequence of n things.
Numbered(given, n) == n \in Nat /\ DOMAIN given = 1 .. n

LEMMA OfTypePlaces ==
  ASSUME NEW given, NEW n, Numbered(given, n), NEW type
  PROVE  Places(OfType(given, type)) /\ OfType(given, type) \subseteq 1 .. n
BY DEF OfType, Numbered, Places

LEMMA PartnersSymmetric ==
  ASSUME NEW a, NEW b, NEW i \in DOMAIN a, NEW j \in DOMAIN b
  PROVE  j \in Partners(a, i, b) <=> i \in Partners(b, j, a)
BY DEF Partners

LEMMA PartnerUnique ==
  ASSUME NEW a, NEW b, NEW m, NEW n, Numbered(a, m), Numbered(b, n), NEW i \in 1 .. m,
         NEW j \in Partners(a, i, b), NEW k \in Partners(a, i, b)
  PROVE  j = k
<1> DEFINE S == OfType(b, a[i].type)
<1>1. /\ j \in DOMAIN b /\ b[j].type = a[i].type /\ Rank(b, j) = Rank(a, i)
      /\ k \in DOMAIN b /\ b[k].type = a[i].type /\ Rank(b, k) = Rank(a, i)
  BY DEF Partners
<1>2. j \in S /\ k \in S
  BY <1>1 DEF OfType
<1>3. UpTo(S, j) = UpTo(S, k)
  BY <1>1 DEF Rank
<1>4. Places(S)
  BY OfTypePlaces
<1> HIDE DEF S
<1> QED BY <1>2, <1>3, <1>4, UpToInjective

\* What is known of a sequence by its types.
Alike(a, b) == DOMAIN a = DOMAIN b /\ \A i \in DOMAIN a : a[i].type = b[i].type

LEMMA AlikeRank ==
  ASSUME NEW a, NEW b, Alike(a, b), NEW i \in DOMAIN a
  PROVE  Rank(a, i) = Rank(b, i)
<1>1. \A type : OfType(a, type) = OfType(b, type)
  BY DEF OfType, Alike
<1> QED BY <1>1 DEF Rank, Alike

LEMMA AlikePartners ==
  ASSUME NEW a, NEW b, NEW c, Alike(b, c), NEW i \in DOMAIN a
  PROVE  Partners(a, i, b) = Partners(a, i, c)
<1>1. \A j \in DOMAIN b : Rank(b, j) = Rank(c, j)
  BY AlikeRank
<1> QED BY <1>1 DEF Partners, Alike

LEMMA AlikeAdded ==
  ASSUME NEW a, NEW b, NEW c, Alike(b, c)
  PROVE  Added(a, b) = Added(a, c)
<1>1. \A j \in DOMAIN b : Rank(b, j) = Rank(c, j) /\ b[j].type = c[j].type /\ j \in DOMAIN c
  BY AlikeRank DEF Alike
<1>2. \A j \in DOMAIN b : Partners(b, j, a) = Partners(c, j, a)
  BY <1>1 DEF Partners
<1> QED BY <1>2 DEF Added, Alike

\* b begins with lines of the types of a.
Begins(a, b, m, n) == /\ Numbered(a, m) /\ Numbered(b, n) /\ m <= n
                      /\ \A i \in 1 .. m : a[i].type = b[i].type

LEMMA BeginsRank ==
  ASSUME NEW a, NEW b, NEW m, NEW n, Begins(a, b, m, n), NEW i \in 1 .. m
  PROVE  Rank(a, i) = Rank(b, i)
<1> DEFINE S == OfType(a, a[i].type)
           T == OfType(b, a[i].type)
<1>1. \A j \in S \cup T : j <= i => (j \in S <=> j \in T)
  BY DEF OfType, Begins, Numbered
<1> HIDE DEF S, T
<1>2. UpTo(S, i) = UpTo(T, i)
  BY <1>1, UpToSame
<1> QED BY <1>2 DEF S, T, Rank, Begins

LEMMA BeginsPartners ==
  ASSUME NEW a, NEW b, NEW m, NEW n, Begins(a, b, m, n), NEW i \in 1 .. m
  PROVE  Partners(a, i, b) = {i}
<1>1. i \in Partners(a, i, b)
  <2>1. i \in DOMAIN b /\ b[i].type = a[i].type
    BY DEF Begins, Numbered
  <2>2. Rank(b, i) = Rank(a, i)
    BY BeginsRank
  <2> QED BY <2>1, <2>2 DEF Partners
<1>2. \A j \in Partners(a, i, b) : j = i
  BY <1>1, PartnerUnique DEF Begins
<1> QED BY <1>1, <1>2

LEMMA BeginsAdded ==
  ASSUME NEW a, NEW b, NEW m, NEW n, Begins(a, b, m, n)
  PROVE  Added(a, b) = m + 1 .. n
<1>1. m \in Nat /\ n \in Nat /\ DOMAIN a = 1 .. m /\ DOMAIN b = 1 .. n /\ m <= n
  BY DEF Begins, Numbered
<1>2. ASSUME NEW j \in 1 .. m PROVE Partners(b, j, a) # {}
  <2>1. j \in Partners(a, j, b) /\ j \in DOMAIN a /\ j \in DOMAIN b
    BY <1>1, BeginsPartners
  <2>2. j \in Partners(b, j, a)
    BY <2>1, PartnersSymmetric
  <2> QED BY <2>2
<1>3. ASSUME NEW j \in m + 1 .. n PROVE Partners(b, j, a) = {}
  <2> SUFFICES ASSUME NEW i \in Partners(b, j, a) PROVE FALSE
    OBVIOUS
  <2>1. i \in 1 .. m /\ a[i].type = b[j].type /\ Rank(a, i) = Rank(b, j)
    BY <1>1 DEF Partners
  <2>2. Rank(b, i) = Rank(b, j) /\ b[i].type = b[j].type
    BY <2>1, BeginsRank DEF Begins
  <2> DEFINE S == OfType(b, b[j].type)
  <2>3. i \in S /\ j \in S /\ Places(S)
    <3>1. Places(S)
      BY OfTypePlaces DEF Begins
    <3> QED BY <1>1, <2>1, <2>2, <3>1 DEF OfType
  <2>4. UpTo(S, i) = UpTo(S, j)
    BY <2>2 DEF Rank
  <2> HIDE DEF S
  <2>5. i = j
    BY <2>3, <2>4, UpToInjective
  <2> QED BY <1>1, <2>1, <2>5
<1>4. \A j \in 1 .. n : j \in 1 .. m \/ j \in m + 1 .. n
  BY <1>1
<1>5. m + 1 .. n \subseteq 1 .. n /\ \A j \in m + 1 .. n : j \notin 1 .. m
  BY <1>1
<1> QED BY <1>1, <1>2, <1>3, <1>4, <1>5 DEF Added

\* Lines whose types are those of the session in front are left where they are.
LEMMA BeginsReordered ==
  ASSUME NEW a, NEW b, NEW m, NEW n, Begins(a, b, m, n), Len(a) = m
  PROVE  Reordered(a, b) = [i \in 1 .. n |-> b[i]]
<1>1. m \in Nat /\ n \in Nat /\ m <= n
  BY DEF Begins, Numbered
<1>2. Added(a, b) = m + 1 .. n
  BY BeginsAdded
<1>3. m + Cardinality(m + 1 .. n) = n
  <2>1. m + 1 \in Int /\ n \in Int
    BY <1>1
  <2>2. Cardinality(m + 1 .. n) = IF m + 1 > n THEN 0 ELSE n - (m + 1) + 1
    BY <2>1, FS_Interval
  <2> QED BY <1>1, <2>2
<1>4. ASSUME NEW i \in 1 .. m PROVE Partner(a, i, b) = b[i]
  <2>1. Partners(a, i, b) = {i}
    BY BeginsPartners
  <2>2. (CHOOSE j \in Partners(a, i, b) : TRUE) = i /\ Partners(a, i, b) # {}
    BY <2>1
  <2> QED BY <2>2 DEF Partner
<1>5. ASSUME NEW i \in m + 1 .. n PROVE b[Nth(m + 1 .. n, i - m)] = b[i]
  <2>1. Places(m + 1 .. n) /\ UpTo(m + 1 .. n, i) = i - m
    BY <1>1, UpToInterval DEF Places
  <2>2. Nth(m + 1 .. n, i - m) = i
    BY <2>1, NthIs
  <2> QED BY <2>2
<1>6. Reordered(a, b)
        = [i \in 1 .. n |-> IF i <= m THEN Partner(a, i, b) ELSE b[Nth(m + 1 .. n, i - m)]]
  BY <1>2, <1>3 DEF Reordered
<1>7. \A i \in 1 .. n : (IF i <= m THEN Partner(a, i, b) ELSE b[Nth(m + 1 .. n, i - m)]) = b[i]
  <2> TAKE i \in 1 .. n
  <2>1. CASE i <= m
    BY <1>1, <1>4, <2>1
  <2>2. CASE ~ (i <= m)
    BY <1>1, <1>5, <2>2
  <2> QED BY <2>1, <2>2
<1> QED BY <1>6, <1>7

-----------------------------------------------------------------------------
(***************************************************************************)
(* process_media(): the records it works on, and what an item does.        *)
(***************************************************************************)

Kinds == {"audio", "mrcp"}
EndpointRecord == [type : Kinds, on : BOOLEAN, open : BOOLEAN]
LineRecord == [type : Kinds, port : Nat]
ItemRecord == [type : Kinds, off : BOOLEAN]

\* The call as process_media() works on it.
CallRecord == [eps : Seq(EndpointRecord), media : [Slots -> Nat], count : Nat,
               used : SUBSET (Nat \ {0}), sdp : Seq(LineRecord), lost : SUBSET (lost \cup Nat),
               socket : {"kept", "listening", "closed"}, failed : BOOLEAN, ended : BOOLEAN]

\* Each place that is counted holds an endpoint of its own.
SlotsHold(c) ==
  /\ c.count <= Len(c.eps) /\ Len(c.eps) <= MaxEndpoints
  /\ \A i \in 1 .. c.count : c.media[i] \in 1 .. Len(c.eps)
  /\ \A i, j \in 1 .. c.count : c.media[i] = c.media[j] => i = j

\* The endpoint that create_media_endpoint() makes of an item.
NewEndpoint(item) ==
  [type |-> item.type, on |-> ~item.off, open |-> ~item.off /\ item.type = "audio"]

SlotOf(c, item) == IF Found(c, item) = 0 THEN c.count + 1 ELSE Found(c, item)

\* What an item does to the call: its place is used, and there is a line for it.
TakesIt(c, item, d, port) ==
  /\ d.used = c.used \cup {SlotOf(c, item)}
  /\ d.sdp = Append(c.sdp, [type |-> item.type, port |-> port])
  /\ d.failed = c.failed /\ d.ended = c.ended
  /\ d.count = IF Found(c, item) = 0 THEN c.count + 1 ELSE c.count

\* The endpoint in the place stays.
KeepsIt(c, item, d, port) ==
  /\ TakesIt(c, item, d, port)
  /\ Found(c, item) # 0
  /\ d.eps = c.eps /\ d.media = c.media /\ d.lost = c.lost /\ d.socket = c.socket
  /\ port \in Nat
  /\ port # 0 => port = c.media[Found(c, item)] /\ c.eps[c.media[Found(c, item)]].on

\* There is a new one.
MakesIt(c, item, d, port) ==
  /\ TakesIt(c, item, d, port)
  /\ Found(c, item) # 0 => ~c.eps[c.media[Found(c, item)]].on
  /\ d.eps = Append(c.eps, NewEndpoint(item))
  /\ d.media = [c.media EXCEPT ![SlotOf(c, item)] = Len(c.eps) + 1]
  /\ d.lost = IF c.ended THEN c.lost \cup {Len(c.eps) + 1} ELSE c.lost
  /\ d.socket = IF ~item.off /\ item.type = "mrcp" /\ ~outgoing THEN "listening" ELSE c.socket
  /\ port = IF item.off THEN 0 ELSE Len(c.eps) + 1

LEMMA FoundFacts ==
  ASSUME NEW c, c \in CallRecord, NEW item
  PROVE  /\ Found(c, item) \in Nat
         /\ Found(c, item) # 0 =>
              /\ Found(c, item) \in 1 .. c.count /\ Found(c, item) \notin c.used
              /\ c.eps[c.media[Found(c, item)]].type = item.type
              /\ \A i \in 1 .. c.count :
                   i \notin c.used /\ c.eps[c.media[i]].type = item.type => Found(c, item) <= i
         /\ Found(c, item) = 0 =>
              \A i \in 1 .. c.count : i \in c.used \/ c.eps[c.media[i]].type # item.type
<1> DEFINE at == {i \in 1 .. c.count : i \notin c.used /\ c.eps[c.media[i]].type = item.type}
<1>1. c.count \in Nat
  BY DEF CallRecord
<1>2. \A i \in at : i \in Nat /\ i # 0
  BY <1>1
<1>3. CASE at = {}
  BY <1>3 DEF Found
<1>4. CASE at # {}
  <2>1. at \subseteq Nat
    BY <1>2
  <2>2. Min(at) \in at /\ \A i \in at : Min(at) <= i
    BY <1>4, <2>1, MinIsLeast
  <2>3. Found(c, item) = Min(at)
    BY <1>4 DEF Found
  <2> HIDE DEF at
  <2>4. Found(c, item) \in at /\ \A i \in at : Found(c, item) <= i
    BY <2>2, <2>3
  <2> QED BY <1>2, <2>4 DEF at
<1> QED BY <1>3, <1>4

LEMMA CreatedFacts ==
  ASSUME NEW c, c \in CallRecord, NEW item \in ItemRecord
  PROVE  Created(c, item) =
           [c EXCEPT !.eps = Append(c.eps, NewEndpoint(item)),
                     !.lost = IF c.ended THEN c.lost \cup {Len(c.eps) + 1} ELSE c.lost,
                     !.socket = IF ~item.off /\ item.type = "mrcp" /\ ~outgoing
                                THEN "listening" ELSE c.socket]
BY DEF Created, NewEndpoint, CallRecord

LEMMA NewEndpointType ==
  ASSUME NEW item \in ItemRecord
  PROVE  /\ NewEndpoint(item) \in EndpointRecord
         /\ NewEndpoint(item).type = item.type /\ NewEndpoint(item).on = ~item.off
         /\ NewEndpoint(item).open => NewEndpoint(item).on
BY DEF NewEndpoint, ItemRecord, EndpointRecord

LEMMA AppendedEndpoint ==
  ASSUME NEW c, c \in CallRecord, NEW item \in ItemRecord
  PROVE  LET eps == Append(c.eps, NewEndpoint(item))
         IN  /\ eps \in Seq(EndpointRecord) /\ Len(eps) = Len(c.eps) + 1 /\ Len(c.eps) \in Nat
             /\ \A e \in 1 .. Len(c.eps) : eps[e] = c.eps[e]
             /\ eps[Len(c.eps) + 1] = NewEndpoint(item)
<1>1. c.eps \in Seq(EndpointRecord) /\ NewEndpoint(item) \in EndpointRecord
  BY NewEndpointType DEF CallRecord
<1> QED BY <1>1, AppendProperties, LenProperties

LEMMA ProcessIs ==
  ASSUME NEW c, c \in CallRecord, SlotsHold(c), NEW item \in ItemRecord
  PROVE  LET d == Process(c, item)
         IN  /\ d \in CallRecord
             /\ \E port : KeepsIt(c, item, d, port) \/ MakesIt(c, item, d, port)
<1> DEFINE i == Found(c, item)
           old == c.media[i]
           marked == [c EXCEPT !.used = @ \cup {i}]
           anew == PutAt(Created(marked, item), i)
           more == [marked EXCEPT !.used = (@ \ {0}) \cup {c.count + 1}, !.count = @ + 1]
           added == PutAt(Created(more, item), c.count + 1)
           d == Process(c, item)
           ItsLine(port) == [type |-> item.type, port |-> port]
           newest == Len(c.eps) + 1
<1>1. item.off \in BOOLEAN /\ c.ended \in BOOLEAN
  BY DEF ItemRecord, CallRecord
<1> DEFINE eps == Append(c.eps, NewEndpoint(item))
           gone == IF c.ended THEN c.lost \cup {newest} ELSE c.lost
           listens == IF ~item.off /\ item.type = "mrcp" /\ ~outgoing
                     THEN "listening" ELSE c.socket
<1>0. /\ newest \in Nat /\ eps \in Seq(EndpointRecord)
      /\ gone \in SUBSET (lost \cup Nat) /\ listens \in {"kept", "listening", "closed"}
  <2>1. Len(c.eps) \in Nat /\ eps \in Seq(EndpointRecord)
    BY AppendedEndpoint
  <2>2. newest \in Nat
    BY <2>1
  <2> QED BY <2>1, <2>2 DEF CallRecord
<1>9. \A port \in Nat : Append(c.sdp, ItsLine(port)) \in Seq(LineRecord)
  <2> TAKE port \in Nat
  <2>1. ItsLine(port) \in LineRecord /\ c.sdp \in Seq(LineRecord)
    BY DEF LineRecord, ItemRecord, CallRecord
  <2> HIDE DEF ItsLine
  <2> QED BY <2>1, AppendProperties
<1>2. CASE i # 0
  <2>1. i \in 1 .. c.count /\ old \in 1 .. Len(c.eps) /\ c.eps[old] \in EndpointRecord
    <3>1. i \in 1 .. c.count
      BY <1>2, FoundFacts
    <3>2. old \in 1 .. Len(c.eps)
      BY <3>1 DEF SlotsHold
    <3>3. c.eps \in Seq(EndpointRecord)
      BY DEF CallRecord
    <3> QED BY <3>1, <3>2, <3>3, ElementOfSeq
  <2>2. c.eps[old].on \in BOOLEAN
    BY <2>1 DEF EndpointRecord
  <2>3. CASE c.eps[old].on \/ item.off
    <3> DEFINE port == IF c.eps[old].on /\ ~item.off THEN old ELSE 0
    <3>1. d = AddLine(marked, item.type, port)
      BY <1>1, <1>2, <2>2, <2>3 DEF Process, Port
    <3>2. d = [c EXCEPT !.used = c.used \cup {i}, !.sdp = Append(c.sdp, ItsLine(port))]
      BY <3>1 DEF AddLine, CallRecord
    <3>3. /\ d.used = c.used \cup {i} /\ d.sdp = Append(c.sdp, ItsLine(port))
          /\ d.failed = c.failed /\ d.ended = c.ended /\ d.count = c.count
          /\ d.eps = c.eps /\ d.media = c.media /\ d.lost = c.lost /\ d.socket = c.socket
      BY <3>2 DEF CallRecord
    <3>4. port \in Nat /\ (port # 0 => port = old /\ c.eps[old].on)
      BY <1>1, <2>1, <2>2
    <3>5. d \in CallRecord
      <4>1. Append(c.sdp, ItsLine(port)) \in Seq(LineRecord)
        BY <1>9, <3>4
      <4>2. c.used \cup {i} \in SUBSET (Nat \ {0})
        BY <1>2, <2>1 DEF CallRecord
      <4> HIDE DEF i, port, ItsLine, d
      <4> QED BY <3>2, <4>1, <4>2 DEF CallRecord
    <3> HIDE DEF d, port
    <3>6. KeepsIt(c, item, d, port)
      BY <1>2, <3>3, <3>4 DEF KeepsIt, TakesIt, SlotOf
    <3> QED BY <3>5, <3>6 DEF d
  <2>4. CASE ~c.eps[old].on /\ ~item.off
    <3>1. d = AddLine(anew, item.type, Newest(anew))
      BY <1>1, <1>2, <2>2, <2>4 DEF Process
    <3>2. Created(marked, item) =
            [c EXCEPT !.used = c.used \cup {i},
                      !.eps = Append(c.eps, NewEndpoint(item)),
                      !.lost = IF c.ended THEN c.lost \cup {newest} ELSE c.lost,
                      !.socket = IF ~item.off /\ item.type = "mrcp" /\ ~outgoing
                                 THEN "listening" ELSE c.socket]
      BY DEF Created, NewEndpoint, CallRecord
    <3>3. Newest(Created(marked, item)) = newest
      <4>1. Created(marked, item).eps = Append(c.eps, NewEndpoint(item))
        BY <3>2 DEF CallRecord
      <4> QED BY <4>1, AppendedEndpoint DEF Newest
    <3>4. anew = [c EXCEPT !.used = c.used \cup {i},
                      !.eps = Append(c.eps, NewEndpoint(item)),
                      !.media = [c.media EXCEPT ![i] = newest],
                      !.lost = IF c.ended THEN c.lost \cup {newest} ELSE c.lost,
                      !.socket = IF ~item.off /\ item.type = "mrcp" /\ ~outgoing
                                 THEN "listening" ELSE c.socket]
      BY <3>2, <3>3 DEF PutAt, CallRecord
    <3> HIDE DEF anew
    <3>5. Newest(anew) = newest
      <4>1. anew.eps = Append(c.eps, NewEndpoint(item))
        BY <3>4 DEF CallRecord
      <4> QED BY <4>1, AppendedEndpoint DEF Newest
    <3>6. /\ d.used = c.used \cup {i} /\ d.sdp = Append(c.sdp, ItsLine(newest))
          /\ d.failed = c.failed /\ d.ended = c.ended /\ d.count = c.count
          /\ d.eps = Append(c.eps, NewEndpoint(item))
          /\ d.media = [c.media EXCEPT ![i] = newest]
          /\ d.lost = IF c.ended THEN c.lost \cup {newest} ELSE c.lost
          /\ d.socket = IF ~item.off /\ item.type = "mrcp" /\ ~outgoing
                        THEN "listening" ELSE c.socket
      BY <3>1, <3>4, <3>5 DEF AddLine, CallRecord
    <3>7. d \in CallRecord
      <4>1. Append(c.sdp, ItsLine(newest)) \in Seq(LineRecord)
        BY <1>0, <1>9
      <4>2. c.used \cup {i} \in SUBSET (Nat \ {0})
        BY <1>2, <2>1 DEF CallRecord
      <4>3. [c.media EXCEPT ![i] = newest] \in [Slots -> Nat]
        BY <1>0 DEF CallRecord
      <4>4. d = [c EXCEPT !.used = c.used \cup {i}, !.sdp = Append(c.sdp, ItsLine(newest)),
                          !.eps = eps, !.media = [c.media EXCEPT ![i] = newest],
                          !.lost = gone, !.socket = listens]
        BY <3>1, <3>4, <3>5 DEF AddLine, CallRecord
      <4> HIDE DEF i, ItsLine, d, eps, gone, listens, newest
      <4> QED BY <1>0, <4>1, <4>2, <4>3, <4>4 DEF CallRecord
    <3> HIDE DEF d
    <3>8. MakesIt(c, item, d, newest)
      BY <1>2, <2>4, <3>6 DEF MakesIt, TakesIt, SlotOf
    <3> QED BY <3>7, <3>8 DEF d
  <2> QED BY <2>2, <2>3, <2>4, <1>1
<1>3. CASE i = 0
  <2> DEFINE port == IF item.off THEN 0 ELSE newest
  <2>1. d = AddLine(added, item.type, Port(added, Newest(added)))
    BY <1>3 DEF Process
  <2>2. more = [c EXCEPT !.used = c.used \cup {c.count + 1}, !.count = c.count + 1]
    <3>1. marked = [c EXCEPT !.used = c.used \cup {0}]
      BY <1>3 DEF CallRecord
    <3>2. ((c.used \cup {0}) \ {0}) \cup {c.count + 1} = c.used \cup {c.count + 1}
      BY DEF CallRecord
    <3> QED BY <3>1, <3>2 DEF CallRecord
  <2> HIDE DEF more
  <2>3. Created(more, item) =
          [c EXCEPT !.used = c.used \cup {c.count + 1}, !.count = c.count + 1,
                    !.eps = Append(c.eps, NewEndpoint(item)),
                    !.lost = IF c.ended THEN c.lost \cup {newest} ELSE c.lost,
                    !.socket = IF ~item.off /\ item.type = "mrcp" /\ ~outgoing
                               THEN "listening" ELSE c.socket]
    BY <2>2 DEF Created, NewEndpoint, CallRecord
  <2>4. Newest(Created(more, item)) = newest
    <3>1. Created(more, item).eps = Append(c.eps, NewEndpoint(item))
      BY <2>3 DEF CallRecord
    <3> QED BY <3>1, AppendedEndpoint DEF Newest
  <2>5. added = [c EXCEPT !.used = c.used \cup {c.count + 1}, !.count = c.count + 1,
                    !.eps = Append(c.eps, NewEndpoint(item)),
                    !.media = [c.media EXCEPT ![c.count + 1] = newest],
                    !.lost = IF c.ended THEN c.lost \cup {newest} ELSE c.lost,
                    !.socket = IF ~item.off /\ item.type = "mrcp" /\ ~outgoing
                               THEN "listening" ELSE c.socket]
    BY <2>3, <2>4 DEF PutAt, CallRecord
  <2> HIDE DEF added
  <2>6. Newest(added) = newest /\ added.eps[newest] = NewEndpoint(item)
    <3>1. added.eps = Append(c.eps, NewEndpoint(item))
      BY <2>5 DEF CallRecord
    <3> QED BY <3>1, AppendedEndpoint DEF Newest
  <2>7. Port(added, Newest(added)) = port
    BY <1>1, <2>6, NewEndpointType DEF Port
  <2>8. /\ d.used = c.used \cup {c.count + 1} /\ d.sdp = Append(c.sdp, ItsLine(port))
        /\ d.failed = c.failed /\ d.ended = c.ended /\ d.count = c.count + 1
        /\ d.eps = Append(c.eps, NewEndpoint(item))
        /\ d.media = [c.media EXCEPT ![c.count + 1] = newest]
        /\ d.lost = IF c.ended THEN c.lost \cup {newest} ELSE c.lost
        /\ d.socket = IF ~item.off /\ item.type = "mrcp" /\ ~outgoing
                      THEN "listening" ELSE c.socket
    BY <2>1, <2>5, <2>7 DEF AddLine, CallRecord
  <2>9. d \in CallRecord
    <3>1. Append(c.sdp, ItsLine(port)) \in Seq(LineRecord) /\ c.count + 1 \in Nat \ {0}
      BY <1>0, <1>9 DEF CallRecord
    <3>2. c.used \cup {c.count + 1} \in SUBSET (Nat \ {0})
      BY <3>1 DEF CallRecord
    <3>3. [c.media EXCEPT ![c.count + 1] = newest] \in [Slots -> Nat]
      BY <1>0 DEF CallRecord
    <3>4. d = [c EXCEPT !.used = c.used \cup {c.count + 1}, !.count = c.count + 1,
                        !.sdp = Append(c.sdp, ItsLine(port)), !.eps = eps,
                        !.media = [c.media EXCEPT ![c.count + 1] = newest],
                        !.lost = gone, !.socket = listens]
      <4> HIDE DEF port
      <4>1. d = AddLine(added, item.type, port)
        BY <2>1, <2>7
      <4> HIDE DEF d
      <4>2. added.sdp = c.sdp
        BY <2>5 DEF CallRecord
      <4>3. d = [added EXCEPT !.sdp = Append(c.sdp, ItsLine(port))]
        BY <4>1, <4>2 DEF AddLine
      <4> QED BY <2>5, <4>3 DEF CallRecord
    <3> HIDE DEF ItsLine, d, eps, gone, listens, newest, port
    <3> QED BY <1>0, <3>1, <3>2, <3>3, <3>4 DEF CallRecord
  <2> HIDE DEF d
  <2>10. MakesIt(c, item, d, port)
    BY <1>3, <2>8 DEF MakesIt, TakesIt, SlotOf
  <2> QED BY <2>9, <2>10 DEF d
<1> QED BY <1>2, <1>3

-----------------------------------------------------------------------------
(***************************************************************************)
(* What process_media() makes is sound: places hold endpoints of their own,*)
(* open transports are held by the call or lost, and so is a socket.       *)
(***************************************************************************)

Holds(c, e) == \E i \in 1 .. c.count : c.media[i] = e

\* A transport that is open will be closed with its medium or with the call, or is lost.
OpenHeld(c) ==
  \A e \in 1 .. Len(c.eps) :
    c.eps[e].open => c.eps[e].on /\ (e \in c.lost \/ (~c.ended /\ Holds(c, e)))

\* No endpoint of the call as it was goes away.
Grown(c) ==
  /\ Len(endpoints) <= Len(c.eps)
  /\ \A e \in 1 .. Len(endpoints) : c.eps[e].type = endpoints[e].type
  /\ \A e \in lost : e \in c.lost

HeldBefore(e) == endpoints[e].on /\ \E i \in 1 .. media_count : media[i] = e

SocketHeld(c) ==
  /\ c.ended => c.socket # "kept"
  /\ c.socket = "listening" =>
       \E e \in 1 .. Len(c.eps) : /\ c.eps[e].type = "mrcp"
                                  /\ e \in c.lost \/ (~c.ended /\ c.eps[e].on /\ Holds(c, e))
  /\ c.socket = "kept" =>
       \A e \in 1 .. Len(endpoints) : HeldBefore(e) => c.eps[e].on /\ Holds(c, e)

\* Where nothing was made, nothing is changed.
Still(c) ==
  ~c.ended /\ Len(c.eps) = Len(endpoints) =>
    c.eps = endpoints /\ c.media = media /\ c.count = media_count /\ c.socket = "kept"

Sound(c) == /\ c \in CallRecord /\ SlotsHold(c)
            /\ OpenHeld(c) /\ Grown(c) /\ SocketHeld(c) /\ Still(c)

LEMMA RecordEffects ==
  ASSUME NEW c, c \in CallRecord
  PROVE  /\ c.eps \in Seq(EndpointRecord) /\ c.media \in [Slots -> Nat] /\ c.count \in Nat
         /\ c.used \in SUBSET (Nat \ {0}) /\ c.sdp \in Seq(LineRecord)
         /\ c.lost \in SUBSET (lost \cup Nat) /\ c.socket \in {"kept", "listening", "closed"}
         /\ c.failed \in BOOLEAN /\ c.ended \in BOOLEAN /\ Len(c.eps) \in Nat
<1>1. c.eps \in Seq(EndpointRecord)
  BY DEF CallRecord
<1>2. Len(c.eps) \in Nat
  BY <1>1, LenProperties
<1> QED BY <1>1, <1>2 DEF CallRecord

LEMMA KeepsSound ==
  ASSUME NEW c, Sound(c), NEW item \in ItemRecord, NEW d, d \in CallRecord,
         NEW port, KeepsIt(c, item, d, port)
  PROVE  Sound(d)
<1>1. /\ d.eps = c.eps /\ d.media = c.media /\ d.lost = c.lost /\ d.socket = c.socket
      /\ d.failed = c.failed /\ d.ended = c.ended /\ d.count = c.count
  BY DEF KeepsIt, TakesIt
<1>2. SlotsHold(d)
  BY <1>1 DEF Sound, SlotsHold
<1>3. \A e : Holds(d, e) <=> Holds(c, e)
  BY <1>1 DEF Holds
<1>4. OpenHeld(d)
  BY <1>1, <1>3 DEF Sound, OpenHeld
<1>5. Grown(d) /\ Still(d)
  BY <1>1 DEF Sound, Grown, Still
<1>6. SocketHeld(d)
  BY <1>1, <1>3 DEF Sound, SocketHeld
<1> QED BY <1>2, <1>4, <1>5, <1>6 DEF Sound

LEMMA MakesFacts ==
  ASSUME NEW c, c \in CallRecord, SlotsHold(c), NEW item \in ItemRecord, NEW d, NEW port,
         MakesIt(c, item, d, port), Len(d.eps) <= MaxEndpoints
  PROVE  LET s == SlotOf(c, item)
             newest == Len(c.eps) + 1
         IN  /\ s \in 1 .. d.count /\ s \in Slots /\ d.count \in {c.count, c.count + 1}
             /\ d.count = c.count + 1 => s = d.count
             /\ Len(d.eps) = newest /\ newest \in Nat /\ d.count <= newest
             /\ \A e \in 1 .. Len(c.eps) : d.eps[e] = c.eps[e]
             /\ d.eps[newest] = NewEndpoint(item)
             /\ d.media[s] = newest
             /\ \A i \in Slots : i # s => d.media[i] = c.media[i]
             /\ \A i \in 1 .. d.count : i \in Slots /\ (i # s => i \in 1 .. c.count)
             /\ s \in 1 .. c.count => ~c.eps[c.media[s]].on
             /\ s \in 1 .. c.count => c.eps[c.media[s]].type = item.type
<1> DEFINE s == SlotOf(c, item)
           newest == Len(c.eps) + 1
<1>1. /\ d.eps = Append(c.eps, NewEndpoint(item))
      /\ d.media = [c.media EXCEPT ![s] = newest]
      /\ d.count = IF Found(c, item) = 0 THEN c.count + 1 ELSE c.count
      /\ Found(c, item) # 0 => ~c.eps[c.media[Found(c, item)]].on
  BY DEF MakesIt, TakesIt
<1>2. /\ Len(d.eps) = newest /\ Len(c.eps) \in Nat
      /\ \A e \in 1 .. Len(c.eps) : d.eps[e] = c.eps[e]
      /\ d.eps[newest] = NewEndpoint(item)
  BY <1>1, AppendedEndpoint
<1>3. c.count \in Nat /\ c.count <= Len(c.eps) /\ newest <= MaxEndpoints /\ MaxEndpoints \in Nat
  BY <1>2, BoundAssumption, RecordEffects DEF SlotsHold
<1>4. /\ s \in 1 .. d.count /\ d.count \in {c.count, c.count + 1}
      /\ d.count = c.count + 1 => s = d.count
      /\ s \in 1 .. c.count => s = Found(c, item) /\ Found(c, item) # 0
      /\ d.count <= newest
  BY <1>1, <1>3, FoundFacts DEF SlotOf
<1>5. c.media \in [Slots -> Nat]
  BY RecordEffects
<1>6. s \in Slots
  BY <1>3, <1>4 DEF Slots
<1>7. d.media[s] = newest /\ \A i \in Slots : i # s => d.media[i] = c.media[i]
  BY <1>1, <1>5, <1>6
<1>8. \A i \in 1 .. d.count : i \in Slots /\ (i # s => i \in 1 .. c.count)
  BY <1>3, <1>4 DEF Slots
<1>9. s \in 1 .. c.count => c.eps[c.media[s]].type = item.type
  BY <1>4, FoundFacts
<1> HIDE DEF s
<1> QED BY <1>1, <1>2, <1>3, <1>4, <1>6, <1>7, <1>8, <1>9 DEF s

LEMMA MakesSound ==
  ASSUME NEW c, Sound(c), NEW item \in ItemRecord, NEW d, d \in CallRecord,
         NEW port, MakesIt(c, item, d, port), Len(d.eps) <= MaxEndpoints
  PROVE  Sound(d)
<1> DEFINE s == SlotOf(c, item)
           newest == Len(c.eps) + 1
<1>0. c \in CallRecord /\ SlotsHold(c)
  BY DEF Sound
<1>1. /\ s \in 1 .. d.count /\ s \in Slots /\ d.count \in {c.count, c.count + 1}
      /\ d.count = c.count + 1 => s = d.count
      /\ Len(d.eps) = newest /\ newest \in Nat /\ d.count <= newest
      /\ \A e \in 1 .. Len(c.eps) : d.eps[e] = c.eps[e]
      /\ d.eps[newest] = NewEndpoint(item)
      /\ d.media[s] = newest
      /\ \A i \in Slots : i # s => d.media[i] = c.media[i]
      /\ \A i \in 1 .. d.count : i \in Slots /\ (i # s => i \in 1 .. c.count)
      /\ s \in 1 .. c.count => ~c.eps[c.media[s]].on
  BY <1>0, MakesFacts
<1> USE DEF Sound
<1>2. /\ d.failed = c.failed /\ d.ended = c.ended
      /\ d.lost = IF c.ended THEN c.lost \cup {newest} ELSE c.lost
      /\ d.socket = IF ~item.off /\ item.type = "mrcp" /\ ~outgoing THEN "listening" ELSE c.socket
  BY DEF MakesIt, TakesIt
<1>3. c.count \in Nat /\ Len(c.eps) \in Nat /\ c.ended \in BOOLEAN
  BY RecordEffects
<1> HIDE DEF s
<1>4. \A i \in 1 .. c.count : i \in 1 .. d.count /\ i \in Slots
  <2>1. \A i \in 1 .. c.count : i \in 1 .. d.count
    BY <1>1, <1>3
  <2> QED BY <1>1, <2>1
<1>5. SlotsHold(d)
  <2>1. \A i \in 1 .. d.count : i # s => d.media[i] \in 1 .. Len(c.eps) /\ d.media[i] = c.media[i]
    BY <1>1 DEF SlotsHold
  <2>2. \A i \in 1 .. d.count : d.media[i] \in 1 .. Len(d.eps)
    BY <1>1, <1>3, <2>1
  <2>3. ASSUME NEW i \in 1 .. d.count, NEW j \in 1 .. d.count, d.media[i] = d.media[j] PROVE i = j
    <3>1. CASE i = s \/ j = s
      BY <1>1, <1>3, <2>1, <2>3, <3>1
    <3>2. CASE i # s /\ j # s
      BY <1>1, <2>1, <2>3, <3>2 DEF SlotsHold
    <3> QED BY <3>1, <3>2
  <2> QED BY <1>1, <2>2, <2>3 DEF SlotsHold
<1>6. ASSUME NEW e \in 1 .. Len(c.eps), Holds(c, e), c.eps[e].on PROVE Holds(d, e)
  <2>1. PICK i \in 1 .. c.count : c.media[i] = e
    BY <1>6 DEF Holds
  <2>2. i # s
    BY <1>1, <1>6, <2>1
  <2> QED BY <1>1, <1>4, <2>1, <2>2 DEF Holds
<1>7. Holds(d, newest)
  BY <1>1 DEF Holds
<1>8. ASSUME NEW e \in 1 .. newest, e \notin 1 .. Len(c.eps) PROVE e = newest
  BY <1>3, <1>8
<1>9. OpenHeld(d)
  <2> SUFFICES ASSUME NEW e \in 1 .. newest, d.eps[e].open
               PROVE  d.eps[e].on /\ (e \in d.lost \/ (~d.ended /\ Holds(d, e)))
    BY <1>1 DEF OpenHeld
  <2>1. CASE e \in 1 .. Len(c.eps)
    <3>1. c.eps[e].open /\ c.eps[e].on /\ d.eps[e].on
      BY <1>1, <2>1 DEF OpenHeld
    <3>2. e \in c.lost \/ (~c.ended /\ Holds(c, e))
      BY <2>1, <3>1 DEF OpenHeld
    <3> QED BY <1>2, <1>6, <2>1, <3>1, <3>2
  <2>2. CASE e = newest
    BY <1>1, <1>2, <1>7, <2>2, NewEndpointType
  <2> QED BY <1>8, <2>1, <2>2
<1>10. Grown(d)
  <2>1. Len(endpoints) <= Len(c.eps) /\ Len(c.eps) \in Nat
    BY <1>3 DEF Grown
  <2>2. \A e \in 1 .. Len(endpoints) : e \in 1 .. Len(c.eps)
    BY <2>1
  <2>3. \A e \in 1 .. Len(endpoints) : d.eps[e].type = endpoints[e].type
    BY <1>1, <2>2 DEF Grown
  <2>4. Len(endpoints) <= Len(d.eps)
    BY <1>1, <2>1
  <2> QED BY <1>2, <2>3, <2>4 DEF Grown
<1>11. SocketHeld(d)
  <2>1. CASE ~item.off /\ item.type = "mrcp" /\ ~outgoing
    <3>1. d.socket = "listening"
      BY <1>2, <2>1
    <3>2. d.eps[newest].type = "mrcp" /\ d.eps[newest].on /\ newest \in 1 .. Len(d.eps)
      <4>1. NewEndpoint(item).type = "mrcp" /\ NewEndpoint(item).on
        BY <2>1, NewEndpointType
      <4> QED BY <1>1, <1>3, <4>1
    <3>3. newest \in d.lost \/ (~d.ended /\ d.eps[newest].on /\ Holds(d, newest))
      BY <1>2, <1>7, <3>2
    <3> QED BY <3>1, <3>2, <3>3 DEF SocketHeld
  <2>2. CASE ~ (~item.off /\ item.type = "mrcp" /\ ~outgoing)
    <3>1. d.socket = c.socket
      BY <1>2, <2>2
    <3>2. d.ended => d.socket # "kept"
      BY <1>2, <3>1 DEF SocketHeld
    <3>3. ASSUME d.socket = "listening"
          PROVE \E e \in 1 .. Len(d.eps) :
                  /\ d.eps[e].type = "mrcp"
                  /\ e \in d.lost \/ (~d.ended /\ d.eps[e].on /\ Holds(d, e))
      <4>1. PICK e \in 1 .. Len(c.eps) :
              /\ c.eps[e].type = "mrcp"
              /\ e \in c.lost \/ (~c.ended /\ c.eps[e].on /\ Holds(c, e))
        BY <3>1, <3>3 DEF SocketHeld
      <4>2. e \in 1 .. Len(d.eps) /\ d.eps[e] = c.eps[e]
        BY <1>1, <1>3
      <4>3. e \in d.lost \/ (~d.ended /\ d.eps[e].on /\ Holds(d, e))
        BY <1>2, <1>6, <4>1, <4>2
      <4> QED BY <4>1, <4>2, <4>3
    <3>4. ASSUME d.socket = "kept", NEW e \in 1 .. Len(endpoints), HeldBefore(e)
          PROVE  d.eps[e].on /\ Holds(d, e)
      <4>1. c.eps[e].on /\ Holds(c, e)
        BY <3>1, <3>4 DEF SocketHeld
      <4>2. e \in 1 .. Len(c.eps)
        <5>1. Len(endpoints) <= Len(c.eps) /\ Len(c.eps) \in Nat
          BY <1>3 DEF Grown
        <5> QED BY <5>1
      <4> QED BY <1>1, <1>6, <4>1, <4>2
    <3> QED BY <3>2, <3>3, <3>4 DEF SocketHeld
  <2> QED BY <2>1, <2>2
<1>12. Still(d)
  <2>1. Len(endpoints) <= Len(c.eps)
    BY DEF Grown
  <2>2. CASE Len(d.eps) = Len(endpoints)
    BY <1>1, <1>3, <2>1, <2>2
  <2> QED BY <2>2 DEF Still
<1> QED BY <1>5, <1>9, <1>10, <1>11, <1>12

LEMMA ProcessSound ==
  ASSUME NEW c, Sound(c), NEW item \in ItemRecord, Len(Process(c, item).eps) <= MaxEndpoints
  PROVE  Sound(Process(c, item)) /\ Process(c, item).ended = c.ended
<1> DEFINE d == Process(c, item)
<1>1. c \in CallRecord /\ SlotsHold(c)
  BY DEF Sound
<1>2. d \in CallRecord /\ \E port : KeepsIt(c, item, d, port) \/ MakesIt(c, item, d, port)
  BY <1>1, ProcessIs
<1> HIDE DEF d
<1>3. PICK port : KeepsIt(c, item, d, port) \/ MakesIt(c, item, d, port)
  BY <1>2
<1>4. d.ended = c.ended
  BY <1>3 DEF KeepsIt, MakesIt, TakesIt
<1>5. Sound(d)
  <2>1. CASE KeepsIt(c, item, d, port)
    BY <1>2, <2>1, KeepsSound
  <2>2. CASE MakesIt(c, item, d, port)
    <3>1. Len(d.eps) <= MaxEndpoints
      BY DEF d
    <3> QED BY <1>2, <2>2, <3>1, MakesSound
  <2> QED BY <1>3, <2>1, <2>2
<1> QED BY <1>4, <1>5 DEF d

LEMMA FailedSound ==
  ASSUME NEW c, Sound(c)
  PROVE  Sound(Failed(c)) /\ Failed(c).failed /\ Failed(c).eps = c.eps
<1> DEFINE d == Failed(c)
<1>1. c \in CallRecord
  BY DEF Sound
<1>2. /\ d.eps = c.eps /\ d.media = c.media /\ d.lost = c.lost /\ d.socket = c.socket
      /\ d.ended = c.ended /\ d.count = c.count /\ d.failed = TRUE /\ d \in CallRecord
  BY <1>1 DEF Failed, CallRecord
<1> HIDE DEF d
<1>3. \A e : Holds(d, e) <=> Holds(c, e)
  BY <1>2 DEF Holds
<1>4. SlotsHold(d) /\ OpenHeld(d) /\ Grown(d) /\ SocketHeld(d) /\ Still(d)
  BY <1>2, <1>3 DEF Sound, SlotsHold, OpenHeld, Grown, SocketHeld, Still
<1> QED BY <1>2, <1>4 DEF Sound, d

\* An endpoint whose making broke off behind its port.
Dropped(c, item) ==
  [Created(c, item) EXCEPT !.lost = @ \cup {Newest(c) + 1}, !.socket = c.socket]

LEMMA DroppedSound ==
  ASSUME NEW c, Sound(c), NEW item \in ItemRecord, Len(Dropped(c, item).eps) <= MaxEndpoints
  PROVE  Sound(Dropped(c, item))
<1> DEFINE d == Dropped(c, item)
           newest == Len(c.eps) + 1
<1>1. c \in CallRecord /\ c.eps \in Seq(EndpointRecord) /\ Len(c.eps) \in Nat
  BY RecordEffects DEF Sound
<1>2. d = [c EXCEPT !.eps = Append(c.eps, NewEndpoint(item)), !.lost = c.lost \cup {newest}]
  <2>1. (IF c.ended THEN c.lost \cup {newest} ELSE c.lost) \cup {newest} = c.lost \cup {newest}
    OBVIOUS
  <2> DEFINE made == Created(c, item)
             gone == IF c.ended THEN c.lost \cup {newest} ELSE c.lost
             listens == IF ~item.off /\ item.type = "mrcp" /\ ~outgoing
                        THEN "listening" ELSE c.socket
  <2>2. made = [c EXCEPT !.eps = Append(c.eps, NewEndpoint(item)), !.lost = gone,
                         !.socket = listens]
    BY <1>1, CreatedFacts
  <2>3. d = [made EXCEPT !.lost = made.lost \cup {newest}, !.socket = c.socket]
    BY DEF Dropped, Newest
  <2> HIDE DEF made, listens, d
  <2>4. made.lost = gone
    BY <1>1, <2>2 DEF CallRecord
  <2>5. made.lost \cup {newest} = c.lost \cup {newest}
    BY <2>1, <2>4
  <2> HIDE DEF gone
  <2> QED BY <1>1, <2>2, <2>3, <2>5 DEF CallRecord
<1>3. /\ Append(c.eps, NewEndpoint(item)) \in Seq(EndpointRecord)
      /\ Len(Append(c.eps, NewEndpoint(item))) = newest
      /\ \A e \in 1 .. Len(c.eps) : Append(c.eps, NewEndpoint(item))[e] = c.eps[e]
      /\ Append(c.eps, NewEndpoint(item))[newest] = NewEndpoint(item)
  BY <1>1, AppendedEndpoint
<1>4. /\ d.eps = Append(c.eps, NewEndpoint(item)) /\ d.media = c.media
      /\ d.lost = c.lost \cup {newest} /\ d.socket = c.socket
      /\ d.ended = c.ended /\ d.count = c.count
  BY <1>1, <1>2 DEF CallRecord
<1>5. d \in CallRecord
  <2>1. c.lost \cup {newest} \in SUBSET (lost \cup Nat)
    BY <1>1 DEF CallRecord
  <2> QED BY <1>1, <1>2, <1>3, <2>1 DEF CallRecord
<1>6. Len(d.eps) <= MaxEndpoints
  OBVIOUS
<1> HIDE DEF d
<1>7. /\ Len(d.eps) = newest /\ \A e \in 1 .. Len(c.eps) : d.eps[e] = c.eps[e]
      /\ d.eps[newest] = NewEndpoint(item)
  BY <1>3, <1>4
<1>8. \A e : Holds(d, e) <=> Holds(c, e)
  BY <1>4 DEF Holds
<1>9. SlotsHold(d)
  <2>1. \A i \in 1 .. c.count : c.media[i] \in 1 .. newest
    BY <1>1 DEF Sound, SlotsHold
  <2>2. c.count <= newest
    BY <1>1 DEF Sound, SlotsHold, CallRecord
  <2>3. \A i, j \in 1 .. c.count : c.media[i] = c.media[j] => i = j
    BY DEF Sound, SlotsHold
  <2> QED BY <1>4, <1>6, <1>7, <2>1, <2>2, <2>3 DEF SlotsHold
<1>10. OpenHeld(d)
  <2> SUFFICES ASSUME NEW e \in 1 .. newest, d.eps[e].open
               PROVE  d.eps[e].on /\ (e \in d.lost \/ (~d.ended /\ Holds(d, e)))
    BY <1>7 DEF OpenHeld
  <2>1. CASE e \in 1 .. Len(c.eps)
    <3>1. c.eps[e].open /\ d.eps[e].on = c.eps[e].on
      BY <1>7, <2>1
    <3>2. c.eps[e].on /\ (e \in c.lost \/ (~c.ended /\ Holds(c, e)))
      BY <2>1, <3>1 DEF Sound, OpenHeld
    <3> QED BY <1>4, <1>8, <3>1, <3>2
  <2>2. CASE e = newest
    BY <1>4, <1>7, <2>2, NewEndpointType
  <2> QED BY <1>1, <2>1, <2>2
<1>11. Len(endpoints) <= Len(c.eps) /\ \A e \in 1 .. Len(endpoints) : e \in 1 .. Len(c.eps)
  <2>1. Len(endpoints) <= Len(c.eps)
    BY DEF Sound, Grown
  <2> QED BY <1>1, <2>1
<1>12. Grown(d)
  <2>1. \A e \in 1 .. Len(endpoints) : d.eps[e].type = endpoints[e].type
    BY <1>7, <1>11 DEF Sound, Grown
  <2>2. Len(endpoints) <= newest
    BY <1>1, <1>11
  <2>3. \A e \in lost : e \in d.lost
    BY <1>4 DEF Sound, Grown
  <2> QED BY <1>7, <2>1, <2>2, <2>3 DEF Grown
<1>13. SocketHeld(d)
  <2>1. d.ended => d.socket # "kept"
    BY <1>4 DEF Sound, SocketHeld
  <2>2. ASSUME d.socket = "listening"
        PROVE \E e \in 1 .. Len(d.eps) :
                /\ d.eps[e].type = "mrcp"
                /\ e \in d.lost \/ (~d.ended /\ d.eps[e].on /\ Holds(d, e))
    <3>1. PICK e \in 1 .. Len(c.eps) :
            /\ c.eps[e].type = "mrcp"
            /\ e \in c.lost \/ (~c.ended /\ c.eps[e].on /\ Holds(c, e))
      BY <1>4, <2>2 DEF Sound, SocketHeld
    <3>2. e \in 1 .. Len(d.eps) /\ d.eps[e] = c.eps[e]
      BY <1>1, <1>7
    <3> QED BY <1>4, <1>8, <3>1, <3>2
  <2>3. ASSUME d.socket = "kept", NEW e \in 1 .. Len(endpoints), HeldBefore(e)
        PROVE  d.eps[e].on /\ Holds(d, e)
    <3>1. c.eps[e].on /\ Holds(c, e)
      BY <1>4, <2>3 DEF Sound, SocketHeld
    <3> QED BY <1>7, <1>8, <1>11, <3>1
  <2> QED BY <2>1, <2>2, <2>3 DEF SocketHeld
<1>14. Still(d)
  <2>1. Len(d.eps) # Len(endpoints)
    BY <1>1, <1>7, <1>11
  <2> QED BY <2>1 DEF Still
<1> QED BY <1>5, <1>9, <1>10, <1>12, <1>13, <1>14 DEF Sound, d

\* close_media(): what was in a place of the call is closed.
LEMMA ClosedFacts ==
  ASSUME NEW c, c \in CallRecord
  PROVE  LET d == CloseMedia(c)
         IN  /\ d \in CallRecord /\ d.count = 0 /\ d.socket = "closed" /\ d.media = c.media
             /\ d.lost = c.lost /\ d.ended = c.ended /\ d.failed = c.failed
             /\ Len(d.eps) = Len(c.eps)
             /\ \A e \in 1 .. Len(c.eps) :
                  /\ d.eps[e].type = c.eps[e].type
                  /\ d.eps[e].on = (c.eps[e].on /\ ~Holds(c, e))
                  /\ d.eps[e].open = (c.eps[e].open /\ ~Holds(c, e))
<1> DEFINE d == CloseMedia(c)
           eps == [e \in DOMAIN c.eps |->
                     IF \E i \in 1 .. c.count : c.media[i] = e
                     THEN [c.eps[e] EXCEPT !.on = FALSE, !.open = FALSE] ELSE c.eps[e]]
<1>1. c.eps \in Seq(EndpointRecord) /\ Len(c.eps) \in Nat /\ DOMAIN c.eps = 1 .. Len(c.eps)
  BY RecordEffects, LenProperties
<1>2. \A e \in 1 .. Len(c.eps) : c.eps[e] \in EndpointRecord
  BY <1>1, ElementOfSeq
<1>3. \A e \in 1 .. Len(c.eps) :
        eps[e] = IF Holds(c, e) THEN [c.eps[e] EXCEPT !.on = FALSE, !.open = FALSE] ELSE c.eps[e]
  BY <1>1 DEF Holds
<1>4. DOMAIN eps = 1 .. Len(c.eps)
  BY <1>1
<1>5. d = [c EXCEPT !.eps = eps, !.count = 0, !.socket = "closed"]
  BY DEF CloseMedia
<1>6. eps = [e \in 1 .. Len(c.eps) |-> eps[e]]
  BY <1>1
<1> HIDE DEF eps, d
<1>7. \A e \in 1 .. Len(c.eps) :
        /\ eps[e] \in EndpointRecord
        /\ eps[e].type = c.eps[e].type
        /\ eps[e].on = (c.eps[e].on /\ ~Holds(c, e))
        /\ eps[e].open = (c.eps[e].open /\ ~Holds(c, e))
  <2> TAKE e \in 1 .. Len(c.eps)
  <2>1. c.eps[e] \in EndpointRecord
    BY <1>2
  <2>2. c.eps[e].on \in BOOLEAN /\ c.eps[e].open \in BOOLEAN
    BY <2>1 DEF EndpointRecord
  <2>3. CASE Holds(c, e)
    <3>1. eps[e] = [c.eps[e] EXCEPT !.on = FALSE, !.open = FALSE]
      BY <1>3, <2>3
    <3> QED BY <2>1, <2>3, <3>1 DEF EndpointRecord
  <2>4. CASE ~Holds(c, e)
    <3>1. eps[e] = c.eps[e]
      BY <1>3, <2>4
    <3> QED BY <2>1, <2>2, <2>4, <3>1
  <2> QED BY <2>3, <2>4
<1>8. eps \in Seq(EndpointRecord) /\ Len(eps) = Len(c.eps)
  <2>1. \A e \in 1 .. Len(c.eps) : eps[e] \in EndpointRecord
    BY <1>7
  <2>2. [e \in 1 .. Len(c.eps) |-> eps[e]] \in Seq(EndpointRecord)
    BY <1>1, <2>1, IsASeq
  <2>3. eps \in Seq(EndpointRecord)
    BY <1>6, <2>2
  <2>4. Len(eps) \in Nat /\ DOMAIN eps = 1 .. Len(eps)
    BY <2>3, LenProperties
  <2> QED BY <1>1, <1>4, <2>3, <2>4
<1>9. d \in CallRecord /\ d.eps = eps
  BY <1>5, <1>8 DEF CallRecord
<1>10. /\ d.count = 0 /\ d.socket = "closed" /\ d.media = c.media
       /\ d.lost = c.lost /\ d.ended = c.ended /\ d.failed = c.failed
  BY <1>5 DEF CallRecord
<1> QED BY <1>7, <1>8, <1>9, <1>10 DEF d

\* The call ends within the making of an endpoint.
Ended(c) == [CloseMedia(c) EXCEPT !.ended = TRUE]

LEMMA EndedSound ==
  ASSUME NEW c, Sound(c)
  PROVE  Sound(Ended(c)) /\ Ended(c).ended
<1> DEFINE d == Ended(c)
<1>1. c \in CallRecord
  BY DEF Sound
<1>2. /\ d \in CallRecord /\ d.count = 0 /\ d.socket = "closed"
      /\ d.lost = c.lost /\ d.ended = TRUE
      /\ Len(d.eps) = Len(c.eps)
      /\ \A e \in 1 .. Len(c.eps) :
           /\ d.eps[e].type = c.eps[e].type
           /\ d.eps[e].on = (c.eps[e].on /\ ~Holds(c, e))
           /\ d.eps[e].open = (c.eps[e].open /\ ~Holds(c, e))
  <2> DEFINE b == CloseMedia(c)
  <2>1. /\ b \in CallRecord /\ b.count = 0 /\ b.socket = "closed"
        /\ b.lost = c.lost
        /\ Len(b.eps) = Len(c.eps)
        /\ \A e \in 1 .. Len(c.eps) :
             /\ b.eps[e].type = c.eps[e].type
             /\ b.eps[e].on = (c.eps[e].on /\ ~Holds(c, e))
             /\ b.eps[e].open = (c.eps[e].open /\ ~Holds(c, e))
    BY <1>1, ClosedFacts
  <2> HIDE DEF b
  <2>2. d = [b EXCEPT !.ended = TRUE]
    BY DEF b, Ended
  <2> HIDE DEF d
  <2>3. /\ d.eps = b.eps /\ d.count = b.count /\ d.socket = b.socket
        /\ d.lost = b.lost /\ d.ended = TRUE
    BY <2>1, <2>2 DEF CallRecord
  <2>4. d \in CallRecord
    BY <2>1, <2>2 DEF CallRecord
  <2> QED BY <2>1, <2>3, <2>4
<1> HIDE DEF d
<1>3. Len(c.eps) \in Nat
  BY <1>1, RecordEffects
<1>4. SlotsHold(d)
  BY <1>2, <1>3 DEF Sound, SlotsHold
<1>5. OpenHeld(d)
  BY <1>2 DEF Sound, OpenHeld
<1>6. Grown(d)
  <2>1. Len(endpoints) <= Len(c.eps)
    BY DEF Sound, Grown
  <2>2. \A e \in 1 .. Len(endpoints) : e \in 1 .. Len(c.eps)
    BY <1>3, <2>1
  <2> QED BY <1>2, <2>1, <2>2 DEF Sound, Grown
<1>7. SocketHeld(d) /\ Still(d)
  BY <1>2 DEF SocketHeld, Still
<1> QED BY <1>2, <1>4, <1>5, <1>6, <1>7 DEF Sound, d

LEMMA ProcessWithCases ==
  ASSUME NEW c, NEW item, NEW mishap
  PROVE  LET d == ProcessWith(c, item, mishap)
         IN  \/ c.failed /\ d = c
             \/ ~c.failed /\ d = Failed(c)
             \/ ~c.failed /\ d = Failed(Dropped(c, item))
             \/ ~c.failed /\ d = Failed(Process(c, item))
             \/ ~c.failed /\ d = Process(Ended(c), item)
             \/ ~c.failed /\ d = Process(c, item)
<1> DEFINE d == ProcessWith(c, item, mishap)
<1>1. CASE c.failed
  BY <1>1 DEF ProcessWith
<1>2. CASE ~c.failed
  <2>1. CASE mishap = "refused" /\ Opens(c, item)
    BY <1>2, <2>1 DEF ProcessWith
  <2>2. CASE mishap = "dropped" /\ Opens(c, item)
    BY <1>2, <2>2 DEF ProcessWith, Dropped
  <2>3. CASE mishap = "stored"
    BY <1>2, <2>3 DEF ProcessWith
  <2>4. CASE mishap = "ended" /\ Makes(c, item) /\ item.type = "audio"
    BY <1>2, <2>4 DEF ProcessWith, Ended
  <2>5. CASE /\ ~ (mishap = "refused" /\ Opens(c, item))
             /\ ~ (mishap = "dropped" /\ Opens(c, item))
             /\ ~ (mishap = "stored")
             /\ ~ (mishap = "ended" /\ Makes(c, item) /\ item.type = "audio")
    BY <1>2, <2>5 DEF ProcessWith
  <2> QED BY <2>1, <2>2, <2>3, <2>4, <2>5
<1> QED BY <1>1, <1>2

LEMMA ProcessWithSound ==
  ASSUME NEW c, Sound(c), NEW item \in ItemRecord, NEW mishap,
         Len(ProcessWith(c, item, mishap).eps) <= MaxEndpoints
  PROVE  LET d == ProcessWith(c, item, mishap)
         IN  /\ Sound(d)
             /\ ~d.failed /\ ~d.ended => ~c.failed /\ ~c.ended /\ d = Process(c, item)
<1> DEFINE d == ProcessWith(c, item, mishap)
<1>1. Len(d.eps) <= MaxEndpoints
  OBVIOUS
<1>2. \/ c.failed /\ d = c
      \/ ~c.failed /\ d = Failed(c)
      \/ ~c.failed /\ d = Failed(Dropped(c, item))
      \/ ~c.failed /\ d = Failed(Process(c, item))
      \/ ~c.failed /\ d = Process(Ended(c), item)
      \/ ~c.failed /\ d = Process(c, item)
  BY ProcessWithCases
<1> SUFFICES Sound(d) /\ (~d.failed /\ ~d.ended => ~c.failed /\ ~c.ended /\ d = Process(c, item))
  OBVIOUS
<1> HIDE DEF d
<1>3. c \in CallRecord /\ SlotsHold(c)
  BY DEF Sound
<1>4. CASE c.failed /\ d = c
  BY <1>4
<1>5. CASE d = Failed(c)
  BY <1>5, FailedSound
<1>6. CASE d = Failed(Dropped(c, item))
  <2>1. Failed(Dropped(c, item)).eps = Dropped(c, item).eps
    <3>1. Dropped(c, item) = [Created(c, item) EXCEPT
                                !.lost = Created(c, item).lost \cup {Newest(c) + 1},
                                !.socket = c.socket]
      BY DEF Dropped
    <3>2. "eps" \in DOMAIN c
      BY <1>3 DEF CallRecord
    <3>3. "eps" \in DOMAIN Created(c, item)
      BY <3>2 DEF Created
    <3>4. "eps" \in DOMAIN Dropped(c, item)
      BY <3>1, <3>3
    <3> QED BY <3>4 DEF Failed
  <2>2. Sound(Dropped(c, item))
    BY <1>1, <1>6, <2>1, DroppedSound
  <2> QED BY <1>6, <2>2, FailedSound
<1>7. CASE d = Failed(Process(c, item))
  <2>1. Process(c, item) \in CallRecord
    BY <1>3, ProcessIs
  <2>2. Failed(Process(c, item)).eps = Process(c, item).eps
    BY <2>1 DEF Failed, CallRecord
  <2>3. Sound(Process(c, item))
    BY <1>1, <1>7, <2>2, ProcessSound
  <2> QED BY <1>7, <2>3, FailedSound
<1>8. CASE d = Process(Ended(c), item)
  <2>1. Sound(Ended(c)) /\ Ended(c).ended
    BY EndedSound
  <2> QED BY <1>1, <1>8, <2>1, ProcessSound
<1>9. CASE ~c.failed /\ d = Process(c, item)
  BY <1>1, <1>9, ProcessSound
<1> QED BY <1>2, <1>4, <1>5, <1>6, <1>7, <1>8, <1>9

\* One item of the list.
ItemStep(c, list, k, mishap, n) == ProcessWith(c, list[n], IF n = k THEN mishap ELSE "none")

\* f[m] is the call after m items, for m up to n.
ProcessesTo(f, n, list, k, mishap) ==
  /\ f[0] = Current
  /\ \A m \in 1 .. n : f[m] = ItemStep(f[m - 1], list, k, mishap, m)

LEMMA ProcessingExists ==
  ASSUME NEW list, NEW k, NEW mishap
  PROVE  \A n \in Nat : \E f : ProcessesTo(f, n, list, k, mishap)
<1> DEFINE T == {n \in Nat : \E f : ProcessesTo(f, n, list, k, mishap)}
           After(c, m) == ItemStep(c, list, k, mishap, m)
<1>1. 0 \in T
  <2> DEFINE f == [m \in {0} |-> Current]
  <2>1. ProcessesTo(f, 0, list, k, mishap)
    BY DEF ProcessesTo
  <2> QED BY <2>1
<1>2. ASSUME NEW n \in Nat, n \in T PROVE n + 1 \in T
  <2>1. PICK f : ProcessesTo(f, n, list, k, mishap)
    BY <1>2
  <2> DEFINE g == [m \in 0 .. n + 1 |-> IF m = n + 1 THEN After(f[n], n + 1) ELSE f[m]]
  <2>2. g[0] = Current
    BY <2>1 DEF ProcessesTo
  <2>3. ASSUME NEW m \in 1 .. n + 1 PROVE g[m] = After(g[m - 1], m)
    <3> HIDE DEF After
    <3>1. CASE m = n + 1
      <4>1. g[m] = After(f[n], n + 1) /\ g[m - 1] = f[n]
        BY <3>1
      <4> QED BY <3>1, <4>1
    <3>2. CASE m # n + 1
      <4>1. m \in 1 .. n /\ m - 1 \in 0 .. n
        BY <3>2
      <4>2. g[m] = f[m] /\ g[m - 1] = f[m - 1]
        BY <4>1
      <4> HIDE DEF g
      <4> QED BY <2>1, <4>1, <4>2 DEF ProcessesTo, After
    <3> QED BY <3>1, <3>2
  <2> HIDE DEF g
  <2>4. ProcessesTo(g, n + 1, list, k, mishap)
    BY <2>2, <2>3 DEF ProcessesTo
  <2> QED BY <2>4
<1> HIDE DEF T
<1>3. \A n \in Nat : n \in T
  BY <1>1, <1>2, NatSetInduction
<1> QED BY <1>3 DEF T

LEMMA ProcessingsAgree ==
  ASSUME NEW list, NEW k, NEW mishap, NEW n \in Nat, NEW f, NEW g,
         ProcessesTo(f, n, list, k, mishap), ProcessesTo(g, n, list, k, mishap)
  PROVE  \A m \in 0 .. n : f[m] = g[m]
<1> DEFINE T == {m \in Nat : m <= n => f[m] = g[m]}
<1>1. 0 \in T
  BY DEF ProcessesTo
<1>2. ASSUME NEW m \in Nat, m \in T PROVE m + 1 \in T
  <2> SUFFICES ASSUME m + 1 <= n PROVE f[m + 1] = g[m + 1]
    OBVIOUS
  <2>1. f[m] = g[m] /\ m + 1 \in 1 .. n /\ (m + 1) - 1 = m
    BY <1>2
  <2> QED BY <2>1 DEF ProcessesTo
<1> HIDE DEF T
<1>3. \A m \in Nat : m \in T
  BY <1>1, <1>2, NatSetInduction
<1> QED BY <1>3 DEF T

LEMMA ProcessMediaEquation ==
  ASSUME NEW list, NEW k, NEW mishap
  PROVE  LET processed == ProcessMedia(list, k, mishap)
         IN  /\ processed[0] = Current
             /\ \A n \in Nat : processed[n + 1] = ItemStep(processed[n], list, k, mishap, n + 1)
<1> DEFINE processed == ProcessMedia(list, k, mishap)
           F(n) == CHOOSE f : ProcessesTo(f, n, list, k, mishap)
           h == [n \in Nat |-> F(n)[n]]
           Seen(s) == s = [n \in Nat |-> IF n = 0 THEN Current
                                         ELSE ItemStep(s[n - 1], list, k, mishap, n)]
<1>1. \A n \in Nat : ProcessesTo(F(n), n, list, k, mishap)
  BY ProcessingExists
<1>2. ASSUME NEW n \in Nat
      PROVE h[n] = IF n = 0 THEN Current ELSE ItemStep(h[n - 1], list, k, mishap, n)
  <2> HIDE DEF F
  <2>1. ProcessesTo(F(n), n, list, k, mishap)
    BY <1>1
  <2>2. CASE n = 0
    BY <2>1, <2>2 DEF ProcessesTo
  <2>3. CASE n # 0
    <3>1. n - 1 \in Nat /\ ProcessesTo(F(n - 1), n - 1, list, k, mishap)
      BY <1>1, <2>3
    <3>2. ProcessesTo(F(n), n - 1, list, k, mishap)
      BY <2>1, <3>1 DEF ProcessesTo
    <3>3. F(n)[n - 1] = F(n - 1)[n - 1]
      BY <3>1, <3>2, ProcessingsAgree
    <3>4. F(n)[n] = ItemStep(F(n)[n - 1], list, k, mishap, n)
      BY <2>1, <2>3 DEF ProcessesTo
    <3> QED BY <2>3, <3>1, <3>3, <3>4
  <2> QED BY <2>2, <2>3
<1>3. Seen(h)
  <2> HIDE DEF F
  <2> QED BY <1>2
<1>4. processed = CHOOSE s : Seen(s)
  BY DEF ProcessMedia, ItemStep
<1> HIDE DEF h, processed
<1>5. Seen(processed)
  BY <1>3, <1>4
<1>6. \A n \in Nat : processed[n + 1] = ItemStep(processed[n], list, k, mishap, n + 1)
  BY <1>5
<1> QED BY <1>5, <1>6 DEF processed

LEMMA ProcessMediaNext ==
  ASSUME NEW list, NEW k, NEW mishap, NEW n \in Nat
  PROVE  ProcessMedia(list, k, mishap)[n + 1]
           = ItemStep(ProcessMedia(list, k, mishap)[n], list, k, mishap, n + 1)
BY ProcessMediaEquation

LEMMA ProcessMediaFirst ==
  ASSUME NEW list, NEW k, NEW mishap
  PROVE  ProcessMedia(list, k, mishap)[0] = Current
BY ProcessMediaEquation

LEMMA ProcessMediaSound ==
  ASSUME Sound(Current), NEW list \in Seq(ItemRecord), NEW k, NEW mishap,
         \A n \in 1 .. Len(list) : Len(ProcessMedia(list, k, mishap)[n].eps) <= MaxEndpoints
  PROVE  \A n \in 0 .. Len(list) : Sound(ProcessMedia(list, k, mishap)[n])
<1> DEFINE c == ProcessMedia(list, k, mishap)
           T == {n \in Nat : n <= Len(list) => Sound(c[n])}
<1> HIDE DEF c
<1>1. 0 \in T
  BY ProcessMediaFirst DEF c
<1>2. ASSUME NEW n \in Nat, n \in T PROVE n + 1 \in T
  <2> SUFFICES ASSUME n + 1 <= Len(list) PROVE Sound(c[n + 1])
    OBVIOUS
  <2>1. n + 1 \in 1 .. Len(list) /\ Sound(c[n])
    BY <1>2, LenProperties
  <2>2. list[n + 1] \in ItemRecord
    BY <2>1, ElementOfSeq
  <2>3. c[n + 1] = ItemStep(c[n], list, k, mishap, n + 1)
    BY ProcessMediaNext DEF c
  <2>4. Len(c[n + 1].eps) <= MaxEndpoints
    BY <2>1 DEF c
  <2> QED BY <2>1, <2>2, <2>3, <2>4, ProcessWithSound DEF ItemStep
<1> HIDE DEF T
<1>3. \A n \in Nat : n \in T
  BY <1>1, <1>2, NatSetInduction
<1> QED BY <1>3, LenProperties DEF T, c

-----------------------------------------------------------------------------
(***************************************************************************)
(* The places of the endpoints and the lines of the negotiator.            *)
(***************************************************************************)

\* The places of call->media have the types of the active SDP.
SlotsLike(c) ==
  /\ c.count = Len(active)
  /\ \A s \in 1 .. Len(active) : c.eps[c.media[s]].type = active[s].type

\* Where the item belongs: with the line of the session that it is the partner of, or
\* behind these.
Place(list, j) ==
  IF j \in Added(active, list) THEN Len(active) + UpTo(Added(active, list), j)
  ELSE CHOOSE s : s \in Partners(list, j, active)

LineFits(c, s, l) ==
  /\ s \in 1 .. c.count
  /\ c.eps[c.media[s]].type = l.type
  /\ l.port # 0 => l.port = c.media[s] /\ c.eps[c.media[s]].on

\* After k items.
Matches(c, list, k) ==
  /\ Len(c.sdp) = k
  /\ \A j \in 1 .. k : c.sdp[j].type = list[j].type
  /\ c.count = Len(active) + UpTo(Added(active, list), k)
  /\ \A s \in 1 .. Len(active) : c.eps[c.media[s]].type = active[s].type
  /\ c.used = {Place(list, j) : j \in 1 .. k}
  /\ \A j \in 1 .. k : LineFits(c, Place(list, j), c.sdp[j])

LEMMA SeqNumbered ==
  ASSUME NEW S, NEW s \in Seq(S)
  PROVE  Numbered(s, Len(s)) /\ Len(s) \in Nat /\ DOMAIN s = 1 .. Len(s)
BY LenProperties DEF Numbered

LEMMA AddedPlaces ==
  ASSUME NEW a, NEW b, NEW n, Numbered(b, n)
  PROVE  Places(Added(a, b)) /\ Added(a, b) \subseteq 1 .. n
BY DEF Added, Numbered, Places

LEMMA PlaceFacts ==
  ASSUME active \in Seq(LineRecord), NEW list \in Seq(ItemRecord), NEW j \in 1 .. Len(list)
  PROVE  /\ j \in Added(active, list) =>
              Place(list, j) = Len(active) + UpTo(Added(active, list), j)
         /\ j \notin Added(active, list) =>
              /\ Place(list, j) \in 1 .. Len(active)
              /\ Place(list, j) \in Partners(list, j, active)
         /\ \A s \in Partners(list, j, active) : j \notin Added(active, list) /\ Place(list, j) = s
<1>1. /\ Numbered(active, Len(active)) /\ Numbered(list, Len(list))
      /\ DOMAIN active = 1 .. Len(active) /\ DOMAIN list = 1 .. Len(list)
  BY SeqNumbered
<1>2. j \notin Added(active, list) <=> Partners(list, j, active) # {}
  BY <1>1 DEF Added
<1>3. \A s \in Partners(list, j, active) : \A t \in Partners(list, j, active) : s = t
  BY <1>1, PartnerUnique
<1>4. \A s \in Partners(list, j, active) : s \in 1 .. Len(active)
  BY <1>1 DEF Partners
<1>5. ASSUME j \notin Added(active, list)
      PROVE  Place(list, j) \in Partners(list, j, active)
  BY <1>2, <1>5 DEF Place
<1>6. ASSUME NEW s \in Partners(list, j, active)
      PROVE  j \notin Added(active, list) /\ Place(list, j) = s
  BY <1>2, <1>3, <1>5, <1>6
<1> QED BY <1>4, <1>5, <1>6 DEF Place

\* A place that is not used yet, of the type of the next item: as many of that type come
\* before it as there were items of that type.
LEMMA UnusedIsLater ==
  ASSUME active \in Seq(LineRecord), NEW list \in Seq(ItemRecord), NEW k \in Nat,
         k + 1 \in 1 .. Len(list), NEW c, Matches(c, list, k),
         NEW i \in 1 .. c.count, i \notin c.used,
         c.eps[c.media[i]].type = list[k + 1].type
  PROVE  /\ i \in OfType(active, list[k + 1].type)
         /\ UpTo(OfType(list, list[k + 1].type), k) < UpTo(OfType(active, list[k + 1].type), i)
<1> DEFINE type == list[k + 1].type
           A == OfType(active, type)
           B == OfType(list, type)
           new == Added(active, list)
           m == Len(active)
<1>1. /\ Numbered(active, m) /\ Numbered(list, Len(list)) /\ m \in Nat /\ Len(list) \in Nat
      /\ DOMAIN active = 1 .. m /\ DOMAIN list = 1 .. Len(list)
  BY SeqNumbered
<1>2. Places(A) /\ Places(B) /\ Places(new)
  BY <1>1, OfTypePlaces, AddedPlaces
<1>3. UpTo(new, k) \in Nat /\ UpTo(B, k) \in Nat
  BY <1>2, UpToFinite
<1>4. ASSUME NEW j \in 1 .. k PROVE Place(list, j) # i /\ j \in 1 .. Len(list)
  BY <1>1 DEF Matches
<1>5. i \in 1 .. m
  <2> SUFFICES ASSUME i \notin 1 .. m PROVE FALSE
    OBVIOUS
  <2>1. i - m \in 1 .. UpTo(new, k) /\ i = m + (i - m)
    BY <1>1, <1>3 DEF Matches
  <2>2. PICK j \in new : j <= k /\ UpTo(new, j) = i - m
    BY <1>2, <2>1, UpToTakesAll
  <2>3. j \in 1 .. k
    BY <1>2, <2>2 DEF Places
  <2>4. Place(list, j) = m + UpTo(new, j)
    BY <1>4, <2>2, <2>3, PlaceFacts
  <2> QED BY <1>4, <2>1, <2>2, <2>3, <2>4
<1>6. i \in A
  BY <1>1, <1>5 DEF Matches, OfType
<1>7. UpTo(A, i) \in Nat \ {0}
  BY <1>2, <1>6, UpToPositive
<1>8. ASSUME UpTo(A, i) <= UpTo(B, k) PROVE FALSE
  <2>1. UpTo(A, i) \in 1 .. UpTo(B, k)
    BY <1>3, <1>7, <1>8
  <2>2. PICK j \in B : j <= k /\ UpTo(B, j) = UpTo(A, i)
    BY <1>2, <2>1, UpToTakesAll
  <2>3. j \in 1 .. k
    BY <1>2, <2>2 DEF Places
  <2>4. list[j].type = type /\ active[i].type = type
    BY <1>6 DEF OfType
  <2>5. Rank(list, j) = Rank(active, i)
    BY <2>2, <2>4 DEF Rank
  <2>6. i \in Partners(list, j, active)
    BY <1>1, <1>5, <2>4, <2>5 DEF Partners
  <2>7. Place(list, j) = i
    BY <1>4, <2>3, <2>6, PlaceFacts
  <2> QED BY <1>4, <2>3, <2>7
<1> HIDE DEF A, B
<1> QED BY <1>3, <1>6, <1>7, <1>8 DEF A, B

LEMMA FoundIs ==
  ASSUME active \in Seq(LineRecord), NEW list \in Seq(ItemRecord), NEW k \in Nat,
         k + 1 \in 1 .. Len(list), NEW c, c \in CallRecord, Matches(c, list, k)
  PROVE  Found(c, list[k + 1]) = IF k + 1 \in Added(active, list) THEN 0 ELSE Place(list, k + 1)
<1> DEFINE item == list[k + 1]
           A == OfType(active, item.type)
           B == OfType(list, item.type)
           m == Len(active)
           s == Place(list, k + 1)
           i == Found(c, item)
<1>1. /\ Numbered(active, m) /\ Numbered(list, Len(list)) /\ m \in Nat /\ Len(list) \in Nat
      /\ DOMAIN active = 1 .. m /\ DOMAIN list = 1 .. Len(list)
  BY SeqNumbered
<1>2. Places(A) /\ Places(B) /\ Places(Added(active, list))
  BY <1>1, OfTypePlaces, AddedPlaces
<1>3. k + 1 \in B /\ k \in Nat
  BY <1>1 DEF OfType
<1>4. UpTo(B, k + 1) = UpTo(B, k) + 1 /\ UpTo(B, k) \in Nat
  BY <1>2, <1>3, UpToNext, UpToFinite
<1>5. Rank(list, k + 1) = UpTo(B, k) + 1
  BY <1>4 DEF Rank
<1>6. ASSUME i # 0
      PROVE  /\ i \in A /\ UpTo(B, k) < UpTo(A, i)
             /\ i \in 1 .. c.count
             /\ \A x \in 1 .. c.count :
                  x \notin c.used /\ c.eps[c.media[x]].type = item.type => i <= x
  <2>1. /\ i \in 1 .. c.count /\ i \notin c.used /\ c.eps[c.media[i]].type = item.type
        /\ \A x \in 1 .. c.count :
             x \notin c.used /\ c.eps[c.media[x]].type = item.type => i <= x
    BY <1>6, FoundFacts
  <2>2. i \in A /\ UpTo(B, k) < UpTo(A, i)
    <3> HIDE DEF i
    <3> QED BY <2>1, UnusedIsLater
  <2> QED BY <2>1, <2>2
<1> HIDE DEF i
<1>7. CASE k + 1 \in Added(active, list)
  <2>1. Partners(list, k + 1, active) = {}
    BY <1>7 DEF Added
  <2>2. ASSUME i # 0 PROVE FALSE
    <3>1. i \in A /\ UpTo(B, k) < UpTo(A, i)
      BY <1>6, <2>2
    <3>2. i \in Nat /\ UpTo(A, i) \in Nat
      BY <1>2, <3>1, UpToPositive DEF Places
    <3>3. UpTo(B, k) + 1 \in 1 .. UpTo(A, i)
      BY <1>4, <3>1, <3>2
    <3>4. PICK x \in A : x <= i /\ UpTo(A, x) = UpTo(B, k) + 1
      BY <1>2, <3>2, <3>3, UpToTakesAll
    <3>5. x \in DOMAIN active /\ active[x].type = item.type
      BY DEF OfType
    <3>6. Rank(active, x) = Rank(list, k + 1)
      BY <1>5, <3>4, <3>5 DEF Rank
    <3>7. x \in Partners(list, k + 1, active)
      BY <3>5, <3>6 DEF Partners
    <3> QED BY <2>1, <3>7
  <2> QED BY <1>7, <2>2 DEF i
<1>8. CASE k + 1 \notin Added(active, list)
  <2>1. s \in 1 .. m /\ s \in Partners(list, k + 1, active)
    BY <1>8, PlaceFacts
  <2> HIDE DEF s
  <2>2. active[s].type = item.type /\ Rank(active, s) = UpTo(B, k) + 1
    BY <1>5, <2>1 DEF Partners
  <2>3. s \in A /\ UpTo(A, s) = UpTo(B, k) + 1
    BY <1>1, <2>1, <2>2 DEF OfType, Rank
  <2>4. UpTo(Added(active, list), k) \in Nat
    BY <1>2, UpToFinite
  <2>5. s \in 1 .. c.count /\ c.eps[c.media[s]].type = item.type
    BY <1>1, <2>1, <2>2, <2>4 DEF Matches
  <2>6. s \notin c.used
    <3> SUFFICES ASSUME s \in c.used PROVE FALSE
      OBVIOUS
    <3>1. PICK j \in 1 .. k : s = Place(list, j)
      BY DEF Matches
    <3>2. j \in 1 .. Len(list) /\ j \in Nat /\ j <= k
      BY <1>1
    <3>3. j \notin Added(active, list)
      <4>1. j \in Added(active, list) => UpTo(Added(active, list), j) \in Nat \ {0}
        BY <1>2, UpToPositive
      <4>2. j \in Added(active, list) => s = m + UpTo(Added(active, list), j)
        BY <3>1, <3>2, PlaceFacts
      <4> QED BY <1>1, <2>1, <4>1, <4>2
    <3>4. s \in Partners(list, j, active)
      BY <3>1, <3>2, <3>3, PlaceFacts
    <3>5. list[j].type = item.type /\ Rank(list, j) = UpTo(B, k) + 1
      BY <2>2, <3>4 DEF Partners
    <3>6. UpTo(B, j) = UpTo(B, k) + 1
      BY <3>5 DEF Rank
    <3>7. UpTo(B, j) <= UpTo(B, k)
      BY <1>2, <3>2, UpToGrows
    <3> QED BY <1>4, <3>6, <3>7
  <2>7. i # 0
    <3>1. i = 0 => \A x \in 1 .. c.count : x \in c.used \/ c.eps[c.media[x]].type # item.type
      BY FoundFacts DEF i
    <3> QED BY <2>5, <2>6, <3>1
  <2>8. i \in A /\ UpTo(B, k) < UpTo(A, i) /\ i <= s
    BY <1>6, <2>5, <2>6, <2>7
  <2>9. i \in Nat /\ s \in Nat /\ UpTo(A, i) \in Nat
    <3>1. i \in Nat /\ s \in Nat
      BY <1>2, <2>3, <2>8 DEF Places
    <3> QED BY <1>2, <3>1, UpToFinite
  <2>10. i < s => UpTo(A, i) < UpTo(A, s)
    BY <1>2, <2>3, <2>9, UpToIncreases
  <2>11. i = s
    BY <1>4, <2>3, <2>8, <2>9, <2>10
  <2> QED BY <1>8, <2>11 DEF i, s
<1> QED BY <1>7, <1>8

LEMMA SlotIsPlace ==
  ASSUME active \in Seq(LineRecord), NEW list \in Seq(ItemRecord), NEW k \in Nat,
         k + 1 \in 1 .. Len(list), NEW c, c \in CallRecord, Matches(c, list, k)
  PROVE  LET s == Place(list, k + 1)
             new == Added(active, list)
             count == IF Found(c, list[k + 1]) = 0 THEN c.count + 1 ELSE c.count
         IN  /\ SlotOf(c, list[k + 1]) = s
             /\ count = Len(active) + UpTo(new, k + 1)
             /\ c.count \in Nat /\ s \in 1 .. count
             /\ s \notin c.used
             /\ c.used \subseteq 1 .. c.count
             /\ s \in 1 .. Len(active) => active[s].type = list[k + 1].type
<1> DEFINE s == Place(list, k + 1)
           new == Added(active, list)
           m == Len(active)
           i == Found(c, list[k + 1])
<1>1. /\ Numbered(active, m) /\ Numbered(list, Len(list)) /\ m \in Nat /\ Len(list) \in Nat
      /\ DOMAIN active = 1 .. m /\ DOMAIN list = 1 .. Len(list)
  BY SeqNumbered
<1>2. Places(new)
  BY <1>1, AddedPlaces
<1>3. UpTo(new, k + 1) = IF k + 1 \in new THEN UpTo(new, k) + 1 ELSE UpTo(new, k)
  BY <1>2, UpToNext
<1>4. UpTo(new, k) \in Nat /\ c.count = m + UpTo(new, k)
  BY <1>2, UpToFinite DEF Matches
<1>5. i = IF k + 1 \in new THEN 0 ELSE s
  BY FoundIs
<1>6. c.used \subseteq 1 .. c.count
  <2>1. \A j \in 1 .. k : Place(list, j) \in 1 .. c.count
    BY DEF Matches, LineFits
  <2> QED BY <2>1 DEF Matches
<1> HIDE DEF i, new
<1>7. CASE k + 1 \in new
  <2>1. s = m + UpTo(new, k + 1)
    BY <1>7, PlaceFacts DEF new
  <2>2. i = 0 /\ s = c.count + 1
    BY <1>1, <1>3, <1>4, <1>5, <1>7, <2>1
  <2>3. s \notin 1 .. c.count /\ s \notin 1 .. m
    BY <1>1, <1>4, <2>2
  <2> HIDE DEF s
  <2>4. SlotOf(c, list[k + 1]) = s
    BY <2>2 DEF SlotOf, i
  <2>5. c.count + 1 = m + UpTo(new, k + 1)
    BY <1>3, <1>4, <1>7
  <2>6. s \notin c.used
    BY <1>6, <2>3
  <2>7. c.count \in Nat /\ s \in 1 .. c.count + 1
    BY <1>4, <2>2
  <2>8. (IF i = 0 THEN c.count + 1 ELSE c.count) = c.count + 1
    BY <2>2
  <2> QED BY <1>6, <2>3, <2>4, <2>5, <2>6, <2>7, <2>8 DEF i, new, s
<1>8. CASE k + 1 \notin new
  <2>1. s \in 1 .. m /\ s \in Partners(list, k + 1, active)
    BY <1>8, PlaceFacts DEF new
  <2>2. active[s].type = list[k + 1].type
    BY <2>1 DEF Partners
  <2> HIDE DEF s
  <2>3. i = s /\ i # 0
    BY <1>1, <1>5, <1>8, <2>1
  <2>4. s \notin c.used
    BY <2>3, FoundFacts DEF i
  <2>5. SlotOf(c, list[k + 1]) = s
    BY <2>3 DEF SlotOf, i
  <2>6. s \in 1 .. c.count
    BY <1>1, <1>4, <2>1
  <2> QED BY <1>1, <1>3, <1>4, <1>6, <1>8, <2>2, <2>3, <2>4, <2>5, <2>6 DEF i, new, s
<1> QED BY <1>7, <1>8

LEMMA MatchesStep ==
  ASSUME active \in Seq(LineRecord), NEW list \in Seq(ItemRecord), NEW k \in Nat,
         k + 1 \in 1 .. Len(list), NEW c, Sound(c), Matches(c, list, k),
         Len(Process(c, list[k + 1]).eps) <= MaxEndpoints
  PROVE  Matches(Process(c, list[k + 1]), list, k + 1)
<1> DEFINE item == list[k + 1]
           d == Process(c, item)
           s == Place(list, k + 1)
           newest == Len(c.eps) + 1
<1>1. c \in CallRecord /\ SlotsHold(c) /\ item \in ItemRecord
  BY ElementOfSeq DEF Sound
<1>2. d \in CallRecord /\ \E port : KeepsIt(c, item, d, port) \/ MakesIt(c, item, d, port)
  BY <1>1, ProcessIs
<1>3. Len(d.eps) <= MaxEndpoints
  OBVIOUS
<1> HIDE DEF d
<1>4. PICK port : KeepsIt(c, item, d, port) \/ MakesIt(c, item, d, port)
  BY <1>2
<1>5. TakesIt(c, item, d, port)
  BY <1>4 DEF KeepsIt, MakesIt
<1>6. /\ SlotOf(c, item) = s
      /\ d.count = Len(active) + UpTo(Added(active, list), k + 1)
      /\ c.count \in Nat /\ s \in 1 .. d.count /\ d.count \in {c.count, c.count + 1}
      /\ s \notin c.used
      /\ c.used \subseteq 1 .. c.count
      /\ s \in 1 .. Len(active) => active[s].type = item.type
  BY <1>1, <1>5, SlotIsPlace DEF TakesIt
<1>7. c.sdp \in Seq(LineRecord) /\ Len(active) \in Nat /\ Len(c.eps) \in Nat
  BY <1>1, RecordEffects, LenProperties
<1>8. d.sdp = Append(c.sdp, [type |-> item.type, port |-> port])
  BY <1>5 DEF TakesIt
<1>9. port \in Nat
  BY <1>4, <1>7 DEF KeepsIt, MakesIt
<1>10. /\ Len(d.sdp) = k + 1
       /\ \A j \in 1 .. k : d.sdp[j] = c.sdp[j]
       /\ d.sdp[k + 1].type = item.type /\ d.sdp[k + 1].port = port
  <2>1. [type |-> item.type, port |-> port] \in LineRecord
    BY <1>1, <1>9 DEF ItemRecord, LineRecord
  <2>2. Len(c.sdp) = k
    BY DEF Matches
  <2> HIDE DEF item
  <2> QED BY <1>7, <1>8, <2>1, <2>2, AppendProperties
<1>11. \A j \in 1 .. k + 1 : d.sdp[j].type = list[j].type
  <2>1. \A j \in 1 .. k + 1 : j \in 1 .. k \/ j = k + 1
    OBVIOUS
  <2> QED BY <1>10, <2>1 DEF Matches
<1>12. d.used = {Place(list, j) : j \in 1 .. k + 1}
  <2>1. d.used = c.used \cup {s}
    BY <1>5, <1>6 DEF TakesIt
  <2>2. \A j \in 1 .. k + 1 : j \in 1 .. k \/ j = k + 1
    OBVIOUS
  <2>3. \A j \in 1 .. k : j \in 1 .. k + 1
    OBVIOUS
  <2>4. k + 1 \in 1 .. k + 1
    OBVIOUS
  <2> QED BY <2>1, <2>2, <2>3, <2>4 DEF Matches
\* Before the first item.
<1>13. ASSUME NEW p \in 1 .. c.count, p # s
       PROVE  d.media[p] = c.media[p] /\ d.eps[c.media[p]] = c.eps[c.media[p]] /\ p \in 1 .. d.count
  <2>1. p \in 1 .. d.count
    BY <1>6
  <2>2. CASE KeepsIt(c, item, d, port)
    BY <2>1, <2>2 DEF KeepsIt
  <2>3. CASE MakesIt(c, item, d, port)
    <3>1. /\ \A e \in 1 .. Len(c.eps) : d.eps[e] = c.eps[e]
          /\ \A i \in Slots : i # s => d.media[i] = c.media[i]
          /\ \A i \in 1 .. d.count : i \in Slots
      BY <1>1, <1>3, <1>6, <2>3, MakesFacts
    <3>2. c.media[p] \in 1 .. Len(c.eps)
      BY <1>1 DEF SlotsHold
    <3> QED BY <1>13, <2>1, <3>1, <3>2
  <2> QED BY <1>4, <2>2, <2>3
<1>14. /\ d.eps[d.media[s]].type = item.type
       /\ port # 0 => port = d.media[s] /\ d.eps[d.media[s]].on
  <2>1. CASE KeepsIt(c, item, d, port)
    <3>1. Found(c, item) = s /\ Found(c, item) # 0
      BY <1>6, <2>1 DEF KeepsIt, SlotOf
    <3>2. c.eps[c.media[s]].type = item.type
      BY <1>1, <3>1, FoundFacts
    <3> QED BY <2>1, <3>1, <3>2 DEF KeepsIt
  <2>2. CASE MakesIt(c, item, d, port)
    <3>1. d.media[s] = newest /\ d.eps[newest] = NewEndpoint(item)
      BY <1>1, <1>3, <1>6, <2>2, MakesFacts
    <3>2. NewEndpoint(item).type = item.type /\ NewEndpoint(item).on = ~item.off
      BY <1>1, NewEndpointType
    <3>3. port # 0 => port = newest /\ ~item.off
      BY <2>2 DEF MakesIt
    <3> HIDE DEF s, item, newest
    <3> QED BY <3>1, <3>2, <3>3
  <2> QED BY <1>4, <2>1, <2>2
<1>15. \A p \in 1 .. Len(active) : d.eps[d.media[p]].type = active[p].type
  <2> TAKE p \in 1 .. Len(active)
  <2>1. p \in 1 .. c.count
    <3>1. Places(Added(active, list))
      BY AddedPlaces, SeqNumbered
    <3>2. UpTo(Added(active, list), k) \in Nat
      BY <3>1, UpToFinite
    <3> QED BY <1>7, <3>2 DEF Matches
  <2>2. CASE p # s
    BY <1>13, <2>1, <2>2 DEF Matches
  <2>3. CASE p = s
    BY <1>6, <1>14, <2>3
  <2> QED BY <2>2, <2>3
<1>16. ASSUME NEW j \in 1 .. k + 1 PROVE LineFits(d, Place(list, j), d.sdp[j])
  <2>1. CASE j \in 1 .. k
    <3>1. LineFits(c, Place(list, j), c.sdp[j]) /\ Place(list, j) \in c.used
      BY <2>1 DEF Matches
    <3>2. Place(list, j) \in 1 .. c.count /\ Place(list, j) # s
      BY <1>6, <3>1 DEF LineFits
    <3> QED BY <1>10, <1>13, <2>1, <3>1, <3>2 DEF LineFits
  <2>2. CASE j = k + 1
    BY <1>6, <1>10, <1>14, <2>2 DEF LineFits
  <2> QED BY <2>1, <2>2
<1>17. Matches(d, list, k + 1)
  BY <1>6, <1>10, <1>11, <1>12, <1>15, <1>16 DEF Matches
<1> QED BY <1>17 DEF d

LEMMA MatchesFirst ==
  ASSUME active \in Seq(LineRecord), NEW list \in Seq(ItemRecord), SlotsLike(Current)
  PROVE  Matches(Current, list, 0)
<1>1. UpTo(Added(active, list), 0) = 0
  BY AddedPlaces, SeqNumbered, UpToZero
<1>2. Len(active) \in Nat
  BY LenProperties
<1>3. Current.sdp = <<>> /\ Current.used = {}
  BY DEF Current
<1>4. Len(<<>>) = 0
  BY EmptySeq
<1> QED BY <1>1, <1>2, <1>3, <1>4 DEF Matches, SlotsLike

\* Without a failure.
LEMMA ProcessMediaMatches ==
  ASSUME active \in Seq(LineRecord), Sound(Current), SlotsLike(Current),
         NEW list \in Seq(ItemRecord), NEW k, NEW mishap,
         \A n \in 1 .. Len(list) : Len(ProcessMedia(list, k, mishap)[n].eps) <= MaxEndpoints
  PROVE  \A n \in 0 .. Len(list) :
           LET c == ProcessMedia(list, k, mishap)[n]
           IN  ~c.failed /\ ~c.ended => Matches(c, list, n)
<1> DEFINE c == ProcessMedia(list, k, mishap)
           T == {n \in Nat : n <= Len(list) /\ ~c[n].failed /\ ~c[n].ended =>
                               Matches(c[n], list, n)}
<1>0. \A n \in 0 .. Len(list) : Sound(c[n])
  BY ProcessMediaSound
<1> HIDE DEF c
<1>1. 0 \in T
  BY MatchesFirst, ProcessMediaFirst DEF c
<1>2. ASSUME NEW n \in Nat, n \in T PROVE n + 1 \in T
  <2> SUFFICES ASSUME n + 1 <= Len(list), ~c[n + 1].failed, ~c[n + 1].ended
               PROVE  Matches(c[n + 1], list, n + 1)
    OBVIOUS
  <2>1. n + 1 \in 1 .. Len(list) /\ n \in 0 .. Len(list) /\ n <= Len(list)
    BY LenProperties
  <2>2. Sound(c[n]) /\ list[n + 1] \in ItemRecord
    BY <1>0, <2>1, ElementOfSeq
  <2>3. c[n + 1] = ProcessWith(c[n], list[n + 1], IF n + 1 = k THEN mishap ELSE "none")
    BY ProcessMediaNext DEF c, ItemStep
  <2>4. Len(c[n + 1].eps) <= MaxEndpoints
    BY <2>1 DEF c
  <2>5. ~c[n].failed /\ ~c[n].ended /\ c[n + 1] = Process(c[n], list[n + 1])
    BY <2>2, <2>3, <2>4, ProcessWithSound
  <2>6. Matches(c[n], list, n)
    BY <1>2, <2>1, <2>5
  <2> QED BY <2>1, <2>2, <2>4, <2>5, <2>6, MatchesStep
<1> HIDE DEF T
<1>3. \A n \in Nat : n \in T
  BY <1>1, <1>2, NatSetInduction
<1> QED BY <1>3, LenProperties DEF T, c

\* Line by line, lines are those of the endpoints in the places of c.
LinesFit(c, given) ==
  /\ given \in Seq(LineRecord)
  /\ Len(given) = c.count
  /\ \A s \in 1 .. c.count : LineFits(c, s, given[s])

\* If they are the active ones, the places have the types of these.
LEMMA FitsLike ==
  ASSUME LinesFit(Current, active)
  PROVE  SlotsLike(Current)
  BY DEF LinesFit, LineFits, SlotsLike

LEMMA MatchesMeans ==
  ASSUME active \in Seq(LineRecord), NEW list \in Seq(ItemRecord), NEW c, c \in CallRecord,
         Matches(c, list, Len(list))
  PROVE  LinesFit(c, Reordered(active, c.sdp))
<1> DEFINE m == Len(active)
           n == Len(list)
           new == Added(active, list)
           mine == Reordered(active, c.sdp)
<1>1. /\ Numbered(active, m) /\ Numbered(list, n) /\ m \in Nat /\ n \in Nat
      /\ DOMAIN active = 1 .. m /\ DOMAIN list = 1 .. n
  BY SeqNumbered
<1>2. c.sdp \in Seq(LineRecord) /\ DOMAIN c.sdp = 1 .. n /\ Len(c.sdp) = n
  <2>1. c.sdp \in Seq(LineRecord) /\ Len(c.sdp) = n
    BY RecordEffects DEF Matches
  <2> QED BY <2>1, LenProperties
<1>3. Alike(c.sdp, list)
  BY <1>1, <1>2 DEF Alike, Matches
<1>4. Added(active, c.sdp) = new
  BY <1>3, AlikeAdded
<1>5. \A s \in 1 .. m : Partners(active, s, c.sdp) = Partners(active, s, list)
  BY <1>1, <1>3, AlikePartners
<1>6. Places(new) /\ new \subseteq 1 .. n
  BY <1>1, AddedPlaces
<1>7. UpTo(new, n) = Cardinality(new) /\ UpTo(new, n) \in Nat
  BY <1>1, <1>6, UpToWhole, UpToFinite
<1>8. c.count = m + Cardinality(new) /\ c.count \in Nat
  BY <1>1, <1>7 DEF Matches
<1> HIDE DEF new
<1>9. mine = [i \in 1 .. c.count |->
                IF i <= m THEN Partner(active, i, c.sdp) ELSE c.sdp[Nth(new, i - m)]]
  BY <1>4, <1>8 DEF Reordered
<1> HIDE DEF mine
<1>10. ASSUME NEW s \in 1 .. c.count PROVE mine[s] \in LineRecord /\ LineFits(c, s, mine[s])
  <2>1. CASE s <= m
    <3>1. mine[s] = Partner(active, s, c.sdp) /\ s \in 1 .. m
      BY <1>1, <1>9, <2>1
    <3>2. CASE Partners(active, s, list) = {}
      <4>1. mine[s] = [type |-> active[s].type, port |-> 0]
        BY <1>5, <3>1, <3>2 DEF Partner, Off
      <4>2. active[s] \in LineRecord
        BY <3>1, ElementOfSeq
      <4>3. c.eps[c.media[s]].type = active[s].type
        BY <3>1 DEF Matches
      <4> QED BY <4>1, <4>2, <4>3 DEF LineRecord, LineFits
    <3>3. CASE Partners(active, s, list) # {}
      <4>1. PICK j \in Partners(active, s, list) : mine[s] = c.sdp[j]
        BY <1>5, <3>1, <3>3 DEF Partner
      <4>2. j \in 1 .. n
        BY <1>1 DEF Partners
      <4>3. s \in Partners(list, j, active)
        BY <1>1, <3>1, <4>2, PartnersSymmetric
      <4>4. Place(list, j) = s
        BY <4>2, <4>3, PlaceFacts
      <4>5. LineFits(c, s, c.sdp[j])
        BY <4>2, <4>4 DEF Matches
      <4>6. c.sdp[j] \in LineRecord
        BY <1>2, <4>2, ElementOfSeq
      <4> QED BY <4>1, <4>5, <4>6
    <3> QED BY <3>2, <3>3
  <2>2. CASE ~ (s <= m)
    <3>1. mine[s] = c.sdp[Nth(new, s - m)] /\ s - m \in 1 .. UpTo(new, n) /\ s = m + (s - m)
      BY <1>1, <1>7, <1>8, <1>9, <2>2
    <3>2. Nth(new, s - m) \in new /\ UpTo(new, Nth(new, s - m)) = s - m
      BY <1>1, <1>6, <3>1, NthOf
    <3> DEFINE j == Nth(new, s - m)
    <3>3. j \in 1 .. n
      BY <1>6, <3>2
    <3> HIDE DEF j
    <3>4. Place(list, j) = s
      <4>1. j \in new /\ UpTo(new, j) = s - m
        BY <3>2 DEF j
      <4>2. Place(list, j) = m + UpTo(new, j)
        BY <3>3, <4>1, PlaceFacts DEF new
      <4> QED BY <3>1, <4>1, <4>2
    <3>5. LineFits(c, s, c.sdp[j])
      BY <3>3, <3>4 DEF Matches
    <3>6. c.sdp[j] \in LineRecord
      BY <1>2, <3>3, ElementOfSeq
    <3> QED BY <3>1, <3>5, <3>6 DEF j
  <2> QED BY <2>1, <2>2
<1>11. mine \in Seq(LineRecord) /\ Len(mine) = c.count
  <2>1. \A i \in 1 .. c.count : mine[i] \in LineRecord
    BY <1>10
  <2>2. [i \in 1 .. c.count |-> mine[i]] \in Seq(LineRecord)
    BY <1>8, <2>1, IsASeq
  <2>3. mine = [i \in 1 .. c.count |-> mine[i]]
    BY <1>9
  <2>4. mine \in Seq(LineRecord)
    BY <2>2, <2>3
  <2>5. DOMAIN mine = 1 .. Len(mine) /\ Len(mine) \in Nat /\ DOMAIN mine = 1 .. c.count
    BY <1>9, <2>4, LenProperties
  <2> QED BY <1>8, <2>4, <2>5
<1> QED BY <1>10, <1>11 DEF LinesFit, mine

(***************************************************************************)
(* process_media() and the negotiator agree: where find_media_by_json_     *)
(* descr() takes the first endpoint of a type that is free, and the        *)
(* negotiator matches lines by type and rank, the lines of the session     *)
(* that the list leads to are in the order of call->media, each with the   *)
(* port of the endpoint that is there.                                     *)
(***************************************************************************)
THEOREM PlacesAgree ==
  ASSUME active \in Seq(LineRecord), Sound(Current), SlotsLike(Current),
         NEW list \in Seq(ItemRecord), NEW k, NEW mishap,
         \A n \in 1 .. Len(list) : Len(ProcessMedia(list, k, mishap)[n].eps) <= MaxEndpoints
  PROVE  LET c == ProcessMedia(list, k, mishap)[Len(list)]
         IN  ~c.failed /\ ~c.ended => LinesFit(c, Reordered(active, c.sdp))
<1> DEFINE c == ProcessMedia(list, k, mishap)[Len(list)]
<1>1. Len(list) \in 0 .. Len(list)
  OBVIOUS
<1>2. ~c.failed /\ ~c.ended => Matches(c, list, Len(list))
  BY <1>1, ProcessMediaMatches
<1>3. c \in CallRecord
  BY <1>1, ProcessMediaSound DEF Sound
<1> HIDE DEF c
<1>4. ~c.failed /\ ~c.ended => LinesFit(c, Reordered(active, c.sdp))
  BY <1>2, <1>3, MatchesMeans
<1> QED
  BY <1>4 DEF c

-----------------------------------------------------------------------------
(***************************************************************************)
(* What holds of the call in every state.                                  *)
(***************************************************************************)
\* What the variables are.
MediaShape ==
  /\ outgoing \in BOOLEAN /\ in_call \in BOOLEAN /\ waiting \in BOOLEAN /\ astray \in BOOLEAN
  /\ endpoints \in Seq(EndpointRecord)
  /\ media \in [Slots -> Nat] /\ media_count \in Nat /\ SlotsHold(Current)
  /\ local_sdp \in Seq(LineRecord) /\ active \in Seq(LineRecord) /\ offer \in Seq(ItemRecord)
  /\ line \in Nat

\* What is open is on, and in a place of the call or lost.
OpenIsHeld ==
  \A e \in 1 .. Len(endpoints) :
    endpoints[e].open => endpoints[e].on /\ (e \in lost \/ (in_call /\ Holds(Current, e)))

\* A socket is that of an mrcp medium of which the same is true.
SocketIsHeld ==
  asock # "none" /\ ~astray =>
    \E e \in 1 .. Len(endpoints) :
      endpoints[e].type = "mrcp" /\ (e \in lost \/ (in_call /\ HeldBefore(e)))

\* on_media_update() runs when a negotiation is done, and waits only at a line that is on;
\* an offer to be answered begins with the lines of the session.
UpdateInOrder ==
  /\ line > 0 => neg = "done"
  /\ waiting => line \in 1 .. Len(active) /\ active[line].port # 0
  /\ neg = "asked" => offer = <<>> \/ Begins(active, offer, Len(active), Len(offer))

\* The port of a line is that of its place, also when the call has ended meanwhile.
PortsHold ==
  ~astray /\ line > 0 =>
    \A s \in 1 .. Len(active) :
      active[s].port # 0 => active[s].port = media[s] /\ media[s] \in 1 .. Len(endpoints)

\* The places have what the session's lines say; what was made for an offer that is not
\* answered yet fits the lines the session will have; and of the lines that
\* on_media_update() goes through it has turned off what the ones behind it say.
Matched ==
  ~astray /\ in_call =>
    /\ neg \in {"none", "asked", "done"} => LinesFit(Current, active)
    /\ neg \in {"offered", "awaiting"} => LinesFit(Current, Reordered(active, local_sdp))
    /\ line > 0 => LinesFit(Current, active)
    /\ \A s \in 1 .. Len(active) :
         s < line /\ active[s].port = 0 => ~endpoints[media[s]].on

MediaInv == /\ TcpInv /\ MediaShape
            /\ OpenIsHeld /\ SocketIsHeld /\ UpdateInOrder /\ PortsHold /\ Matched

-----------------------------------------------------------------------------
LEMMA CurrentFacts ==
  ASSUME MediaShape
  PROVE  /\ Current \in CallRecord
         /\ Current.eps = endpoints /\ Current.media = media /\ Current.count = media_count
         /\ Current.lost = lost /\ Current.socket = "kept" /\ Current.ended = FALSE
         /\ Current.failed = FALSE
         /\ Len(endpoints) \in Nat /\ endpoints \in Seq(EndpointRecord)
         /\ media_count <= Len(endpoints) /\ Len(endpoints) <= MaxEndpoints
         /\ \A i \in 1 .. media_count : media[i] \in 1 .. Len(endpoints)
         /\ \A i, j \in 1 .. media_count : media[i] = media[j] => i = j
<1>1. /\ endpoints \in Seq(EndpointRecord) /\ media \in [Slots -> Nat] /\ media_count \in Nat
      /\ lost \in SUBSET (lost \cup Nat) /\ SlotsHold(Current)
  BY DEF MediaShape
<1>2. {} \in SUBSET (Nat \ {0}) /\ << >> \in Seq(LineRecord)
  OBVIOUS
<1>3. Current \in CallRecord
  BY <1>1, <1>2 DEF Current, CallRecord
<1> QED
  BY <1>1, <1>3, BoundAssumption DEF Current, SlotsHold

LEMMA CurrentSound ==
  ASSUME MediaShape, OpenIsHeld, in_call
  PROVE  Sound(Current)
<1>1. Current \in CallRecord /\ SlotsHold(Current)
  BY CurrentFacts DEF MediaShape
<1>2. OpenHeld(Current)
  BY CurrentFacts DEF OpenIsHeld, OpenHeld
<1>3. Grown(Current)
  BY CurrentFacts DEF Grown
<1>4. SocketHeld(Current)
  BY CurrentFacts DEF SocketHeld, HeldBefore, Holds
<1>5. Still(Current)
  BY CurrentFacts DEF Still
<1> QED
  BY <1>1, <1>2, <1>3, <1>4, <1>5 DEF Sound

LEMMA SeqElement ==
  ASSUME NEW S, NEW s \in Seq(S), NEW i \in 1 .. Len(s)
  PROVE  s[i] \in S
  OBVIOUS

LEMMA ListsAreItems ==
  /\ \A list \in Lists : list \in Seq(ItemRecord)
  /\ \A list \in Offers : list \in Seq(ItemRecord)
<1>1. ItemRecord = [type : {"audio", "mrcp"}, off : BOOLEAN]
  BY DEF ItemRecord, Kinds
<1> QED
  BY <1>1, ListsAssumption

-----------------------------------------------------------------------------
(***************************************************************************)
(* What the negotiator makes of lines.                                     *)
(***************************************************************************)
LEMMA PartnerLine ==
  ASSUME NEW given, NEW i, given[i].type \in Kinds, NEW mine \in Seq(LineRecord)
  PROVE  Partner(given, i, mine) \in LineRecord
<1>1. Off(given[i].type) \in LineRecord
  BY DEF Off, LineRecord
<1>2. ASSUME Partners(given, i, mine) # {}
      PROVE  mine[CHOOSE j \in Partners(given, i, mine) : TRUE] \in LineRecord
  <2>1. (CHOOSE j \in Partners(given, i, mine) : TRUE) \in Partners(given, i, mine)
    BY <1>2
  <2>2. (CHOOSE j \in Partners(given, i, mine) : TRUE) \in 1 .. Len(mine)
    BY <2>1 DEF Partners
  <2> QED
    BY <2>2
<1> QED
  BY <1>1, <1>2 DEF Partner

LEMMA ReorderedLines ==
  ASSUME NEW old \in Seq(LineRecord), NEW new \in Seq(LineRecord)
  PROVE  Reordered(old, new) \in Seq(LineRecord)
<1> DEFINE more == Added(old, new)
<1>1. Numbered(new, Len(new)) /\ Len(new) \in Nat /\ Len(old) \in Nat
  BY SeqNumbered
<1>2. Places(more) /\ more \subseteq 1 .. Len(new)
  BY <1>1, AddedPlaces
<1>3. UpTo(more, Len(new)) = Cardinality(more)
  BY <1>1, <1>2, UpToWhole
<1>4. Cardinality(more) \in Nat
  BY <1>1, <1>2, <1>3, UpToFinite
<1> DEFINE made(i) == IF i <= Len(old) THEN Partner(old, i, new) ELSE new[Nth(more, i - Len(old))]
<1>5. ASSUME NEW i \in 1 .. Len(old) + Cardinality(more)
      PROVE  made(i) \in LineRecord
  <2>1. CASE i <= Len(old)
    <3>1. old[i] \in LineRecord
      BY <2>1, <1>1
    <3>2. old[i].type \in Kinds
      BY <3>1 DEF LineRecord
    <3> QED
      BY <2>1, <3>2, PartnerLine
  <2>2. CASE ~(i <= Len(old))
    <3>1. i - Len(old) \in 1 .. UpTo(more, Len(new))
      BY <2>2, <1>1, <1>3, <1>4
    <3> HIDE DEF more
    <3>2. Nth(more, i - Len(old)) \in more
      BY <3>1, <1>1, <1>2, NthOf
    <3>3. Nth(more, i - Len(old)) \in 1 .. Len(new)
      BY <3>2, <1>2
    <3>4. new[Nth(more, i - Len(old))] \in LineRecord
      BY <3>3
    <3> QED
      BY <3>4, <2>2
  <2> QED
    BY <2>1, <2>2
<1>6. Reordered(old, new) = [i \in 1 .. Len(old) + Cardinality(more) |-> made(i)]
  BY DEF Reordered
<1>7. Len(old) + Cardinality(more) \in Nat
  BY <1>1, <1>4
<1> HIDE DEF made, more
<1> QED
  BY <1>5, <1>6, <1>7

\* Lines some of which were turned off.
Thinned(given, mine) ==
  /\ DOMAIN given = DOMAIN mine
  /\ \A i \in DOMAIN mine : given[i] \in {mine[i], Off(mine[i].type)}

LEMMA ThinnedFits ==
  ASSUME NEW c, NEW mine, LinesFit(c, mine), NEW given \in Seq(LineRecord), Thinned(given, mine)
  PROVE  LinesFit(c, given)
<1>1. mine \in Seq(LineRecord) /\ Len(mine) = c.count
  BY DEF LinesFit
<1>2. Len(given) = c.count
  BY <1>1 DEF Thinned
<1>3. ASSUME NEW s \in 1 .. c.count
      PROVE  LineFits(c, s, given[s])
  <2>1. LineFits(c, s, mine[s])
    BY DEF LinesFit
  <2>2. given[s] = mine[s] \/ given[s] = Off(mine[s].type)
    BY <1>1 DEF Thinned
  <2> QED
    BY <2>1, <2>2 DEF LineFits, Off
<1> QED
  BY <1>2, <1>3 DEF LinesFit

LEMMA AnswerIs ==
  ASSUME NEW theirs \in Seq(ItemRecord), NEW mine
  PROVE  /\ Len(theirs) \in Nat
         /\ Answer(theirs, mine) = [i \in 1 .. Len(theirs) |->
              IF theirs[i].off THEN Off(theirs[i].type) ELSE Partner(theirs, i, mine)]
  BY DEF Answer

LEMMA ItemKind ==
  ASSUME NEW theirs \in Seq(ItemRecord), NEW i \in 1 .. Len(theirs)
  PROVE  theirs[i].type \in Kinds
<1>1. theirs[i] \in ItemRecord
  BY SeqElement
<1> QED
  BY <1>1 DEF ItemRecord

LEMMA AnswerLine ==
  ASSUME NEW theirs \in Seq(ItemRecord), NEW mine \in Seq(LineRecord), NEW i \in 1 .. Len(theirs)
  PROVE  (IF theirs[i].off THEN Off(theirs[i].type) ELSE Partner(theirs, i, mine)) \in LineRecord
<1>1. theirs[i].type \in Kinds
  BY ItemKind
<1>2. Off(theirs[i].type) \in LineRecord
  BY <1>1 DEF Off, LineRecord
<1>3. Partner(theirs, i, mine) \in LineRecord
  BY <1>1, PartnerLine
<1> QED
  BY <1>2, <1>3

LEMMA AnswerTyped ==
  ASSUME NEW theirs \in Seq(ItemRecord), NEW mine \in Seq(LineRecord)
  PROVE  Answer(theirs, mine) \in Seq(LineRecord)
<1> DEFINE made(i) == IF theirs[i].off THEN Off(theirs[i].type) ELSE Partner(theirs, i, mine)
<1>1. \A i \in 1 .. Len(theirs) : made(i) \in LineRecord
  BY AnswerLine
<1>2. Answer(theirs, mine) = [i \in 1 .. Len(theirs) |-> made(i)] /\ Len(theirs) \in Nat
  BY AnswerIs
<1> HIDE DEF made
<1> QED
  BY <1>1, <1>2

LEMMA AnswerThins ==
  ASSUME NEW theirs \in Seq(ItemRecord), NEW mine \in Seq(LineRecord),
         Begins(theirs, mine, Len(theirs), Len(mine)), Len(mine) = Len(theirs)
  PROVE  Thinned(Answer(theirs, mine), mine)
<1>1. ASSUME NEW i \in 1 .. Len(theirs)
      PROVE  Partner(theirs, i, mine) = mine[i] /\ theirs[i].type = mine[i].type
  <2>1. Partners(theirs, i, mine) = {i}
    BY BeginsPartners
  <2> QED
    BY <2>1 DEF Partner, Begins
<1>2. DOMAIN mine = 1 .. Len(theirs)
  OBVIOUS
<1> QED
  BY AnswerIs, <1>1, <1>2 DEF Thinned

LEMMA TypesBegin ==
  ASSUME NEW S, NEW T, NEW a \in Seq(S), NEW b \in Seq(T)
  PROVE  /\ IsPrefix(Types(a), Types(b)) => Begins(a, b, Len(a), Len(b))
         /\ Types(a) = Types(b) =>
              /\ Len(a) = Len(b)
              /\ \A i \in 1 .. Len(a) : a[i].type = b[i].type
<1>1. /\ DOMAIN a = 1 .. Len(a) /\ Len(a) \in Nat
      /\ DOMAIN b = 1 .. Len(b) /\ Len(b) \in Nat
  OBVIOUS
<1>2. /\ Types(a) = [i \in 1 .. Len(a) |-> a[i].type]
      /\ Types(b) = [i \in 1 .. Len(b) |-> b[i].type]
  BY <1>1 DEF Types
<1>3. Len(Types(a)) = Len(a) /\ Len(Types(b)) = Len(b)
  BY <1>1, <1>2
<1>4. ASSUME IsPrefix(Types(a), Types(b))
      PROVE  Begins(a, b, Len(a), Len(b))
  <2>1. /\ Len(Types(a)) <= Len(Types(b))
        /\ SubSeq(Types(a), 1, Len(Types(a))) = SubSeq(Types(b), 1, Len(Types(a)))
    BY <1>4 DEF IsPrefix
  <2>2. Len(a) <= Len(b) /\ SubSeq(Types(a), 1, Len(a)) = SubSeq(Types(b), 1, Len(a))
    BY <2>1, <1>3
  <2>3. ASSUME NEW i \in 1 .. Len(a)
        PROVE  a[i].type = b[i].type
    <3>1. SubSeq(Types(a), 1, Len(a))[i] = Types(a)[i]
      BY <1>1 DEF SubSeq
    <3>2. SubSeq(Types(b), 1, Len(a))[i] = Types(b)[i]
      BY <1>1 DEF SubSeq
    <3>3. Types(a)[i] = a[i].type
      BY <1>2
    <3>4. i \in 1 .. Len(b)
      BY <2>2, <1>1
    <3>5. Types(b)[i] = b[i].type
      BY <3>4, <1>2
    <3> QED
      BY <2>2, <3>1, <3>2, <3>3, <3>5
  <2> QED
    BY <2>2, <2>3, <1>1 DEF Begins, Numbered
<1>5. ASSUME Types(a) = Types(b)
      PROVE  Len(a) = Len(b) /\ \A i \in 1 .. Len(a) : a[i].type = b[i].type
  <2>1. Len(a) = Len(b)
    BY <1>5, <1>3
  <2>2. ASSUME NEW i \in 1 .. Len(a)
        PROVE  a[i].type = b[i].type
    <3>1. Types(a)[i] = a[i].type
      BY <1>2
    <3>2. Types(b)[i] = b[i].type
      BY <2>1, <1>2
    <3> QED
      BY <3>1, <3>2, <1>5
  <2> QED
    BY <2>1, <2>2
<1> QED
  BY <1>4, <1>5

-----------------------------------------------------------------------------
(***************************************************************************)
(* The table of endpoints, their transports and the socket, of which an    *)
(* action leaves what it should.                                           *)
(***************************************************************************)
TableShape ==
  /\ endpoints \in Seq(EndpointRecord)
  /\ media \in [Slots -> Nat] /\ media_count \in Nat /\ SlotsHold(Current)

\* What a command made of the media, for the items of the list.
Made(c, list) ==
  /\ Sound(c) /\ list \in Seq(ItemRecord)
  /\ ~c.failed /\ ~c.ended /\ SlotsLike(Current) => Matches(c, list, Len(list))

LEMMA CommandMakes ==
  ASSUME MediaInv, in_call, NEW list \in Lists, NEW k, NEW mishap,
         \A n \in DOMAIN list : Len(ProcessMedia(list, k, mishap)[n].eps) <= MaxEndpoints
  PROVE  Made(ProcessMedia(list, k, mishap)[Len(list)], list)
<1> DEFINE c == ProcessMedia(list, k, mishap)[Len(list)]
<1>1. list \in Seq(ItemRecord) /\ Len(list) \in Nat /\ DOMAIN list = 1 .. Len(list)
  BY ListsAreItems
<1>2. Sound(Current) /\ active \in Seq(LineRecord)
  BY CurrentSound DEF MediaInv, MediaShape
<1>3. \A n \in 1 .. Len(list) : Len(ProcessMedia(list, k, mishap)[n].eps) <= MaxEndpoints
  BY <1>1
<1>4. Len(list) \in 0 .. Len(list)
  BY <1>1
<1>5. Sound(c)
  BY <1>1, <1>2, <1>3, <1>4, ProcessMediaSound
<1>6. ASSUME SlotsLike(Current)
      PROVE  ~c.failed /\ ~c.ended => Matches(c, list, Len(list))
  BY <1>1, <1>2, <1>3, <1>4, <1>6, ProcessMediaMatches
<1> QED
  BY <1>1, <1>5, <1>6 DEF Made

LEMMA TableOf ==
  ASSUME NEW c, c \in CallRecord, SlotsHold(c),
         endpoints' = c.eps, media' = c.media, media_count' = c.count
  PROVE  TableShape'
<1>1. c.eps \in Seq(EndpointRecord) /\ c.media \in [Slots -> Nat] /\ c.count \in Nat
  BY RecordEffects
<1>2. SlotsHold(Current)'
  BY DEF SlotsHold, Current
<1>3. Slots' = Slots
  BY DEF Slots
<1> QED
  BY <1>1, <1>2, <1>3 DEF TableShape

LEMMA BecomesHolds ==
  ASSUME MediaInv, in_call, NEW c, Sound(c), Becomes(c), in_call' = ~c.ended, astray => astray'
  PROVE  /\ TcpInv' /\ TableShape' /\ local_sdp' \in Seq(LineRecord)
         /\ OpenIsHeld' /\ SocketIsHeld'
<1>1. /\ endpoints' = c.eps /\ media' = c.media /\ media_count' = c.count /\ lost' = c.lost
      /\ local_sdp' = IF c.failed THEN local_sdp ELSE c.sdp
  BY DEF Becomes
<1>2. c \in CallRecord /\ SlotsHold(c) /\ OpenHeld(c) /\ Grown(c) /\ SocketHeld(c)
  BY DEF Sound
<1>3. c.socket \in {"kept", "listening", "closed"} /\ c.sdp \in Seq(LineRecord)
      /\ c.ended \in BOOLEAN /\ Len(c.eps) \in Nat
  BY <1>2, RecordEffects
<1>4. \/ c.socket = "listening" /\ Listen
      \/ c.socket = "closed" /\ CloseSocket
      \/ c.socket = "kept" /\ UNCHANGED tcp
  BY <1>3 DEF Becomes
<1>5. TcpInv'
  BY <1>4, TcpInvStep DEF TcpMoves, MediaInv
<1>6. TableShape'
  BY <1>1, <1>2, TableOf
<1>7. local_sdp' \in Seq(LineRecord)
  BY <1>1, <1>3 DEF MediaInv, MediaShape
<1>8. OpenIsHeld'
  <2> SUFFICES ASSUME NEW e \in 1 .. Len(endpoints'), endpoints'[e].open
               PROVE  endpoints'[e].on /\ (e \in lost' \/ (in_call' /\ Holds(Current, e)'))
    BY DEF OpenIsHeld
  <2>1. c.eps[e].on /\ (e \in c.lost \/ (~c.ended /\ Holds(c, e)))
    BY <1>1, <1>2 DEF OpenHeld
  <2>2. Holds(c, e) => Holds(Current, e)'
    BY <1>1 DEF Holds, Current
  <2> QED
    BY <1>1, <2>1, <2>2
<1>9. SocketIsHeld'
  <2> SUFFICES ASSUME asock' # "none", ~astray'
               PROVE  \E e \in 1 .. Len(endpoints') :
                        /\ endpoints'[e].type = "mrcp"
                        /\ e \in lost' \/ (in_call' /\ HeldBefore(e)')
    BY DEF SocketIsHeld
  <2>1. \A e : c.eps[e].on /\ Holds(c, e) => HeldBefore(e)'
    BY <1>1 DEF Holds, HeldBefore
  <2>2. CASE c.socket = "listening"
    <3>1. PICK e \in 1 .. Len(c.eps) :
            /\ c.eps[e].type = "mrcp"
            /\ e \in c.lost \/ (~c.ended /\ c.eps[e].on /\ Holds(c, e))
      BY <1>2, <2>2 DEF SocketHeld
    <3> QED
      BY <1>1, <2>1, <3>1
  <2>3. CASE c.socket = "closed"
    BY <1>4, <2>3 DEF CloseSocket
  <2>4. CASE c.socket = "kept"
    <3>1. asock # "none" /\ ~astray
      BY <1>4, <2>4 DEF tcp
    <3>2. SocketIsHeld
      BY DEF MediaInv
    <3>3. PICK e \in 1 .. Len(endpoints) :
            endpoints[e].type = "mrcp" /\ (e \in lost \/ (in_call /\ HeldBefore(e)))
      BY <3>1, <3>2 DEF SocketIsHeld
    <3>4. Len(endpoints) \in Nat
      BY CurrentFacts DEF MediaInv
    <3>5. e \in 1 .. Len(c.eps) /\ c.eps[e].type = "mrcp" /\ (e \in lost => e \in c.lost)
      BY <1>2, <1>3, <3>3, <3>4 DEF Grown
    <3>6. ~c.ended /\ (HeldBefore(e) => c.eps[e].on /\ Holds(c, e))
      BY <1>2, <2>4, <3>3 DEF SocketHeld
    <3> QED
      BY <1>1, <2>1, <3>3, <3>5, <3>6
  <2> QED
    BY <1>3, <2>2, <2>3, <2>4
<1> QED
  BY <1>5, <1>6, <1>7, <1>8, <1>9

\* The call is closed, with all of its media.
LEMMA ClosedHolds ==
  ASSUME NEW c, c \in CallRecord, SlotsHold(c),
         \A e \in 1 .. Len(c.eps) :
           c.eps[e].open => c.eps[e].on /\ (e \in c.lost \/ Holds(c, e)),
         endpoints' = CloseMedia(c).eps, media' = CloseMedia(c).media,
         media_count' = CloseMedia(c).count, lost' = c.lost, CloseSocket
  PROVE  TableShape' /\ OpenIsHeld' /\ SocketIsHeld'
<1> DEFINE d == CloseMedia(c)
<1>1. /\ d \in CallRecord /\ d.count = 0 /\ d.media = c.media /\ Len(d.eps) = Len(c.eps)
      /\ \A e \in 1 .. Len(c.eps) :
           /\ d.eps[e].type = c.eps[e].type
           /\ d.eps[e].on = (c.eps[e].on /\ ~Holds(c, e))
           /\ d.eps[e].open = (c.eps[e].open /\ ~Holds(c, e))
  BY ClosedFacts
<1>2. SlotsHold(d)
  BY <1>1, RecordEffects DEF SlotsHold
<1>3. endpoints' = d.eps /\ media' = d.media /\ media_count' = d.count
  OBVIOUS
<1> HIDE DEF d
<1>4. TableShape'
  BY <1>1, <1>2, <1>3, TableOf
<1>5. OpenIsHeld'
  <2> SUFFICES ASSUME NEW e \in 1 .. Len(endpoints'), endpoints'[e].open
               PROVE  endpoints'[e].on /\ e \in lost'
    BY DEF OpenIsHeld
  <2>1. e \in 1 .. Len(c.eps)
    BY <1>1, <1>3
  <2>2. c.eps[e].open = TRUE /\ ~Holds(c, e)
    <3>1. c.eps[e] \in EndpointRecord
      BY <2>1, RecordEffects
    <3>2. c.eps[e].open \in BOOLEAN
      BY <3>1 DEF EndpointRecord
    <3>3. d.eps[e].open = (c.eps[e].open /\ ~Holds(c, e))
      BY <1>1, <2>1
    <3> QED
      BY <1>3, <3>2, <3>3
  <2>3. d.eps[e].on = (c.eps[e].on /\ ~Holds(c, e))
    BY <1>1, <2>1
  <2> QED
    BY <1>3, <2>1, <2>2, <2>3
<1>6. SocketIsHeld'
  BY DEF SocketIsHeld, CloseSocket
<1> QED
  BY <1>4, <1>5, <1>6

\* An action that leaves the table alone.
LEMMA TableStays ==
  ASSUME MediaInv, UNCHANGED <<table, lost, in_call>>,
         asock' # "none" => asock # "none", astray => astray'
  PROVE  TableShape' /\ OpenIsHeld' /\ SocketIsHeld'
<1>1. TableShape /\ OpenIsHeld /\ SocketIsHeld
  BY DEF MediaInv, MediaShape, TableShape
<1>2. /\ endpoints' = endpoints /\ media' = media /\ media_count' = media_count
      /\ lost' = lost /\ in_call' = in_call
  BY DEF table
<1>3. TableShape'
  BY <1>1, <1>2 DEF TableShape, SlotsHold, Current, Slots
<1>4. OpenIsHeld'
  BY <1>1, <1>2 DEF OpenIsHeld, Holds, Current
<1>5. SocketIsHeld'
  BY <1>1, <1>2 DEF SocketIsHeld, HeldBefore
<1> QED
  BY <1>3, <1>4, <1>5

-----------------------------------------------------------------------------
(***************************************************************************)
(* The steps of the call, one lemma for each action.                       *)
(***************************************************************************)

\* The rest of the shape.
OthersShape ==
  /\ outgoing \in BOOLEAN /\ in_call \in BOOLEAN /\ waiting \in BOOLEAN /\ astray \in BOOLEAN
  /\ local_sdp \in Seq(LineRecord) /\ active \in Seq(LineRecord) /\ offer \in Seq(ItemRecord)
  /\ line \in Nat

LEMMA ShapeIs == MediaShape <=> TableShape /\ OthersShape
  BY DEF MediaShape, TableShape, OthersShape

LEMMA ShapeNext == TableShape' /\ OthersShape' => MediaShape'
  BY DEF MediaShape, TableShape, OthersShape

LEMMA FitsNext ==
  ASSUME NEW c, endpoints' = c.eps, media' = c.media, media_count' = c.count
  PROVE  /\ \A given : LinesFit(c, given) => LinesFit(Current', given)
         /\ \A given : LinesFit(Current', given) => LinesFit(c, given)
<1>1. Current'.eps = c.eps /\ Current'.media = c.media /\ Current'.count = c.count
  BY DEF Current
<1> QED
  BY <1>1 DEF LinesFit, LineFits

LEMMA FitsStays ==
  ASSUME UNCHANGED table
  PROVE  \A given : LinesFit(Current, given) <=> LinesFit(Current', given)
<1>1. endpoints' = Current.eps /\ media' = Current.media /\ media_count' = Current.count
  BY DEF table, Current
<1> QED
  BY <1>1, FitsNext

\* A negotiation has succeeded.
LEMMA NegotiatedHolds ==
  ASSUME MediaInv, TableShape', active' \in Seq(LineRecord), Idle,
         line' = 1, neg' = "done", waiting' = waiting, astray' \in BOOLEAN,
         ~astray' => LinesFit(Current', active')
  PROVE  UpdateInOrder' /\ PortsHold' /\ Matched'
<1>1. UpdateInOrder'
  BY DEF MediaInv, UpdateInOrder, Idle
<1>2. ASSUME ~astray'
      PROVE  /\ LinesFit(Current', active')
             /\ \A s \in 1 .. Len(active') :
                  active'[s].port # 0 =>
                    active'[s].port = media'[s] /\ media'[s] \in 1 .. Len(endpoints')
  <2>1. /\ Len(active') = media_count'
        /\ \A s \in 1 .. media_count' :
             /\ endpoints'[media'[s]].type = active'[s].type
             /\ active'[s].port # 0 => active'[s].port = media'[s]
    BY <1>2 DEF LinesFit, LineFits, Current
  <2>2. \A s \in 1 .. media_count' : media'[s] \in 1 .. Len(endpoints')
    BY DEF TableShape, SlotsHold, Current
  <2> QED
    BY <1>2, <2>1, <2>2
<1>3. PortsHold'
  BY <1>2 DEF PortsHold
<1>4. Matched'
  <2>1. \A s \in 1 .. Len(active') : ~(s < line')
    OBVIOUS
  <2> QED
    BY <1>2, <2>1 DEF Matched
<1> QED
  BY <1>1, <1>3, <1>4

-----------------------------------------------------------------------------
LEMMA CallCreateStep ==
  ASSUME MediaInv, CallCreate
  PROVE  MediaInv'
<1>1. PICK list, k, mishap :
        /\ list \in Lists
        /\ \A n \in DOMAIN list : Len(ProcessMedia(list, k, mishap)[n].eps) <= MaxEndpoints
        /\ LET c == ProcessMedia(list, k, mishap)[Len(list)]
           IN  /\ ~c.ended
               /\ Becomes(IF c.failed THEN CloseMedia(c) ELSE c)
               /\ in_call' = ~c.failed
               /\ IF c.failed THEN UNCHANGED neg ELSE neg' \in {"offered", "awaiting"}
  BY DEF CallCreate, Command
<1> DEFINE c == ProcessMedia(list, k, mishap)[Len(list)]
<1>2. /\ in_call /\ line = 0 /\ outgoing /\ neg = "none"
      /\ UNCHANGED <<outgoing, offer, active, line, waiting, astray>>
  BY DEF CallCreate, Command, Idle, update
<1>3. Made(c, list)
  BY <1>1, <1>2, CommandMakes
<1>4. /\ ~c.ended /\ Becomes(IF c.failed THEN CloseMedia(c) ELSE c) /\ in_call' = ~c.failed
      /\ IF c.failed THEN UNCHANGED neg ELSE neg' \in {"offered", "awaiting"}
  BY <1>1
<1> HIDE DEF c
<1>5. c \in CallRecord /\ SlotsHold(c) /\ OpenHeld(c) /\ Sound(c)
  BY <1>3 DEF Made, Sound
<1>6. c.failed \in BOOLEAN /\ c.sdp \in Seq(LineRecord)
  BY <1>5, RecordEffects
<1>7. OthersShape /\ UpdateInOrder /\ Matched
  BY ShapeIs DEF MediaInv
<1>8. PortsHold'
  BY <1>2 DEF PortsHold
<1>9. CASE c.failed
  <2> DEFINE d == CloseMedia(c)
  <2>1. d.socket = "closed" /\ d.lost = c.lost /\ d.failed = c.failed
    BY <1>5, ClosedFacts
  <2>2. Becomes(d)
    BY <1>4, <1>9
  <2>3. /\ endpoints' = d.eps /\ media' = d.media /\ media_count' = d.count
        /\ lost' = c.lost /\ local_sdp' = local_sdp /\ CloseSocket
    <3> HIDE DEF d
    <3> QED
      BY <1>9, <2>1, <2>2 DEF Becomes
  <2>4. \A e \in 1 .. Len(c.eps) :
          c.eps[e].open => c.eps[e].on /\ (e \in c.lost \/ Holds(c, e))
    BY <1>5 DEF OpenHeld
  <2>5. TableShape' /\ OpenIsHeld' /\ SocketIsHeld'
    BY <1>5, <2>3, <2>4, ClosedHolds
  <2>6. TcpInv'
    BY <2>3, TcpInvStep DEF TcpMoves, MediaInv
  <2>7. OthersShape'
    BY <1>2, <1>4, <1>7, <1>9, <2>3 DEF OthersShape
  <2>8. UpdateInOrder'
    BY <1>2, <1>4, <1>7, <1>9 DEF UpdateInOrder
  <2>9. Matched'
    BY <1>4, <1>9 DEF Matched
  <2> QED
    BY <1>8, <2>5, <2>6, <2>7, <2>8, <2>9, ShapeNext DEF MediaInv
<1>10. CASE ~c.failed
  <2>1. Becomes(c) /\ in_call' = TRUE /\ neg' \in {"offered", "awaiting"}
    BY <1>4, <1>10
  <2>2. in_call' = ~c.ended /\ (astray => astray')
    BY <1>2, <1>4, <2>1
  <2>3. TcpInv' /\ TableShape' /\ local_sdp' \in Seq(LineRecord) /\ OpenIsHeld' /\ SocketIsHeld'
    BY <1>2, <1>5, <2>1, <2>2, BecomesHolds
  <2>4. OthersShape'
    BY <1>2, <1>7, <2>1, <2>3 DEF OthersShape
  <2>5. UpdateInOrder'
    BY <1>2, <1>7, <2>1 DEF UpdateInOrder
  <2>6. Matched'
    <3> SUFFICES ASSUME ~astray'
                 PROVE  LinesFit(Current', Reordered(active', local_sdp'))
      BY <1>2, <2>1 DEF Matched
    <3>1. SlotsLike(Current)
      BY <1>2, <1>7, FitsLike DEF Matched
    <3>2. Matches(c, list, Len(list)) /\ list \in Seq(ItemRecord)
      BY <1>3, <1>4, <1>10, <3>1 DEF Made
    <3>3. LinesFit(c, Reordered(active, c.sdp))
      BY <1>5, <1>7, <3>2, MatchesMeans DEF OthersShape
    <3>4. /\ endpoints' = c.eps /\ media' = c.media /\ media_count' = c.count
          /\ local_sdp' = c.sdp
      BY <1>10, <2>1 DEF Becomes
    <3>5. LinesFit(Current', Reordered(active, c.sdp))
      BY <3>3, <3>4, FitsNext
    <3>6. Reordered(active', local_sdp') = Reordered(active, c.sdp)
      BY <1>2, <3>4
    <3> QED
      BY <3>5, <3>6
  <2> QED
    BY <1>8, <2>3, <2>4, <2>5, <2>6, ShapeNext DEF MediaInv
<1> QED
  BY <1>6, <1>9, <1>10

\* Lines of the types of the session in front, in whose places the media of the call are.
LEMMA BegunFits ==
  ASSUME active \in Seq(LineRecord), NEW mine \in Seq(LineRecord),
         Begins(active, mine, Len(active), Len(mine))
  PROVE  Reordered(active, mine) = mine
<1>1. Reordered(active, mine) = [i \in 1 .. Len(mine) |-> mine[i]]
  BY BeginsReordered
<1> QED
  BY <1>1

\* An offer of the types of our lines is answered by these.
LEMMA AnswerFits ==
  ASSUME active \in Seq(LineRecord), NEW c, NEW mine \in Seq(LineRecord),
         NEW theirs \in Seq(ItemRecord),
         Begins(active, theirs, Len(active), Len(theirs)),
         Len(theirs) = Len(mine),
         \A i \in 1 .. Len(theirs) : theirs[i].type = mine[i].type,
         LinesFit(c, Reordered(active, mine))
  PROVE  LinesFit(c, Answer(theirs, mine))
<1>1. Len(mine) \in Nat /\ DOMAIN mine = 1 .. Len(mine) /\ DOMAIN theirs = 1 .. Len(mine)
  OBVIOUS
<1>2. Begins(active, mine, Len(active), Len(mine))
  BY <1>1 DEF Begins, Numbered
<1>3. Begins(theirs, mine, Len(theirs), Len(mine))
  BY <1>1 DEF Begins, Numbered
<1>4. LinesFit(c, mine)
  BY <1>2, BegunFits
<1>5. Thinned(Answer(theirs, mine), mine)
  BY <1>3, AnswerThins
<1>6. Answer(theirs, mine) \in Seq(LineRecord)
  BY AnswerTyped
<1> QED
  BY <1>4, <1>5, <1>6, ThinnedFits

\* Nothing was made: all is as it was.
LEMMA StillHolds ==
  ASSUME MediaInv, NEW c, Sound(c), Becomes(c), ~Leaves(c), ~c.ended
  PROVE  UNCHANGED table
<1>1. c.eps = endpoints /\ c.media = media
  BY DEF Leaves
<1>2. c.count = media_count
  BY <1>1 DEF Sound, Still
<1> QED
  BY <1>1, <1>2 DEF Becomes, table

LEMMA RespondStep ==
  ASSUME MediaInv, Respond
  PROVE  MediaInv'
<1>1. PICK list, k, mishap :
        /\ list \in Lists
        /\ \A n \in DOMAIN list : Len(ProcessMedia(list, k, mishap)[n].eps) <= MaxEndpoints
        /\ LET c == ProcessMedia(list, k, mishap)[Len(list)]
           IN  /\ Becomes(c)
               /\ in_call' = ~c.ended
               /\ CASE c.failed \/ c.ended ->
                         /\ astray' = (astray \/ Leaves(c))
                         /\ UNCHANGED <<neg, offer, active, update>>
                    [] ~c.failed /\ ~c.ended /\ offer = <<>> ->
                         /\ neg' = "offered"
                         /\ UNCHANGED <<offer, active, update, astray>>
                    [] OTHER ->
                         /\ Negotiated(Answer(offer, c.sdp))
                         /\ astray' = (astray \/ Types(list) # Types(offer))
  BY DEF Respond, Command
<1> DEFINE c == ProcessMedia(list, k, mishap)[Len(list)]
<1>2. /\ in_call /\ line = 0 /\ Idle /\ neg = "asked" /\ UNCHANGED outgoing
  BY DEF Respond, Command, Idle
<1>3. Made(c, list)
  BY <1>1, <1>2, CommandMakes
<1>4. /\ Becomes(c)
      /\ in_call' = ~c.ended
      /\ \/ /\ c.failed \/ c.ended
            /\ astray' = (astray \/ Leaves(c))
            /\ UNCHANGED <<neg, offer, active, update>>
         \/ /\ ~c.failed /\ ~c.ended /\ offer = <<>>
            /\ neg' = "offered"
            /\ UNCHANGED <<offer, active, update, astray>>
         \/ /\ ~c.failed /\ ~c.ended /\ offer # <<>>
            /\ Negotiated(Answer(offer, c.sdp))
            /\ astray' = (astray \/ Types(list) # Types(offer))
  <2> HIDE DEF c
  <2>1. /\ Becomes(c)
        /\ in_call' = ~c.ended
        /\ CASE c.failed \/ c.ended ->
                  /\ astray' = (astray \/ Leaves(c))
                  /\ UNCHANGED <<neg, offer, active, update>>
             [] ~c.failed /\ ~c.ended /\ offer = <<>> ->
                  /\ neg' = "offered"
                  /\ UNCHANGED <<offer, active, update, astray>>
             [] OTHER ->
                  /\ Negotiated(Answer(offer, c.sdp))
                  /\ astray' = (astray \/ Types(list) # Types(offer))
    BY <1>1 DEF c
  <2>2. CASE c.failed \/ c.ended
    BY <2>1, <2>2
  <2>3. CASE ~c.failed /\ ~c.ended /\ offer = <<>>
    BY <2>1, <2>3
  <2>4. CASE ~c.failed /\ ~c.ended /\ offer # <<>>
    BY <2>1, <2>4
  <2> QED
    BY <2>2, <2>3, <2>4
<1> HIDE DEF c
<1>5. c \in CallRecord /\ SlotsHold(c) /\ Sound(c)
  BY <1>3 DEF Made, Sound
<1>6. c.failed \in BOOLEAN /\ c.ended \in BOOLEAN /\ c.sdp \in Seq(LineRecord)
  BY <1>5, RecordEffects
<1>7. OthersShape /\ UpdateInOrder /\ Matched
  BY ShapeIs DEF MediaInv
<1>8. astray' \in BOOLEAN /\ (astray => astray')
  BY <1>4, <1>7 DEF OthersShape
<1>9. TcpInv' /\ TableShape' /\ local_sdp' \in Seq(LineRecord) /\ OpenIsHeld' /\ SocketIsHeld'
  BY <1>2, <1>4, <1>5, <1>8, BecomesHolds
<1>10. CASE /\ c.failed \/ c.ended
            /\ astray' = (astray \/ Leaves(c))
            /\ UNCHANGED <<neg, offer, active, update>>
  <2>1. UNCHANGED <<neg, offer, active, line, waiting>>
    BY <1>10 DEF update
  <2>2. OthersShape'
    BY <1>2, <1>4, <1>6, <1>7, <1>8, <1>9, <2>1 DEF OthersShape
  <2>3. UpdateInOrder' /\ PortsHold'
    BY <1>2, <1>7, <2>1 DEF UpdateInOrder, PortsHold
  <2>4. Matched'
    <3> SUFFICES ASSUME ~astray', in_call'
                 PROVE  LinesFit(Current', active')
      BY <1>2, <2>1 DEF Matched
    <3>1. ~astray /\ ~Leaves(c) /\ ~c.ended
      BY <1>4, <1>10
    <3>2. UNCHANGED table
      BY <1>4, <1>5, <3>1, StillHolds
    <3>3. LinesFit(Current, active)
      BY <1>2, <1>7, <3>1 DEF Matched
    <3> QED
      BY <2>1, <3>2, <3>3, FitsStays
  <2> QED
    BY <1>9, <2>2, <2>3, <2>4, ShapeNext DEF MediaInv
<1> DEFINE made == ~c.failed /\ ~c.ended
<1>11. ASSUME made, ~astray
       PROVE  /\ LinesFit(c, Reordered(active, c.sdp))
              /\ Len(c.sdp) = Len(list) /\ list \in Seq(ItemRecord)
              /\ \A j \in 1 .. Len(list) : c.sdp[j].type = list[j].type
  <2>1. SlotsLike(Current)
    BY <1>2, <1>7, <1>11, FitsLike DEF Matched
  <2>2. Matches(c, list, Len(list)) /\ list \in Seq(ItemRecord)
    BY <1>3, <1>11, <2>1 DEF Made
  <2>3. LinesFit(c, Reordered(active, c.sdp))
    BY <1>5, <1>7, <2>2, MatchesMeans DEF OthersShape
  <2> QED
    BY <2>2, <2>3 DEF Matches
<1>12. made => endpoints' = c.eps /\ media' = c.media /\ media_count' = c.count
               /\ local_sdp' = c.sdp
  BY <1>4 DEF Becomes
<1>13. CASE /\ made /\ offer = <<>>
            /\ neg' = "offered"
            /\ UNCHANGED <<offer, active, update, astray>>
  <2>1. UNCHANGED <<offer, active, line, waiting, astray>>
    BY <1>13 DEF update
  <2>2. OthersShape'
    BY <1>2, <1>4, <1>6, <1>7, <1>8, <1>9, <2>1 DEF OthersShape
  <2>3. UpdateInOrder' /\ PortsHold'
    BY <1>2, <1>7, <1>13, <2>1 DEF UpdateInOrder, PortsHold
  <2>4. Matched'
    <3> SUFFICES ASSUME ~astray'
                 PROVE  LinesFit(Current', Reordered(active', local_sdp'))
      BY <1>2, <1>13, <2>1 DEF Matched
    <3>1. LinesFit(c, Reordered(active, c.sdp))
      BY <1>11, <1>13, <2>1
    <3>2. LinesFit(Current', Reordered(active, c.sdp))
      BY <1>12, <1>13, <3>1, FitsNext
    <3>3. Reordered(active', local_sdp') = Reordered(active, c.sdp)
      BY <1>12, <1>13, <2>1
    <3> QED
      BY <3>2, <3>3
  <2> QED
    BY <1>9, <2>2, <2>3, <2>4, ShapeNext DEF MediaInv
<1>14. CASE /\ made /\ offer # <<>>
            /\ Negotiated(Answer(offer, c.sdp))
            /\ astray' = (astray \/ Types(list) # Types(offer))
  <2>1. /\ active' = Answer(offer, c.sdp) /\ neg' = "done" /\ line' = 1
        /\ offer' = offer /\ waiting' = waiting
    BY <1>14 DEF Negotiated
  <2>2. offer \in Seq(ItemRecord) /\ active \in Seq(LineRecord)
    BY <1>7 DEF OthersShape
  <2>3. active' \in Seq(LineRecord)
    BY <1>6, <2>1, <2>2, AnswerTyped
  <2>4. OthersShape'
    BY <1>2, <1>4, <1>6, <1>7, <1>8, <1>9, <2>1, <2>3 DEF OthersShape
  <2>5. ASSUME ~astray'
        PROVE  LinesFit(Current', active')
    <3>1. ~astray /\ Types(list) = Types(offer)
      BY <1>14, <2>5
    <3>2. /\ LinesFit(c, Reordered(active, c.sdp))
          /\ Len(c.sdp) = Len(list) /\ list \in Seq(ItemRecord)
          /\ \A j \in 1 .. Len(list) : c.sdp[j].type = list[j].type
      BY <1>11, <1>14, <3>1
    <3>3. Len(list) = Len(offer) /\ \A j \in 1 .. Len(list) : list[j].type = offer[j].type
      BY <2>2, <3>1, <3>2, TypesBegin
    <3>4. Len(offer) = Len(c.sdp) /\ \A j \in 1 .. Len(offer) : offer[j].type = c.sdp[j].type
      BY <3>2, <3>3
    <3>5. Begins(active, offer, Len(active), Len(offer))
      BY <1>2, <1>7, <1>14 DEF UpdateInOrder
    <3>6. LinesFit(c, Answer(offer, c.sdp))
      BY <1>6, <2>2, <3>2, <3>4, <3>5, AnswerFits
    <3> QED
      BY <1>12, <1>14, <2>1, <3>6, FitsNext
  <2>6. UpdateInOrder' /\ PortsHold' /\ Matched'
    BY <1>2, <1>8, <1>9, <2>1, <2>3, <2>5, NegotiatedHolds
  <2> QED
    BY <1>9, <2>4, <2>6, ShapeNext DEF MediaInv
<1> QED
  BY <1>4, <1>10, <1>13, <1>14

LEMMA ReinviteStep ==
  ASSUME MediaInv, Reinvite
  PROVE  MediaInv'
<1>1. PICK list, k, mishap :
        /\ list \in Lists
        /\ \A n \in DOMAIN list : Len(ProcessMedia(list, k, mishap)[n].eps) <= MaxEndpoints
        /\ LET c == ProcessMedia(list, k, mishap)[Len(list)]
               sent_off == ~c.failed /\ ~c.ended /\ neg = "done"
           IN  /\ Becomes(c)
               /\ in_call' = ~c.ended
               /\ IF sent_off THEN neg' \in {"offered", "awaiting"} ELSE UNCHANGED neg
               /\ astray' = (astray \/ (~sent_off /\ (Leaves(c) \/ c.sdp # local_sdp)))
  BY DEF Reinvite, Command
<1> DEFINE c == ProcessMedia(list, k, mishap)[Len(list)]
           sent_off == ~c.failed /\ ~c.ended /\ neg = "done"
<1>2. /\ in_call /\ line = 0 /\ Idle /\ neg # "none"
      /\ UNCHANGED <<outgoing, offer, active, line, waiting>>
  BY DEF Reinvite, Command, Idle, update
<1>3. Made(c, list)
  BY <1>1, <1>2, CommandMakes
<1>4. /\ Becomes(c)
      /\ in_call' = ~c.ended
      /\ IF sent_off THEN neg' \in {"offered", "awaiting"} ELSE UNCHANGED neg
      /\ astray' = (astray \/ (~sent_off /\ (Leaves(c) \/ c.sdp # local_sdp)))
  BY <1>1
<1> HIDE DEF c
<1>5. c \in CallRecord /\ SlotsHold(c) /\ Sound(c)
  BY <1>3 DEF Made, Sound
<1>6. c.failed \in BOOLEAN /\ c.ended \in BOOLEAN /\ c.sdp \in Seq(LineRecord)
  BY <1>5, RecordEffects
<1>7. OthersShape /\ UpdateInOrder /\ Matched
  BY ShapeIs DEF MediaInv
<1>8. astray' \in BOOLEAN /\ (astray => astray')
  BY <1>4, <1>7 DEF OthersShape
<1>9. TcpInv' /\ TableShape' /\ local_sdp' \in Seq(LineRecord) /\ OpenIsHeld' /\ SocketIsHeld'
  BY <1>2, <1>4, <1>5, <1>8, BecomesHolds
<1>10. OthersShape'
  BY <1>2, <1>4, <1>6, <1>7, <1>8, <1>9 DEF OthersShape
<1>11. PortsHold'
  BY <1>2 DEF PortsHold
<1>12. UpdateInOrder'
  BY <1>2, <1>4, <1>7 DEF UpdateInOrder
<1>13. /\ endpoints' = c.eps /\ media' = c.media /\ media_count' = c.count
       /\ local_sdp' = IF c.failed THEN local_sdp ELSE c.sdp
  BY <1>4 DEF Becomes
<1>14. CASE sent_off
  <2>1. Matched'
    <3> SUFFICES ASSUME ~astray'
                 PROVE  LinesFit(Current', Reordered(active', local_sdp'))
      BY <1>2, <1>4, <1>14 DEF Matched
    <3>1. SlotsLike(Current)
      BY <1>2, <1>7, <1>8, <1>14, FitsLike DEF Matched
    <3>2. Matches(c, list, Len(list)) /\ list \in Seq(ItemRecord)
      BY <1>3, <1>14, <3>1 DEF Made
    <3>3. LinesFit(c, Reordered(active, c.sdp))
      BY <1>5, <1>7, <3>2, MatchesMeans DEF OthersShape
    <3>4. LinesFit(Current', Reordered(active, c.sdp))
      BY <1>13, <3>3, FitsNext
    <3>5. Reordered(active', local_sdp') = Reordered(active, c.sdp)
      BY <1>2, <1>13, <1>14
    <3> QED
      BY <3>4, <3>5
  <2> QED
    BY <1>9, <1>10, <1>11, <1>12, <2>1, ShapeNext DEF MediaInv
<1>15. CASE ~sent_off
  <2>1. Matched'
    <3> SUFFICES ASSUME ~astray', in_call'
                 PROVE  Matched'
      BY DEF Matched
    <3>1. ~astray /\ ~Leaves(c) /\ c.sdp = local_sdp /\ ~c.ended
      BY <1>4, <1>15
    <3>2. UNCHANGED table
      BY <1>4, <1>5, <3>1, StillHolds
    <3>3. UNCHANGED <<neg, local_sdp, active, line>>
      BY <1>2, <1>4, <1>13, <1>15, <3>1
    <3>4. \A given : LinesFit(Current, given) <=> LinesFit(Current', given)
      BY <3>2, FitsStays
    <3>5. LinesFit(Current, active) => LinesFit(Current', active')
      BY <3>3, <3>4
    <3>6. /\ neg \in {"none", "asked", "done"} => LinesFit(Current, active)
          /\ neg \in {"offered", "awaiting"} => LinesFit(Current, Reordered(active, local_sdp))
      BY <1>2, <1>7, <3>1 DEF Matched
    <3>7. Reordered(active', local_sdp') = Reordered(active, local_sdp)
      BY <3>3
    <3>8. \A s \in 1 .. Len(active') : ~(s < line')
      BY <1>2
    <3> QED
      BY <1>2, <3>3, <3>4, <3>5, <3>6, <3>7, <3>8 DEF Matched
  <2> QED
    BY <1>9, <1>10, <1>11, <1>12, <2>1, ShapeNext DEF MediaInv
<1> QED
  BY <1>14, <1>15

\* Nothing but the negotiation changes.
LEMMA UntouchedHolds ==
  ASSUME MediaInv, UNCHANGED <<tcp, table, local_sdp, lost, call>>,
         astray => astray', astray' \in BOOLEAN, active' \in Seq(LineRecord),
         offer' \in Seq(ItemRecord), waiting' \in BOOLEAN, line' \in Nat
  PROVE  TcpInv' /\ TableShape' /\ MediaShape' /\ OpenIsHeld' /\ SocketIsHeld'
<1>1. TcpInv'
  BY TcpInvStep DEF TcpMoves, MediaInv
<1>2. UNCHANGED <<table, lost, in_call>> /\ (asock' # "none" => asock # "none")
  BY DEF call, tcp
<1>3. TableShape' /\ OpenIsHeld' /\ SocketIsHeld'
  BY <1>2, TableStays
<1>4. OthersShape'
  BY ShapeIs DEF MediaInv, OthersShape, call
<1> QED
  BY <1>1, <1>3, <1>4, ShapeNext

\* The call, the table and the session stay as they are.
LEMMA MatchedStays ==
  ASSUME MediaInv, UNCHANGED <<table, local_sdp, active, in_call>>, astray => astray',
         Idle, line' = line, neg' = neg \/ (neg \in {"none", "done"} /\ neg' = "asked")
  PROVE  Matched' /\ PortsHold'
<1>1. PortsHold'
  BY DEF Idle, PortsHold
<1>2. Matched'
  <2> SUFFICES ASSUME ~astray', in_call'
               PROVE  /\ neg' \in {"none", "asked", "done"} => LinesFit(Current', active')
                      /\ neg' \in {"offered", "awaiting"} =>
                           LinesFit(Current', Reordered(active', local_sdp'))
    BY DEF Matched, Idle
  <2>1. /\ neg \in {"none", "asked", "done"} => LinesFit(Current, active)
        /\ neg \in {"offered", "awaiting"} => LinesFit(Current, Reordered(active, local_sdp))
    BY DEF Matched, MediaInv
  <2>2. \A given : LinesFit(Current, given) <=> LinesFit(Current', given)
    BY FitsStays
  <2>3. Reordered(active', local_sdp') = Reordered(active, local_sdp)
    OBVIOUS
  <2>4. LinesFit(Current, active) => LinesFit(Current', active')
    BY <2>2
  <2> QED
    BY <2>1, <2>2, <2>3, <2>4
<1> QED
  BY <1>1, <1>2

LEMMA OfferedBegins ==
  ASSUME MediaInv, NEW theirs \in Offered
  PROVE  theirs \in Seq(ItemRecord) /\ Begins(active, theirs, Len(active), Len(theirs))
<1>1. theirs \in Offers /\ IsPrefix(Types(active), Types(theirs))
  BY DEF Offered
<1>2. theirs \in Seq(ItemRecord)
  BY <1>1, ListsAreItems
<1>3. active \in Seq(LineRecord)
  BY DEF MediaInv, MediaShape
<1> QED
  BY <1>1, <1>2, <1>3, TypesBegin

LEMMA RxInviteStep ==
  ASSUME MediaInv, RxInvite
  PROVE  MediaInv'
<1>1. /\ Idle /\ neg \in {"none", "done"} /\ neg' = "asked" /\ UNCHANGED call
      /\ offer' \in Offered \cup (Offers \cap {<<>>})
      /\ UNCHANGED <<tcp, table, local_sdp, lost, astray, active, line, waiting>>
  BY DEF RxInvite, Handled, Untouched, update
<1>2. OthersShape /\ UpdateInOrder
  BY ShapeIs DEF MediaInv
<1>3. offer' = <<>> \/ (/\ offer' \in Seq(ItemRecord)
                        /\ Begins(active, offer', Len(active), Len(offer')))
  BY <1>1, OfferedBegins
<1>4. offer' \in Seq(ItemRecord)
  <2>1. << >> \in Seq(ItemRecord)
    OBVIOUS
  <2>2. CASE offer' = << >>
    BY <2>1, <2>2
  <2> QED
    BY <1>3, <2>2
<1>5. TcpInv' /\ MediaShape' /\ OpenIsHeld' /\ SocketIsHeld'
  BY <1>1, <1>2, <1>4, UntouchedHolds DEF OthersShape
<1>6. UpdateInOrder'
  BY <1>1, <1>2, <1>3 DEF UpdateInOrder, Idle
<1>7. Matched' /\ PortsHold'
  BY <1>1, MatchedStays DEF call
<1> QED
  BY <1>5, <1>6, <1>7 DEF MediaInv

LEMMA RxAnswerStep ==
  ASSUME MediaInv, RxAnswer
  PROVE  MediaInv'
<1> DEFINE mine == Reordered(active, local_sdp)
<1>1. /\ Idle /\ neg = "offered" /\ UNCHANGED call /\ in_call
      /\ UNCHANGED <<tcp, table, local_sdp, lost, astray>>
      /\ \E refused \in SUBSET DOMAIN mine :
           Negotiated([i \in DOMAIN mine |->
                         IF i \in refused THEN Off(mine[i].type) ELSE mine[i]])
  BY DEF RxAnswer, Handled, Untouched
<1>2. PICK refused \in SUBSET DOMAIN mine :
        Negotiated([i \in DOMAIN mine |-> IF i \in refused THEN Off(mine[i].type) ELSE mine[i]])
  BY <1>1
<1>3. OthersShape /\ Matched
  BY ShapeIs DEF MediaInv
<1>4. mine \in Seq(LineRecord)
  BY <1>3, ReorderedLines DEF OthersShape
<1> HIDE DEF mine
<1>5. /\ active' = [i \in DOMAIN mine |-> IF i \in refused THEN Off(mine[i].type) ELSE mine[i]]
      /\ neg' = "done" /\ line' = 1 /\ offer' = offer /\ waiting' = waiting
  BY <1>2 DEF Negotiated
<1>6. DOMAIN mine = 1 .. Len(mine) /\ Len(mine) \in Nat
  BY <1>4
<1>7. \A i \in 1 .. Len(mine) : mine[i] \in LineRecord /\ Off(mine[i].type) \in LineRecord
  <2> SUFFICES ASSUME NEW i \in 1 .. Len(mine)
               PROVE  mine[i] \in LineRecord /\ Off(mine[i].type) \in LineRecord
    OBVIOUS
  <2>1. mine[i] \in LineRecord
    BY <1>4
  <2> QED
    BY <2>1 DEF LineRecord, Off
<1>8. active' \in Seq(LineRecord) /\ Thinned(active', mine)
  BY <1>5, <1>6, <1>7 DEF Thinned
<1>9. TcpInv' /\ TableShape' /\ MediaShape' /\ OpenIsHeld' /\ SocketIsHeld'
  BY <1>1, <1>3, <1>5, <1>8, UntouchedHolds DEF OthersShape
<1>10. ASSUME ~astray'
       PROVE  LinesFit(Current', active')
  <2>1. LinesFit(Current, mine)
    BY <1>1, <1>3, <1>10 DEF Matched, mine
  <2>2. LinesFit(Current, active')
    BY <1>8, <2>1, ThinnedFits
  <2> QED
    BY <1>1, <2>2, FitsStays
<1>11. UpdateInOrder' /\ PortsHold' /\ Matched'
  BY <1>1, <1>3, <1>5, <1>8, <1>9, <1>10, NegotiatedHolds DEF OthersShape
<1> QED
  BY <1>9, <1>11 DEF MediaInv

LEMMA OnRxOffer2Step ==
  ASSUME MediaInv, OnRxOffer2
  PROVE  MediaInv'
<1>1. /\ Idle /\ neg \in {"awaiting", "done"} /\ UNCHANGED call /\ in_call
      /\ UNCHANGED <<tcp, table, local_sdp, lost>>
  BY DEF OnRxOffer2, Handled
<1>2. PICK theirs \in Offered :
        /\ Negotiated(Answer(theirs, local_sdp))
        /\ astray' = \/ astray
                     \/ Types(theirs) # Types(local_sdp)
                     \/ neg = "done" /\ local_sdp # active
  BY DEF OnRxOffer2
<1>3. OthersShape /\ Matched
  BY ShapeIs DEF MediaInv
<1>4. /\ active' = Answer(theirs, local_sdp)
      /\ neg' = "done" /\ line' = 1 /\ offer' = offer /\ waiting' = waiting
  BY <1>2 DEF Negotiated
<1>5. theirs \in Seq(ItemRecord) /\ Begins(active, theirs, Len(active), Len(theirs))
  BY OfferedBegins
<1>6. local_sdp \in Seq(LineRecord) /\ active \in Seq(LineRecord)
  BY <1>3 DEF OthersShape
<1>7. active' \in Seq(LineRecord)
  BY <1>4, <1>5, <1>6, AnswerTyped
<1>8. astray' \in BOOLEAN /\ (astray => astray')
  BY <1>2, <1>3 DEF OthersShape
<1>9. TcpInv' /\ TableShape' /\ MediaShape' /\ OpenIsHeld' /\ SocketIsHeld'
  BY <1>1, <1>3, <1>4, <1>7, <1>8, UntouchedHolds DEF OthersShape
<1>10. ASSUME ~astray'
       PROVE  LinesFit(Current', active')
  <2>1. ~astray /\ Types(theirs) = Types(local_sdp)
    BY <1>2, <1>10
  <2>2. /\ Len(theirs) = Len(local_sdp)
        /\ \A i \in 1 .. Len(theirs) : theirs[i].type = local_sdp[i].type
    BY <1>5, <1>6, <2>1, TypesBegin
  <2>3. LinesFit(Current, Reordered(active, local_sdp))
    <3>1. CASE neg = "awaiting"
      BY <1>1, <1>3, <2>1, <3>1 DEF Matched
    <3>2. CASE neg = "done"
      <4>1. local_sdp = active /\ LinesFit(Current, active)
        BY <1>1, <1>2, <1>3, <1>10, <2>1, <3>2 DEF Matched
      <4>2. Begins(active, active, Len(active), Len(active))
        BY <1>6, SeqNumbered DEF Begins
      <4> QED
        BY <1>6, <4>1, <4>2, BegunFits
    <3> QED
      BY <1>1, <3>1, <3>2
  <2>4. LinesFit(Current, Answer(theirs, local_sdp))
    BY <1>5, <1>6, <2>2, <2>3, AnswerFits
  <2> QED
    BY <1>1, <1>4, <2>4, FitsStays
<1>11. UpdateInOrder' /\ PortsHold' /\ Matched'
  BY <1>1, <1>4, <1>7, <1>8, <1>9, <1>10, NegotiatedHolds
<1> QED
  BY <1>9, <1>11 DEF MediaInv

\* The session goes on as it was.
LEMMA SessionGoesOn ==
  ASSUME MediaInv, Idle, in_call, neg \in {"offered", "awaiting", "asked"}, neg' = "done",
         astray' = (astray \/ local_sdp # active),
         UNCHANGED <<tcp, table, local_sdp, offer, active, line, waiting, lost, call>>
  PROVE  MediaInv'
<1>1. OthersShape /\ Matched /\ UpdateInOrder
  BY ShapeIs DEF MediaInv
<1>2. astray' \in BOOLEAN /\ (astray => astray')
  BY <1>1 DEF OthersShape
<1>3. TcpInv' /\ TableShape' /\ MediaShape' /\ OpenIsHeld' /\ SocketIsHeld'
  BY <1>1, <1>2, UntouchedHolds DEF OthersShape
<1>4. UpdateInOrder' /\ PortsHold'
  BY <1>1 DEF UpdateInOrder, PortsHold, Idle
<1>5. ASSUME ~astray'
      PROVE  LinesFit(Current, active)
  <2>1. ~astray /\ local_sdp = active
    BY <1>5
  <2>2. CASE neg = "asked"
    BY <1>1, <2>1, <2>2 DEF Matched
  <2>3. CASE neg \in {"offered", "awaiting"}
    <3>1. active \in Seq(LineRecord)
      BY <1>1 DEF OthersShape
    <3>2. Numbered(active, Len(active)) /\ Len(active) \in Nat
      BY <3>1, SeqNumbered
    <3>3. Begins(active, active, Len(active), Len(active))
      BY <3>2 DEF Begins
    <3>4. LinesFit(Current, active)
      BY <1>1, <2>1, <2>3, <3>1, <3>3, BegunFits DEF Matched
    <3> QED
      BY <3>4
  <2> QED
    BY <2>2, <2>3
<1>6. Matched'
  <2>1. LinesFit(Current, active) => LinesFit(Current', active')
    BY FitsStays
  <2> QED
    BY <1>5, <2>1 DEF Matched, Idle
<1> QED
  BY <1>3, <1>4, <1>6 DEF MediaInv

LEMMA NotAgreedStep ==
  ASSUME MediaInv, NotAgreed \/ NegotiationFails
  PROVE  MediaInv'
<1>1. CASE NotAgreed
  BY <1>1, SessionGoesOn DEF NotAgreed, Handled, update
<1>2. CASE NegotiationFails
  BY <1>2, SessionGoesOn DEF NegotiationFails, Handled
<1> QED
  BY <1>1, <1>2

LEMMA DisconnectedStep ==
  ASSUME MediaInv, Disconnected
  PROVE  MediaInv'
<1>1. /\ in_call /\ in_call' = FALSE /\ CloseSocket
      /\ UNCHANGED <<outgoing, local_sdp, neg, offer, active, line, waiting, astray, lost>>
      /\ endpoints' = CloseMedia(Current).eps /\ media' = CloseMedia(Current).media
      /\ media_count' = CloseMedia(Current).count
  BY DEF Disconnected, sdp, update
<1>2. OthersShape /\ UpdateInOrder /\ MediaShape /\ OpenIsHeld /\ PortsHold
  BY ShapeIs DEF MediaInv
<1>3. Sound(Current)
  BY <1>1, <1>2, CurrentSound
<1>4. Current \in CallRecord /\ SlotsHold(Current) /\ OpenHeld(Current)
  BY <1>3 DEF Sound
<1>5. \A e \in 1 .. Len(Current.eps) :
        Current.eps[e].open => Current.eps[e].on /\ (e \in Current.lost \/ Holds(Current, e))
  BY <1>4 DEF OpenHeld
<1>6. lost' = Current.lost
  BY <1>1 DEF Current
<1>7. TableShape' /\ OpenIsHeld' /\ SocketIsHeld'
  BY <1>1, <1>4, <1>5, <1>6, ClosedHolds
<1>8. TcpInv'
  BY <1>1, TcpInvStep DEF TcpMoves, MediaInv
<1>9. OthersShape'
  BY <1>1, <1>2 DEF OthersShape
<1>10. UpdateInOrder' /\ Matched'
  BY <1>1, <1>2 DEF UpdateInOrder, Matched
<1>11. media' = media /\ Len(endpoints') = Len(endpoints)
  BY <1>1, <1>4, ClosedFacts, CurrentFacts, <1>2
<1>12. PortsHold'
  BY <1>1, <1>2, <1>11 DEF PortsHold
<1> QED
  BY <1>7, <1>8, <1>9, <1>10, <1>12, ShapeNext DEF MediaInv

\* on_media_update() goes on to the next line, or returns.
LEMMA LineMoves ==
  ASSUME MediaInv, UNCHANGED <<table, lost, sdp, call, astray>>,
         asock' # "none" => asock # "none", TcpMoves,
         waiting' \in BOOLEAN, waiting' => line' \in 1 .. Len(active) /\ active[line'].port # 0,
         \/ line' = 0
         \/ line > 0 /\ line' = line
         \/ line \in 1 .. Len(active) /\ active[line].port # 0 /\ line' = line + 1
  PROVE  MediaInv'
<1>1. OthersShape /\ Matched /\ UpdateInOrder /\ PortsHold
  BY ShapeIs DEF MediaInv
<1>2. /\ UNCHANGED <<endpoints, media, media_count, local_sdp, neg, offer, active>>
      /\ UNCHANGED <<outgoing, in_call, lost>>
  BY DEF table, sdp, call
<1>3. TableShape' /\ OpenIsHeld' /\ SocketIsHeld'
  BY <1>2, TableStays
<1>4. TcpInv'
  BY TcpInvStep DEF MediaInv
<1>5. line \in Nat /\ line' \in Nat /\ (line' > 0 => line > 0)
  BY <1>1 DEF OthersShape
<1>6. OthersShape'
  BY <1>1, <1>2, <1>5 DEF OthersShape
<1>7. UpdateInOrder'
  BY <1>1, <1>2, <1>5 DEF UpdateInOrder
<1>8. PortsHold'
  BY <1>1, <1>2, <1>5 DEF PortsHold
<1>9. Matched'
  <2> SUFFICES ASSUME ~astray', in_call'
               PROVE  /\ neg' \in {"none", "asked", "done"} => LinesFit(Current', active')
                      /\ neg' \in {"offered", "awaiting"} =>
                           LinesFit(Current', Reordered(active', local_sdp'))
                      /\ line' > 0 => LinesFit(Current', active')
                      /\ \A s \in 1 .. Len(active') :
                           s < line' /\ active'[s].port = 0 => ~endpoints'[media'[s]].on
    BY DEF Matched
  <2>1. /\ neg \in {"none", "asked", "done"} => LinesFit(Current, active)
        /\ neg \in {"offered", "awaiting"} => LinesFit(Current, Reordered(active, local_sdp))
        /\ line > 0 => LinesFit(Current, active)
        /\ \A s \in 1 .. Len(active) :
             s < line /\ active[s].port = 0 => ~endpoints[media[s]].on
    BY <1>1, <1>2 DEF Matched
  <2>2. \A given : LinesFit(Current, given) <=> LinesFit(Current', given)
    BY FitsStays
  <2>3. Reordered(active', local_sdp') = Reordered(active, local_sdp)
    BY <1>2
  <2>4. LinesFit(Current, active) => LinesFit(Current', active')
    BY <1>2, <2>2
  <2>5. \A s \in 1 .. Len(active) : s < line' /\ active[s].port = 0 => s < line
    <3> SUFFICES ASSUME NEW s \in 1 .. Len(active), s < line', active[s].port = 0
                 PROVE  s < line
      OBVIOUS
    <3>1. s \in Nat /\ s # 0
      OBVIOUS
    <3>2. line' # 0
      BY <3>1
    <3>3. CASE line' = line
      BY <3>3
    <3>4. CASE active[line].port # 0 /\ line' = line + 1
      <4>1. s # line
        BY <3>4
      <4> QED
        BY <1>5, <3>1, <3>4, <4>1
    <3> QED
      BY <3>2, <3>3, <3>4
  <2> QED
    BY <1>2, <1>5, <2>1, <2>2, <2>3, <2>4, <2>5
<1> QED
  BY <1>3, <1>4, <1>6, <1>7, <1>8, <1>9, ShapeNext DEF MediaInv

LEMMA AtLineFacts ==
  ASSUME MediaInv, AtLine
  PROVE  /\ line \in 1 .. Len(active) /\ waiting = FALSE /\ active \in Seq(LineRecord)
         /\ UNCHANGED <<call, sdp, commands, astray>>
<1>1. line \in Nat /\ active \in Seq(LineRecord) /\ waiting \in BOOLEAN
  BY DEF MediaInv, MediaShape
<1>2. line > 0 /\ line <= Len(active) /\ ~waiting /\ UNCHANGED <<call, sdp, commands, astray>>
  BY DEF AtLine, Updating
<1> QED
  BY <1>1, <1>2

LEMMA LineAudioStep ==
  ASSUME MediaInv, LineAudio
  PROVE  MediaInv'
<1>1. /\ line \in 1 .. Len(active) /\ waiting = FALSE /\ UNCHANGED <<call, sdp, astray>>
  BY AtLineFacts DEF LineAudio
<1>2. /\ active[line].port # 0 /\ UNCHANGED <<tcp, table, lost>>
      /\ \/ line' = 0 /\ waiting' = waiting
         \/ waiting' = TRUE /\ line' = line
         \/ line' = line + 1 /\ waiting' = waiting
  BY DEF LineAudio, NextLine, Returns, ReturnsUnnoticed
<1>3. TcpMoves /\ (asock' # "none" => asock # "none")
  BY <1>2 DEF TcpMoves, tcp
<1>4. /\ waiting' \in BOOLEAN
      /\ waiting' => line' \in 1 .. Len(active) /\ active[line'].port # 0
  BY <1>1, <1>2
<1>5. UNCHANGED <<table, lost, sdp, call, astray>>
  BY <1>1, <1>2
<1>6. line > 0
  BY <1>1
<1> QED
  BY <1>1, <1>2, <1>3, <1>4, <1>5, <1>6, LineMoves

LEMMA IceDoneStep ==
  ASSUME MediaInv, IceDone
  PROVE  MediaInv'
<1>1. /\ UNCHANGED <<tcp, table, lost, call, sdp, astray>> /\ waiting /\ waiting' = FALSE
      /\ line' = line + 1 \/ line' = 0
  BY DEF IceDone, Updating, NextLine, Returns, ReturnsUnnoticed
<1>2. line \in 1 .. Len(active) /\ active[line].port # 0
  BY <1>1 DEF MediaInv, UpdateInOrder
<1>3. TcpMoves /\ (asock' # "none" => asock # "none")
  BY <1>1 DEF TcpMoves, tcp
<1> QED
  BY <1>1, <1>2, <1>3, LineMoves

LEMMA UpdateOkStep ==
  ASSUME MediaInv, UpdateOk
  PROVE  MediaInv'
<1>1. /\ UNCHANGED <<tcp, table, lost, call, sdp, astray, waiting>> /\ line' = 0
      /\ line = Len(active) + 1
  BY DEF UpdateOk, Updating, Returns
<1>2. waiting \in BOOLEAN /\ active \in Seq(LineRecord)
  BY DEF MediaInv, MediaShape
<1>3. ~waiting
  BY <1>1, <1>2 DEF MediaInv, UpdateInOrder
<1>4. TcpMoves /\ (asock' # "none" => asock # "none")
  BY <1>1 DEF TcpMoves, tcp
<1> QED
  BY <1>1, <1>2, <1>3, <1>4, LineMoves

LEMMA TcpMediaStep ==
  ASSUME MediaInv, TcpMedia
  PROVE  MediaInv'
<1>1. /\ line = 0 /\ TcpStep
      /\ UNCHANGED <<table, lost, call, sdp, astray, line, waiting>>
  BY DEF TcpMedia, Idle, update
<1>2. waiting \in BOOLEAN /\ ~waiting
  BY <1>1 DEF MediaInv, MediaShape, UpdateInOrder
<1>3. asock # "none"
  BY <1>1 DEF TcpStep, OnAcceptComplete, OnConnectComplete, PeerSends, OnDataRead, OnEndOfData
<1>4. TcpMoves
  BY <1>1 DEF TcpMoves
<1> QED
  BY <1>1, <1>2, <1>3, <1>4, LineMoves

LEMMA LineMrcpStep ==
  ASSUME MediaInv, LineMrcp
  PROVE  MediaInv'
<1>1. /\ line \in 1 .. Len(active) /\ waiting = FALSE /\ active \in Seq(LineRecord)
      /\ UNCHANGED <<call, sdp, astray>>
  BY AtLineFacts DEF LineMrcp
<1>2. /\ active[line].port # 0 /\ Endpoint.type = "mrcp"
      /\ UNCHANGED <<table, waiting>>
      /\ \/ /\ line' = line + 1
            /\ IF outgoing THEN StartTcpMedia ELSE UNCHANGED tcp
            /\ lost' = IF in_call \/ ~outgoing THEN lost ELSE lost \cup {Me}
         \/ line' = 0 /\ UNCHANGED <<tcp, lost>>
  BY DEF LineMrcp, NextLine, Returns
<1>3. OthersShape /\ Matched /\ UpdateInOrder /\ PortsHold /\ OpenIsHeld /\ SocketIsHeld
      /\ TableShape
  BY ShapeIs DEF MediaInv
<1>4. CASE line' = 0 /\ UNCHANGED <<tcp, lost>>
  <2>1. TcpMoves /\ (asock' # "none" => asock # "none")
    BY <1>4 DEF TcpMoves, tcp
  <2> QED
    BY <1>1, <1>2, <1>4, <2>1, LineMoves
<1>5. CASE /\ line' = line + 1
           /\ IF outgoing THEN StartTcpMedia ELSE UNCHANGED tcp
           /\ lost' = IF in_call \/ ~outgoing THEN lost ELSE lost \cup {Me}
  <2>1. TcpMoves
    BY <1>5 DEF TcpMoves
  <2>2. /\ UNCHANGED <<endpoints, media, media_count, local_sdp, neg, offer, active>>
        /\ UNCHANGED <<outgoing, in_call, waiting, astray>>
    BY <1>1, <1>2 DEF table, sdp, call
  <2>3. lost \subseteq lost'
    BY <1>5
  <2>4. TcpInv'
    BY <2>1, TcpInvStep DEF MediaInv
  <2>5. TableShape'
    BY <1>3, <2>2 DEF TableShape, SlotsHold, Current, Slots
  <2>6. OpenIsHeld'
    BY <1>3, <2>2, <2>3 DEF OpenIsHeld, Holds, Current
  <2>7. line \in Nat /\ line > 0 /\ line' \in Nat /\ line' > 0
    BY <1>1, <1>5
  <2>8. SocketIsHeld'
    <3> SUFFICES ASSUME asock' # "none", ~astray
                 PROVE  \E e \in 1 .. Len(endpoints) :
                          /\ endpoints[e].type = "mrcp"
                          /\ e \in lost' \/ (in_call /\ HeldBefore(e))
      BY <2>2 DEF SocketIsHeld, HeldBefore
    <3>1. CASE asock # "none"
      BY <1>3, <2>3, <3>1 DEF SocketIsHeld
    <3>2. CASE asock = "none"
      <4>1. outgoing
        BY <1>5, <3>2 DEF tcp
      <4>2. Me \in 1 .. Len(endpoints) /\ endpoints[Me].type = "mrcp"
        BY <1>1, <1>2, <1>3, <2>7 DEF PortsHold, Me, Endpoint
      <4>3. CASE ~in_call
        BY <1>5, <4>1, <4>2, <4>3
      <4>4. CASE in_call
        <5>1. LinesFit(Current, active)
          BY <1>3, <2>7, <4>4 DEF Matched
        <5>2. LineFits(Current, line, active[line])
          BY <1>1, <5>1 DEF LinesFit
        <5>3. line \in 1 .. media_count /\ endpoints[media[line]].on
          BY <1>2, <5>2 DEF LineFits, Current
        <5> QED
          BY <4>2, <4>4, <5>3 DEF HeldBefore, Me
      <4> QED
        BY <4>3, <4>4
    <3> QED
      BY <3>1, <3>2
  <2>9. OthersShape'
    BY <1>3, <2>2, <2>7 DEF OthersShape
  <2>10. UpdateInOrder' /\ PortsHold'
    BY <1>1, <1>3, <2>2, <2>7 DEF UpdateInOrder, PortsHold
  <2>11. Matched'
    <3> SUFFICES ASSUME ~astray, in_call
                 PROVE  /\ LinesFit(Current', active')
                        /\ neg' = "done"
                        /\ \A s \in 1 .. Len(active') :
                             s < line' /\ active'[s].port = 0 => ~endpoints'[media'[s]].on
      BY <2>2 DEF Matched
    <3>1. /\ neg = "done" /\ LinesFit(Current, active)
          /\ \A s \in 1 .. Len(active) :
               s < line /\ active[s].port = 0 => ~endpoints[media[s]].on
      BY <1>3, <2>7 DEF Matched, UpdateInOrder
    <3>2. LinesFit(Current', active)
      BY <1>2, <3>1, FitsStays
    <3>3. \A s \in 1 .. Len(active) : s < line' /\ active[s].port = 0 => s < line
      <4> SUFFICES ASSUME NEW s \in 1 .. Len(active), s < line', active[s].port = 0
                   PROVE  s < line
        OBVIOUS
      <4>1. s # line
        BY <1>2
      <4> QED
        BY <1>5, <2>7, <4>1
    <3> QED
      BY <2>2, <3>1, <3>2, <3>3
  <2> QED
    BY <2>4, <2>5, <2>6, <2>8, <2>9, <2>10, <2>11, ShapeNext DEF MediaInv
<1> QED
  BY <1>2, <1>4, <1>5

\* close_media_endpoint() for one endpoint.
Closed(e) == [endpoints EXCEPT ![e].on = FALSE, ![e].open = FALSE]

LEMMA ClosedOne ==
  ASSUME endpoints \in Seq(EndpointRecord), NEW m
  PROVE  /\ Closed(m) \in Seq(EndpointRecord) /\ Len(Closed(m)) = Len(endpoints)
         /\ \A e \in 1 .. Len(endpoints) :
              /\ e # m => Closed(m)[e] = endpoints[e]
              /\ Closed(m)[e].type = endpoints[e].type
              /\ e = m => Closed(m)[e].on = FALSE /\ Closed(m)[e].open = FALSE
<1>1. Len(endpoints) \in Nat /\ DOMAIN endpoints = 1 .. Len(endpoints)
  OBVIOUS
<1>2. \A e \in 1 .. Len(endpoints) : endpoints[e] \in EndpointRecord
  OBVIOUS
<1>3. CASE m \notin 1 .. Len(endpoints)
  <2>1. Closed(m) = endpoints
    BY <1>1, <1>3 DEF Closed
  <2> QED
    BY <1>3, <2>1
<1>4. CASE m \in 1 .. Len(endpoints)
  <2> DEFINE new == [endpoints[m] EXCEPT !.on = FALSE, !.open = FALSE]
  <2>1. endpoints[m] \in EndpointRecord
    BY <1>2, <1>4
  <2>2. new.type = endpoints[m].type /\ new.on = FALSE /\ new.open = FALSE
    BY <2>1 DEF EndpointRecord
  <2>3. new \in EndpointRecord
    BY <2>1 DEF EndpointRecord
  <2>5. Closed(m) = [endpoints EXCEPT ![m] = new]
    BY <1>1, <1>4 DEF Closed
  <2> HIDE DEF new
  <2>6. Closed(m) = [e \in 1 .. Len(endpoints) |-> IF e = m THEN new ELSE endpoints[e]]
    BY <1>1, <1>4, <2>5
  <2>7. \A e \in 1 .. Len(endpoints) : (IF e = m THEN new ELSE endpoints[e]) \in EndpointRecord
    BY <1>2, <2>3
  <2>8. Closed(m) \in Seq(EndpointRecord) /\ Len(Closed(m)) = Len(endpoints)
    BY <1>1, <2>6, <2>7
  <2>9. \A e \in 1 .. Len(endpoints) : Closed(m)[e] = IF e = m THEN new ELSE endpoints[e]
    BY <2>6
  <2> QED
    BY <2>2, <2>8, <2>9
<1> QED
  BY <1>3, <1>4

LEMMA LineOffStep ==
  ASSUME MediaInv, LineOff
  PROVE  MediaInv'
<1>1. /\ line \in 1 .. Len(active) /\ waiting = FALSE /\ active \in Seq(LineRecord)
      /\ UNCHANGED <<call, sdp, astray>>
  BY AtLineFacts DEF LineOff
<1>2. /\ active[line].port = 0 /\ line' = line + 1
      /\ UNCHANGED <<media, media_count, waiting, lost>>
      /\ \/ Me = 0 /\ UNCHANGED <<tcp, endpoints>>
         \/ /\ endpoints' = Closed(Me)
            /\ IF Endpoint.type = "mrcp" THEN CloseSocket ELSE UNCHANGED tcp
  BY DEF LineOff, NextLine, Closed
<1>3. OthersShape /\ Matched /\ UpdateInOrder /\ PortsHold /\ OpenIsHeld /\ SocketIsHeld
      /\ TableShape /\ MediaShape
  BY ShapeIs DEF MediaInv
<1>4. endpoints \in Seq(EndpointRecord) /\ Len(endpoints) \in Nat
  BY <1>3 DEF TableShape
<1>5. UNCHANGED <<local_sdp, neg, offer, active, outgoing, in_call, astray>>
  BY <1>1 DEF sdp, call
<1>6. line \in Nat /\ line > 0 /\ line' \in Nat /\ line' > 0
  BY <1>1, <1>2
\* What is left of the endpoints, whether there is one in the place or not.
<1>7. /\ endpoints' \in Seq(EndpointRecord) /\ Len(endpoints') = Len(endpoints)
      /\ \A e \in 1 .. Len(endpoints) :
           /\ e # Me => endpoints'[e] = endpoints[e]
           /\ endpoints'[e].type = endpoints[e].type
           /\ e = Me => endpoints'[e].on = FALSE /\ endpoints'[e].open = FALSE
  <2>1. CASE Me = 0 /\ UNCHANGED <<tcp, endpoints>>
    BY <1>4, <2>1
  <2>2. CASE endpoints' = Closed(Me)
    BY <1>4, <2>2, ClosedOne
  <2> QED
    BY <1>2, <2>1, <2>2
<1>8. TcpInv'
  <2>1. TcpMoves
    BY <1>2 DEF TcpMoves
  <2> QED
    BY <2>1, TcpInvStep DEF MediaInv
<1>9. TableShape'
  BY <1>2, <1>3, <1>7 DEF TableShape, SlotsHold, Current, Slots
<1>10. OpenIsHeld'
  <2> SUFFICES ASSUME NEW e \in 1 .. Len(endpoints'), endpoints'[e].open
               PROVE  endpoints'[e].on /\ (e \in lost' \/ (in_call' /\ Holds(Current, e)'))
    BY DEF OpenIsHeld
  <2>1. e \in 1 .. Len(endpoints) /\ e # Me /\ endpoints'[e] = endpoints[e]
    BY <1>7
  <2>2. endpoints[e].on /\ (e \in lost \/ (in_call /\ Holds(Current, e)))
    BY <1>3, <2>1 DEF OpenIsHeld
  <2>3. Holds(Current, e) => Holds(Current, e)'
    BY <1>2 DEF Holds, Current
  <2> QED
    BY <1>2, <1>5, <2>1, <2>2, <2>3
<1>11. SocketIsHeld'
  <2> SUFFICES ASSUME asock' # "none", ~astray
               PROVE  \E e \in 1 .. Len(endpoints') :
                        /\ endpoints'[e].type = "mrcp"
                        /\ e \in lost' \/ (in_call' /\ HeldBefore(e)')
    BY <1>5 DEF SocketIsHeld
  <2>1. UNCHANGED tcp /\ (Me = 0 \/ endpoints[Me].type # "mrcp")
    BY <1>2 DEF CloseSocket, Endpoint
  <2>2. asock # "none"
    BY <2>1 DEF tcp
  <2>3. PICK e \in 1 .. Len(endpoints) :
          endpoints[e].type = "mrcp" /\ (e \in lost \/ (in_call /\ HeldBefore(e)))
    BY <1>3, <2>2 DEF SocketIsHeld
  <2>4. e # Me
    BY <1>4, <2>1, <2>3
  <2>5. endpoints'[e] = endpoints[e]
    BY <1>7, <2>4
  <2>6. HeldBefore(e) => HeldBefore(e)'
    BY <1>2, <2>5 DEF HeldBefore
  <2> QED
    BY <1>2, <1>5, <1>7, <2>3, <2>5, <2>6
<1>12. OthersShape'
  BY <1>2, <1>3, <1>5, <1>6 DEF OthersShape
<1>13. UpdateInOrder' /\ PortsHold'
  BY <1>1, <1>2, <1>3, <1>5, <1>6, <1>7 DEF UpdateInOrder, PortsHold
<1>14. Matched'
  <2> SUFFICES ASSUME ~astray, in_call
               PROVE  /\ LinesFit(Current', active)
                      /\ neg' = "done"
                      /\ \A s \in 1 .. Len(active) :
                           s < line' /\ active[s].port = 0 => ~endpoints'[media[s]].on
    BY <1>2, <1>5 DEF Matched
  <2>1. /\ neg = "done" /\ LinesFit(Current, active)
        /\ \A s \in 1 .. Len(active) :
             s < line /\ active[s].port = 0 => ~endpoints[media[s]].on
    BY <1>3, <1>6 DEF Matched, UpdateInOrder
  <2>2. /\ Len(active) = media_count
        /\ \A s \in 1 .. media_count : media[s] \in 1 .. Len(endpoints)
        /\ \A s, t \in 1 .. media_count : media[s] = media[t] => s = t
    BY <1>3, <2>1, CurrentFacts DEF LinesFit, Current
  <2>3. \A s \in 1 .. Len(active) : s # line => endpoints'[media[s]] = endpoints[media[s]]
    BY <1>1, <1>7, <2>2 DEF Me
  <2>4. /\ endpoints'[media[line]].on = FALSE
        /\ \A s \in 1 .. Len(active) : endpoints'[media[s]].type = endpoints[media[s]].type
    BY <1>1, <1>7, <2>2 DEF Me
  <2>5. LinesFit(Current', active)
    <3> SUFFICES ASSUME NEW s \in 1 .. media_count
                 PROVE  LineFits(Current', s, active[s])
      BY <1>1, <1>2, <2>2 DEF LinesFit, Current
    <3>1. LineFits(Current, s, active[s])
      BY <2>1 DEF LinesFit, Current
    <3>2. /\ s \in 1 .. media_count /\ endpoints[media[s]].type = active[s].type
          /\ active[s].port # 0 => active[s].port = media[s] /\ endpoints[media[s]].on
      BY <3>1 DEF LineFits, Current
    <3>3. active[s].port # 0 => endpoints'[media[s]].on
      BY <1>2, <2>2, <2>3, <3>2
    <3>4. /\ endpoints'[media[s]].type = active[s].type
          /\ active[s].port # 0 => active[s].port = media[s] /\ endpoints'[media[s]].on
      BY <2>2, <2>4, <3>2, <3>3
    <3> QED
      BY <1>2, <3>4 DEF LineFits, Current
  <2>6. \A s \in 1 .. Len(active) : s < line' /\ active[s].port = 0 => ~endpoints'[media[s]].on
    <3> SUFFICES ASSUME NEW s \in 1 .. Len(active), s < line', active[s].port = 0
                 PROVE  ~endpoints'[media[s]].on
      OBVIOUS
    <3>1. CASE s = line
      BY <2>4, <3>1
    <3>2. CASE s # line
      <4>1. s < line
        BY <1>2, <1>6, <3>2
      <4> QED
        BY <2>1, <2>3, <3>2, <4>1
    <3> QED
      BY <3>1, <3>2
  <2> QED
    BY <1>5, <2>1, <2>5, <2>6
<1> QED
  BY <1>8, <1>9, <1>10, <1>11, <1>12, <1>13, <1>14, ShapeNext DEF MediaInv

-----------------------------------------------------------------------------
LEMMA MediaInvInit == ASSUME MediaInit PROVE MediaInv
<1>1. /\ asock = "none" /\ NoData /\ outgoing \in BOOLEAN /\ in_call = TRUE /\ endpoints = << >>
      /\ media = [i \in Slots |-> 0] /\ media_count = 0 /\ local_sdp = << >> /\ neg = "none"
      /\ offer = << >> /\ active = << >> /\ line = 0 /\ waiting = FALSE /\ astray = FALSE
  BY DEF MediaInit, TcpInit
<1>2. TcpInv
  BY <1>1, NothingYet
<1>3. /\ << >> \in Seq(EndpointRecord) /\ << >> \in Seq(LineRecord) /\ << >> \in Seq(ItemRecord)
      /\ Len(endpoints) = 0 /\ Len(active) = 0
  BY <1>1
<1>4. TableShape
  BY <1>1, <1>3, BoundAssumption DEF TableShape, SlotsHold, Current
<1>5. OthersShape
  BY <1>1, <1>3 DEF OthersShape
<1>6. OpenIsHeld /\ SocketIsHeld
  BY <1>1, <1>3 DEF OpenIsHeld, SocketIsHeld
<1>7. UpdateInOrder /\ PortsHold
  BY <1>1 DEF UpdateInOrder, PortsHold
<1>8. LinesFit(Current, active)
  BY <1>1, <1>3 DEF LinesFit, Current
<1>9. Matched
  BY <1>1, <1>3, <1>8 DEF Matched
<1> QED
  BY <1>2, <1>4, <1>5, <1>6, <1>7, <1>9, ShapeIs DEF MediaInv

LEMMA MediaInvStep ==
  ASSUME MediaInv, [MediaNext]_media_vars
  PROVE  MediaInv'
<1>1. CASE UNCHANGED media_vars
  <2>1. /\ UNCHANGED <<tcp, call, table, sdp, update, astray, lost>>
        /\ UNCHANGED <<line, waiting>>
    BY <1>1 DEF media_vars, update
  <2>2. TcpMoves /\ (asock' # "none" => asock # "none")
    BY <2>1 DEF TcpMoves, tcp
  <2>3. line \in Nat /\ waiting \in BOOLEAN
        /\ (waiting => line \in 1 .. Len(active) /\ active[line].port # 0)
    BY DEF MediaInv, MediaShape, UpdateInOrder
  <2>4. line' = 0 \/ (line > 0 /\ line' = line)
    BY <2>1, <2>3
  <2> QED
    BY <2>1, <2>2, <2>3, <2>4, LineMoves
<1>2. CASE CallCreate
  BY <1>2, CallCreateStep
<1>3. CASE RxInvite
  BY <1>3, RxInviteStep
<1>4. CASE Respond
  BY <1>4, RespondStep
<1>5. CASE Reinvite
  BY <1>5, ReinviteStep
<1>6. CASE RxAnswer
  BY <1>6, RxAnswerStep
<1>7. CASE OnRxOffer2
  BY <1>7, OnRxOffer2Step
<1>8. CASE NotAgreed \/ NegotiationFails
  BY <1>8, NotAgreedStep
<1>9. CASE LineOff
  BY <1>9, LineOffStep
<1>10. CASE LineAudio
  BY <1>10, LineAudioStep
<1>11. CASE IceDone
  BY <1>11, IceDoneStep
<1>12. CASE LineMrcp
  BY <1>12, LineMrcpStep
<1>13. CASE UpdateOk
  BY <1>13, UpdateOkStep
<1>14. CASE Disconnected
  BY <1>14, DisconnectedStep
<1>15. CASE TcpMedia
  BY <1>15, TcpMediaStep
<1> QED
  BY <1>1, <1>2, <1>3, <1>4, <1>5, <1>6, <1>7, <1>8, <1>9, <1>10, <1>11, <1>12, <1>13, <1>14,
     <1>15 DEF MediaNext

-----------------------------------------------------------------------------
LEMMA InvAccountsForTransports == ASSUME MediaInv PROVE TransportsAccounted
<1> DEFINE closable == (IF in_call THEN InUse ELSE {}) \cup lost
<1>1. endpoints \in Seq(EndpointRecord) /\ OpenIsHeld /\ SocketIsHeld
  BY DEF MediaInv, MediaShape
<1>2. DOMAIN endpoints = 1 .. Len(endpoints)
  BY <1>1
<1>3. \A e : endpoints[e].on /\ Holds(Current, e) => e \in InUse
  BY DEF Holds, Current, InUse
<1>4. \A e : HeldBefore(e) => e \in InUse
  BY DEF HeldBefore, InUse
<1>5. \A e \in DOMAIN endpoints : endpoints[e].open => e \in closable
  BY <1>1, <1>2, <1>3 DEF OpenIsHeld
<1>6. asock # "none" /\ ~astray => \E e \in closable : endpoints[e].type = "mrcp"
  BY <1>1, <1>4 DEF SocketIsHeld
<1> QED
  BY <1>5, <1>6 DEF TransportsAccounted

LEMMA InvMeetsEndpoints == ASSUME MediaInv PROVE LinesMeetEndpoints
<1> SUFFICES ASSUME ~astray, in_call, line \in DOMAIN active
             PROVE  IF active[line].port # 0 THEN Me = active[line].port
                                             ELSE Me \notin ActivePorts
  BY DEF LinesMeetEndpoints
<1>1. active \in Seq(LineRecord) /\ Matched /\ MediaShape
  BY DEF MediaInv, MediaShape
<1>2. DOMAIN active = 1 .. Len(active) /\ line \in 1 .. Len(active) /\ line > 0
  BY <1>1
<1>3. LinesFit(Current, active)
  BY <1>1, <1>2 DEF Matched
<1>4. /\ Len(active) = media_count
      /\ \A s \in 1 .. Len(active) : active[s].port # 0 => active[s].port = media[s]
      /\ \A s, t \in 1 .. Len(active) : media[s] = media[t] => s = t
  BY <1>1, <1>3, CurrentFacts DEF LinesFit, LineFits, Current
<1>5. CASE active[line].port # 0
  BY <1>2, <1>4, <1>5 DEF Me
<1>6. CASE active[line].port = 0
  <2> SUFFICES ASSUME Me \in ActivePorts
               PROVE  FALSE
    BY <1>6
  <2>1. PICK s \in 1 .. Len(active) : active[s].port = Me /\ active[s].port # 0
    BY <1>2 DEF ActivePorts
  <2>2. media[s] = media[line]
    BY <1>4, <2>1 DEF Me
  <2> QED
    BY <1>2, <1>4, <1>6, <2>1, <2>2
<1> QED
  BY <1>5, <1>6

LEMMA InvReports == ASSUME MediaInv PROVE ReportedIsActive
<1> SUFFICES ASSUME ~astray, in_call, line = Len(active) + 1
             PROVE  /\ \A r \in Reports : r.line # 0
                    /\ ActivePorts =
                         {r.medium : r \in {x \in Reports : active[x.line].port # 0}}
  BY DEF ReportedIsActive
<1>1. active \in Seq(LineRecord) /\ Matched /\ MediaShape
  BY DEF MediaInv, MediaShape
<1>2. DOMAIN active = 1 .. Len(active) /\ Len(active) \in Nat /\ line > 0
  BY <1>1
<1>3. /\ LinesFit(Current, active)
      /\ \A s \in 1 .. Len(active) : active[s].port = 0 => ~endpoints[media[s]].on
  <2>1. \A s \in 1 .. Len(active) : s < line
    BY <1>2
  <2> QED
    BY <1>1, <1>2, <2>1 DEF Matched
<1>4. Len(active) = media_count
  BY <1>3 DEF LinesFit, Current
\* What find_sdp_media_by_media_endpt() looks for.
<1> DEFINE Wanted(e) == [type |-> endpoints[e].type,
                         port |-> IF endpoints[e].on THEN e ELSE 0]
           LinesFor(e) == {i \in DOMAIN active : active[i] = Wanted(e)}
<1>5. ASSUME NEW s \in 1 .. Len(active)
      PROVE  active[s] = Wanted(media[s])
  <2>1. LineFits(Current, s, active[s])
    BY <1>3, <1>4 DEF LinesFit, Current
  <2>2. /\ endpoints[media[s]].type = active[s].type
        /\ active[s].port # 0 => active[s].port = media[s] /\ endpoints[media[s]].on
    BY <2>1 DEF LineFits, Current
  <2>3. active[s] \in LineRecord
    BY <1>1
  <2>4. active[s].port = IF endpoints[media[s]].on THEN media[s] ELSE 0
    BY <1>3, <2>2
  <2>5. active[s] = [type |-> active[s].type, port |-> active[s].port]
    BY <2>3 DEF LineRecord
  <2> QED
    BY <2>2, <2>4, <2>5
<1>6. ASSUME NEW s \in 1 .. Len(active)
      PROVE  LineOf(media[s]) \in LinesFor(media[s])
  <2>1. s \in LinesFor(media[s])
    BY <1>2, <1>5
  <2>2. LinesFor(media[s]) \subseteq Nat
    BY <1>2
  <2>3. LineOf(media[s]) = Min(LinesFor(media[s]))
    BY <2>1 DEF LineOf
  <2> HIDE DEF LinesFor
  <2>4. Min(LinesFor(media[s])) \in LinesFor(media[s])
    BY <2>1, <2>2, MinIsLeast
  <2> QED
    BY <2>3, <2>4
<1>7. ASSUME NEW s \in 1 .. Len(active)
      PROVE  LineOf(media[s]) \in 1 .. Len(active) /\ active[LineOf(media[s])] = active[s]
  BY <1>2, <1>5, <1>6
<1>8. Reports = {[medium |-> media[i], line |-> LineOf(media[i])] : i \in 1 .. Len(active)}
  BY <1>4 DEF Reports
<1> HIDE DEF Wanted, LinesFor
<1>9. \A r \in Reports : r.line # 0
  <2> SUFFICES ASSUME NEW s \in 1 .. Len(active)
               PROVE  LineOf(media[s]) # 0
    BY <1>8
  <2> QED
    BY <1>2, <1>7
<1>10. \A s \in 1 .. Len(active) : active[s].port # 0 => active[s].port = media[s]
  BY <1>3, <1>4 DEF LinesFit, LineFits, Current
<1> DEFINE reported == {r.medium : r \in {x \in Reports : active[x.line].port # 0}}
<1>11. ASSUME NEW p \in ActivePorts
       PROVE  p \in reported
  <2>1. PICK s \in 1 .. Len(active) : p = active[s].port /\ active[s].port # 0
    BY <1>2 DEF ActivePorts
  <2> DEFINE r == [medium |-> media[s], line |-> LineOf(media[s])]
  <2>2. r \in Reports
    BY <1>8
  <2>3. active[r.line].port # 0 /\ r.medium = p
    BY <1>7, <1>10, <2>1
  <2> QED
    BY <2>2, <2>3
<1>12. ASSUME NEW p \in reported
       PROVE  p \in ActivePorts
  <2>1. PICK r \in Reports : active[r.line].port # 0 /\ p = r.medium
    OBVIOUS
  <2>2. PICK s \in 1 .. Len(active) : r = [medium |-> media[s], line |-> LineOf(media[s])]
    BY <1>8
  <2>3. active[s].port # 0 /\ p = active[s].port
    BY <1>7, <1>10, <2>1, <2>2
  <2> QED
    BY <1>2, <2>3 DEF ActivePorts
<1> QED
  BY <1>9, <1>11, <1>12

-----------------------------------------------------------------------------
(***************************************************************************)
(* The endpoints, their transports and the lines of a call keep to         *)
(* MediaInv: the inductive invariant behind the theorems below.            *)
(***************************************************************************)
THEOREM MediaInvariant == MediaSpec => []MediaInv
<1>1. MediaInit => MediaInv
  BY MediaInvInit
<1>2. MediaInv /\ [MediaNext]_media_vars => MediaInv'
  BY MediaInvStep
<1> QED
  BY <1>1, <1>2, PTL DEF MediaSpec

(***************************************************************************)
(* However the bytes of an mrcp medium are cut into pieces, the client     *)
(* gets the messages of the peer whole, in order and once (on_data_read).  *)
(***************************************************************************)
THEOREM MessagesCorrect == MediaSpec => []MessagesWhole
<1>1. MediaInv => MessagesWhole
  BY TcpInvMeans DEF MediaInv
<1> QED
  BY <1>1, MediaInvariant, PTL

(***************************************************************************)
(* A transport that is open, and the socket of an mrcp medium, is that of  *)
(* a medium in use of a call that has not ended, or was lost on a path     *)
(* that the model names (process_media, close_media); the sockets that     *)
(* start_tcp_media() and others leave open before they are an endpoint's   *)
(* are not spoken of.                                                      *)
(***************************************************************************)
THEOREM TransportsCorrect == MediaSpec => []TransportsAccounted
<1>1. MediaInv => TransportsAccounted
  BY InvAccountsForTransports
<1> QED
  BY <1>1, MediaInvariant, PTL

(***************************************************************************)
(* on_media_update() finds at each line the endpoint the line was made     *)
(* for, and never closes one that another line needs.                      *)
(***************************************************************************)
THEOREM LinesCorrect == MediaSpec => []LinesMeetEndpoints
<1>1. MediaInv => LinesMeetEndpoints
  BY InvMeetsEndpoints
<1> QED
  BY <1>1, MediaInvariant, PTL

(***************************************************************************)
(* When media_update says "ok", each medium is reported with a line that   *)
(* is its own, and no line that is on is left out (gen_media_json).        *)
(***************************************************************************)
THEOREM ReportsCorrect == MediaSpec => []ReportedIsActive
<1>1. MediaInv => ReportedIsActive
  BY InvReports
<1> QED
  BY <1>1, MediaInvariant, PTL
=============================================================================
