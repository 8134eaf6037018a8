------------------------------ MODULE TcpMedia ------------------------------
(***************************************************************************)
(* The TCP connection of an mrcp medium and the messages it brings         *)
(* (src/src/sip.cpp).  The peer of an incoming call connects to a socket   *)
(* that the endpoint listens on; in an outgoing call the endpoint          *)
(* connects.  on_data_read() gets the bytes in pieces and cuts them into   *)
(* messages, by the blank line behind the header and the Content-Length in *)
(* it.                                                                     *)
(*                                                                         *)
(* Bytes are units: "n" is a line break, "c0", "c1" and "c2" are header    *)
(* lines that give a Content-Length of so many units, everything else is   *)
(* any other text.  The socket itself is pj_activesock's.                  *)
(***************************************************************************)
EXTENDS Naturals, Sequences, FiniteSetsExt, SequencesExt

CONSTANTS Messages,     \* what the peer may send: sequences of units
          MaxMessages,  \* the peer sends no more (a bound of the model)
          MAX_TCP_DATA  \* capacity of the receive buffer

ASSUME BufferAssumption == MAX_TCP_DATA \in Nat \ {0}

VARIABLES asock,  \* "none", "listening", "connecting", "connected" or "deaf"
          wire,   \* units on their way to the endpoint
          buf,    \* ud->buf, of length ud->len
          sent,   \* the messages of the peer on this connection (a history)
          heard   \* the tcp_msg events of this connection (a history)

tcp == <<asock, wire, buf, sent, heard>>
data == <<wire, buf, sent, heard>>

NoData == wire = <<>> /\ buf = <<>> /\ sent = <<>> /\ heard = <<>>
Forgotten == wire' = <<>> /\ buf' = <<>> /\ sent' = <<>> /\ heard' = <<>>

TcpInit == asock = "none" /\ NoData

-----------------------------------------------------------------------------
ContentLengths == [c0 |-> 0, c1 |-> 1, c2 |-> 2]

\* Where the first blank line of b begins, 0 if there is none.
BlankLine(b) == LET at == {i \in 1 .. Len(b) - 1 : b[i] = "n" /\ b[i + 1] = "n"}
                IN  IF at = {} THEN 0 ELSE Min(at)

\* The length that the header in front of `end` gives for the body: its first.
BodyLength(b, end) ==
  LET at == {i \in 1 .. end : b[i] \in DOMAIN ContentLengths}
  IN  IF at = {} THEN 0 ELSE ContentLengths[b[Min(at)]]

\* A slip: a body that is not all there yet is taken as it is.
IncompleteTaken(b) ==
  LET end == BlankLine(b)
      size == end + 1 + BodyLength(b, end)
  IN  IF end = 0 THEN 0 ELSE IF size > Len(b) THEN Len(b) ELSE size

\* msg_size: the length of the message at the start of b, 0 if it is not all there.
MessageSize(b) ==
  LET end == BlankLine(b)
      size == end + 1 + BodyLength(b, end)
  IN  IF end = 0 \/ size > Len(b) THEN 0 ELSE size

\* A message is what its own header says: the peer frames what it sends.
ASSUME MessageAssumption ==
  \A m \in Messages : m \in Seq(STRING) \ {<<>>} /\ MessageSize(m) = Len(m)

\* The loop of on_data_read(): the messages at the start of b, and what remains.
Cut[b \in Seq(STRING)] ==
  LET size == MessageSize(b)
      rest == Cut[SubSeq(b, size + 1, Len(b))]
  IN  IF size = 0 THEN [messages |-> <<>>, remain |-> b]
      ELSE [messages |-> <<SubSeq(b, 1, size)>> \o rest.messages, remain |-> rest.remain]

-----------------------------------------------------------------------------
\* create_tcp_socket(): a listening socket.
Listen == asock' = "listening" /\ Forgotten

\* start_tcp_media(): a connection is begun, unless there is a socket already.
StartTcpMedia == IF asock = "none" THEN asock' = "connecting" /\ Forgotten
                                   ELSE UNCHANGED tcp

\* close_media_endpoint(): callbacks of the socket find no user data from here on.
CloseSocket == asock' = "none" /\ Forgotten

\* on_accept_complete() puts the new socket in the place of the listener, which is
\* closed; when a step fails nobody is accepted any more.
OnAcceptComplete == /\ asock = "listening"
                    /\ asock' \in {"connected", "deaf"}
                    /\ UNCHANGED data

\* on_connect_complete() does not look at its status: reading from a socket that could
\* not connect fails, and the endpoint keeps the socket.
OnConnectComplete == /\ asock = "connecting"
                     /\ asock' \in {"connected", "deaf"}
                     /\ UNCHANGED data

PeerSends == /\ asock = "connected"
             /\ Len(sent) < MaxMessages
             /\ \E m \in Messages : wire' = wire \o m /\ sent' = Append(sent, m)
             /\ UNCHANGED <<asock, buf, heard>>

\* on_data_read() of the next n units: a piece that does not fit ends the reading, for
\* good and in silence; otherwise every whole message is dispatched.
OnDataRead(n) ==
  LET cut == Cut[buf \o SubSeq(wire, 1, n)]
  IN  /\ asock = "connected"
      /\ wire' = SubSeq(wire, n + 1, Len(wire))
      /\ UNCHANGED sent
      /\ IF n + Len(buf) + 1 >= MAX_TCP_DATA
         THEN asock' = "deaf" /\ UNCHANGED <<buf, heard>>
         ELSE /\ heard' = heard \o cut.messages
              /\ buf' = cut.remain
              /\ UNCHANGED asock

\* The peer closes its side, or the connection breaks: nothing is closed here, and the
\* client is not told.
OnEndOfData == /\ asock = "connected"
               /\ asock' = "deaf"
               /\ UNCHANGED data

TcpStep == \/ OnAcceptComplete \/ OnConnectComplete
           \/ PeerSends
           \/ \E n \in 1 .. Len(wire) : OnDataRead(n)
           \/ OnEndOfData

-----------------------------------------------------------------------------
(***************************************************************************)
(* However the bytes are cut into pieces, the client gets the messages the *)
(* peer sent, whole, in order and once; and as long as the endpoint reads, *)
(* no message that has arrived is held back (on_data_read).                *)
(***************************************************************************)
MessagesWhole == /\ IsPrefix(heard, sent)
                 /\ asock = "connected" /\ wire = <<>> => heard = sent /\ buf = <<>>
=============================================================================
