--------------------------- MODULE CommandChannel ---------------------------
(***************************************************************************)
(* How a command gets from the client library (index.js) to the server     *)
(* process (src/src/server.cpp) and its answer back.  The library starts   *)
(* the server with the first command, learns the port from its READY line, *)
(* connects, and writes one line per command; the server reads into a      *)
(* buffer of fixed size, executes the lines it finds complete and answers  *)
(* each with a line that carries the seq of the command.                   *)
(*                                                                         *)
(* Lines travel in pieces, which reads may separate anywhere; the last     *)
(* piece of a line ends it.  Command n is the n-th one called, and its seq *)
(* is n.  Events, which share the lines of the server, are left out.       *)
(***************************************************************************)
EXTENDS Naturals, Functions, JoinedSequences

CONSTANTS MaxCommands, \* bound: commands called
          Long,        \* the commands whose line does not fit the buffer
          Wordy,       \* the commands whose answer is cut (send_error, send_string)
          BufSize      \* pieces recv_buf has room for

Commands == 1 .. MaxCommands

None == 0

ASSUME ChannelAssumption == /\ MaxCommands \in Nat
                            /\ Long \subseteq Commands
                            /\ Wordy \subseteq Commands
                            /\ BufSize \in Nat /\ BufSize >= 2

VARIABLES issued,     \* commands called so far
          settled,    \* their promises: "waiting", "rejected" or "answered"
          answer,     \* the command whose answer settled it, or None
          attempt,    \* _connectPromise: "none", "waiting", "resolved", "rejected"
          pending,    \* _pending
          server,     \* "none", "starting", "listening", "serving" or "gone"
          ready,      \* READY has been written
          socket,     \* of the client: "none", "connecting", "open" or "closed"
          to_server, recv_buf,   \* pieces on their way to the server, and read
          from_server, recvBuf,  \* and back
          executed    \* history: the commands dispatched

client == <<issued, settled, answer, attempt, pending>>
process == <<server, ready>>
lines == <<to_server, recv_buf, from_server, recvBuf, executed>>

vars == <<client, process, socket, lines>>

Init == /\ issued = 0
        /\ settled = [n \in Commands |-> "waiting"]
        /\ answer = [n \in Commands |-> None]
        /\ attempt = "none"
        /\ pending = {}
        /\ server = "none"
        /\ ready = FALSE
        /\ socket = "none"
        /\ to_server = <<>> /\ recv_buf = <<>>
        /\ from_server = <<>> /\ recvBuf = <<>>
        /\ executed = <<>>

-----------------------------------------------------------------------------
\* Lines, and what a reader makes of the pieces it has.
LineLen(n) == IF n \in Long THEN BufSize + 2 ELSE 2

Line(n, len) == [k \in 1 .. len |-> [of |-> n, first |-> k = 1, end |-> k = len]]

Lines(ns) == Joined([k \in DOMAIN ns |-> Line(ns[k], LineLen(ns[k]))])

\* The complete lines, in order; a tail whose beginning is gone does not parse.
Completed(buf, k) ==
  IF buf[k].end /\ \E j \in DOMAIN buf : buf[j].of = buf[k].of /\ buf[j].first
  THEN <<buf[k].of>> ELSE <<>>

Whole(buf) == Joined([k \in DOMAIN buf |-> Completed(buf, k)])

Ends(buf) == {k \in DOMAIN buf : buf[k].end}

Rest(buf) == IF Ends(buf) = {} THEN buf
             ELSE LET last == CHOOSE e \in Ends(buf) : \A k \in Ends(buf) : k <= e
                  IN  SubSeq(buf, last + 1, Len(buf))

-----------------------------------------------------------------------------
\* The writing half of _cmd(): what is written to a closed socket is lost.
Write(ns) == /\ pending' = pending \cup Range(ns)
             /\ to_server' = IF socket' = "open" THEN to_server \o Lines(ns) ELSE to_server
             /\ UNCHANGED <<recv_buf, from_server, recvBuf, executed>>

Rejected(ns) == [n \in Commands |-> IF n \in ns THEN "rejected" ELSE settled[n]]

\* The commands that await the connection.
Awaiting == IF attempt = "waiting" THEN 1 .. issued ELSE {}

Issue == issued < MaxCommands /\ issued' = issued + 1

\* The library finds the binary and spawns it, or _connect() fails at once.
Spawn == \/ /\ attempt' = "waiting"
            /\ server' = "starting"
            /\ UNCHANGED <<settled, ready>>
         \/ /\ attempt' = "rejected"
            /\ settled' = Rejected({issued'})
            /\ UNCHANGED process

\* The first command starts the server.
CallFirst == /\ Issue
             /\ attempt = "none"
             /\ Spawn
             /\ UNCHANGED <<answer, pending, socket, lines>>

\* Others wait for the same attempt, and share its failure.
CallLater == /\ Issue
             /\ attempt \in {"waiting", "rejected"}
             /\ settled' = IF attempt = "rejected" THEN Rejected({issued'}) ELSE settled
             /\ UNCHANGED <<answer, attempt, pending, process, socket, lines>>

CallConnected == /\ Issue
                 /\ attempt = "resolved"
                 /\ UNCHANGED <<settled, answer, attempt, process, socket>>
                 /\ Write(<<issued'>>)

\* The READY line is read, taken to come in one chunk: net.connect().
OnStderr == /\ ready
            /\ socket = "none"
            /\ socket' = "connecting"
            /\ UNCHANGED <<client, process, lines>>

\* The connection is there and every command that awaits it is written.
OnConnect == /\ socket = "connecting"
             /\ server = "listening"
             /\ socket' = "open"
             /\ server' = "serving"
             /\ attempt' = "resolved"
             /\ Write([n \in Awaiting |-> n])
             /\ UNCHANGED <<issued, settled, answer, ready>>

AttemptFails == /\ attempt = "waiting"
                /\ server = "gone"
                /\ attempt' = "rejected"
                /\ settled' = Rejected(Awaiting)
                /\ UNCHANGED <<issued, answer, pending, process, lines>>

\* 'exit' of the child, and 'error' of the socket.
OnExit == AttemptFails /\ UNCHANGED socket

OnConnectError == socket = "connecting" /\ socket' = "closed" /\ AttemptFails

\* _rejectAll(); what the server had written may be lost.
OnClose == /\ socket = "open"
           /\ server = "gone"
           /\ socket' = "closed"
           /\ settled' = Rejected(pending)
           /\ pending' = {}
           /\ to_server' = <<>>
           /\ from_server' = <<>>
           /\ UNCHANGED <<issued, answer, attempt, process, recv_buf, recvBuf, executed>>

\* A slip: an answer is given to the command that has waited longest.
TakenByOldest(ns) == IF ns = <<>> THEN {}
                     ELSE {n \in pending : \A m \in pending : n <= m}

\* _handleLine() for the answers ns: by seq, and nothing for a line that was cut.
Taken(ns) == {n \in Range(ns) : n \in pending /\ n \notin Wordy}

AnswerOf(n, ns) == IF n \in Range(ns) THEN n ELSE Head(ns)

\* A slip: what is answered stays in _pending.
OnDataForgetsNothing ==
          /\ socket = "open"
          /\ \E k \in 1 .. Len(from_server) :
               LET buf == recvBuf \o SubSeq(from_server, 1, k)
                   taken == Taken(Whole(buf))
               IN  /\ recvBuf' = Rest(buf)
                   /\ from_server' = SubSeq(from_server, k + 1, Len(from_server))
                   /\ settled' = [n \in Commands |-> IF n \in taken THEN "answered"
                                                                    ELSE settled[n]]
                   /\ answer' = [n \in Commands |-> IF n \in taken THEN n ELSE answer[n]]
          /\ UNCHANGED <<issued, attempt, pending, process, socket, to_server, recv_buf,
                         executed>>

\* _onSocketData(): a chunk of any size.
OnData == /\ socket = "open"
          /\ \E k \in 1 .. Len(from_server) :
               LET buf == recvBuf \o SubSeq(from_server, 1, k)
                   taken == Taken(Whole(buf))
               IN  /\ recvBuf' = Rest(buf)
                   /\ from_server' = SubSeq(from_server, k + 1, Len(from_server))
                   /\ pending' = pending \ taken
                   /\ settled' = [n \in Commands |-> IF n \in taken THEN "answered"
                                                                    ELSE settled[n]]
                   /\ answer' = [n \in Commands |-> IF n \in taken THEN AnswerOf(n, Whole(buf))
                                                                   ELSE answer[n]]
          /\ UNCHANGED <<issued, attempt, process, socket, to_server, recv_buf, executed>>

-----------------------------------------------------------------------------
\* main() up to accept().
ServerReady == /\ server = "starting"
               /\ server' = "listening"
               /\ ready' = TRUE
               /\ UNCHANGED <<client, socket, lines>>

\* Dispatch of complete lines: each is executed and answered.
Dispatch(ns) ==
  /\ executed' = executed \o ns
  /\ from_server' = from_server \o Joined([k \in DOMAIN ns |-> Line(ns[k], 2)])

Serving == /\ server = "serving"
           /\ to_server # <<>>
           /\ UNCHANGED <<client, process, socket, recvBuf>>

Room == BufSize - Len(recv_buf)

Take(k) == to_server' = SubSeq(to_server, k + 1, Len(to_server))

Smaller(a, b) == IF a < b THEN a ELSE b

\* serve_client(): a read, and what it completes.
Read ==
  /\ Serving
  /\ \E k \in 1 .. Smaller(Room, Len(to_server)) :
       LET buf == recv_buf \o SubSeq(to_server, 1, k) IN
       Take(k) /\ Dispatch(Whole(buf)) /\ recv_buf' = Rest(buf)

\* A slip: the server does not make room and never reads again.
DropsNothing == /\ Serving
                /\ Room = 0
                /\ UNCHANGED <<to_server, recv_buf, from_server, executed>>

\* No room and no newline: the buffer is emptied.
DropBuffer == /\ Serving
              /\ Room = 0
              /\ recv_buf' = <<>>
              /\ UNCHANGED <<to_server, from_server, executed>>

\* A failing initialisation, an assertion, exit(1), or the kill of stop().
ServerDies == /\ server \in {"starting", "listening", "serving"}
              /\ server' = "gone"
              /\ UNCHANGED <<client, ready, socket, lines>>

Next == \/ CallFirst \/ CallLater \/ CallConnected
        \/ OnStderr \/ OnConnect \/ OnExit \/ OnConnectError \/ OnClose \/ OnData
        \/ ServerReady \/ Read \/ DropBuffer \/ ServerDies

\* The server comes up or dies, and reads what is there; the event loop of the client
\* handles what has happened.
Fairness == /\ WF_vars(ServerReady) /\ WF_vars(Read \/ DropBuffer)
            /\ WF_vars(OnStderr) /\ WF_vars(OnConnect)
            /\ WF_vars(OnExit \/ OnConnectError) /\ WF_vars(OnClose)
            /\ WF_vars(OnData)

Spec == Init /\ [][Next]_vars /\ Fairness

-----------------------------------------------------------------------------
Pieces == [of : Commands, first : BOOLEAN, end : BOOLEAN]

TypeOK == /\ issued \in 0 .. MaxCommands
          /\ settled \in [Commands -> {"waiting", "rejected", "answered"}]
          /\ answer \in [Commands -> Commands \cup {None}]
          /\ attempt \in {"none", "waiting", "resolved", "rejected"}
          /\ pending \subseteq Commands
          /\ server \in {"none", "starting", "listening", "serving", "gone"}
          /\ ready \in BOOLEAN
          /\ socket \in {"none", "connecting", "open", "closed"}
          /\ \A s \in {to_server, recv_buf, from_server, recvBuf} : s \in Seq(Pieces)
          /\ Len(recv_buf) <= BufSize
          /\ executed \in Seq(Commands)

(***************************************************************************)
(* A promise that is answered is so with the answer of its own command,     *)
(* which the server has executed, whatever lines were cut, dropped or torn *)
(* apart on the way (_handleLine, serve_client).                           *)
(***************************************************************************)
AnsweredByItsOwn ==
  \A n \in Commands :
     settled[n] = "answered" => answer[n] = n /\ n \in Range(executed)

(***************************************************************************)
(* The server executes commands in the order they were called, none twice  *)
(* (serve_client).                                                         *)
(***************************************************************************)
ExecutedInOrder ==
  \A j, k \in DOMAIN executed : j < k => executed[j] < executed[k]

(***************************************************************************)
(* Library, connection and server implement CommandService: among others,  *)
(* a command whose promise was rejected is not executed later, and none    *)
(* that was answered is rejected when the connection closes (_rejectAll,   *)
(* _handleLine, serve_client).                                             *)
(***************************************************************************)
Service == INSTANCE CommandService

ImplementsService == Service!Spec

(***************************************************************************)
(* A command that fits the buffers settles: it is answered, or rejected    *)
(* when the server dies; commands that do not fit take no other with them. *)
(* (Called once the connection is closed it would wait for ever.)          *)
(***************************************************************************)
FittingCommandsSettle ==
  \A n \in Commands \ (Long \cup Wordy) :
     n <= issued /\ socket # "closed" ~> settled[n] # "waiting"
=============================================================================
