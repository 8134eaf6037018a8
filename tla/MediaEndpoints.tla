--------------------------- MODULE MediaEndpoints ---------------------------
(***************************************************************************)
(* The media of one call (src/src/sip.cpp): the endpoints that the client's *)
(* commands make (process_media), the lines of SDP that offers and answers *)
(* are made of, and what on_media_update() does with the endpoints when a  *)
(* negotiation has been completed.                                         *)
(*                                                                         *)
(* An endpoint is known by its number; its port is that number while it is *)
(* in use and 0 otherwise.  The negotiator is pjmedia's: Reordered and     *)
(* Answer say what the code relies on.  A call has any number of audio     *)
(* media and at most one mrcp medium (TcpMedia).                           *)
(***************************************************************************)
EXTENDS TcpMedia

CONSTANTS Lists,         \* what the client may give as "media"
          Offers,        \* what the peer may offer: sequences of lines
          MaxEndpoints,  \* endpoints made in a call (a bound of the model)
          MaxTraffic,    \* commands about the media, with the messages of the peer on
                         \* the connection of an mrcp medium (a bound of the model)
          Ice            \* audio endpoints use ICE

ASSUME BoundAssumption == MaxEndpoints \in Nat /\ MaxTraffic \in Nat
ASSUME IceAssumption == Ice \in BOOLEAN
ASSUME ListsAssumption ==
  Lists \cup Offers \subseteq Seq([type : {"audio", "mrcp"}, off : BOOLEAN])

VARIABLES outgoing,     \* call->outgoing
          in_call,      \* the call has its id
          endpoints,    \* every MediaEndpoint made, by number
          media,        \* call->media, 0 where nothing was ever put
          media_count,  \* call->media_count
          local_sdp,    \* call->local_sdp: lines [type, port]
          neg,          \* the negotiation: "none", "asked", "offered", "awaiting" or "done"
          offer,        \* the lines the peer offered; <<>> if it asked for an offer
          active,       \* the active local SDP
          line,         \* the line on_media_update() is at, 0 when it does not run
          waiting,      \* restart_media_stream() polls for the end of ICE
          media_update, \* status of the last media_update event
          commands,     \* how many commands there were
          astray,       \* a command did not match the negotiation (a history)
          lost,         \* endpoints whose transport no one can close (a history)
          strays        \* endpoints for which a TCP socket was opened that nothing refers to

call == <<outgoing, in_call>>
table == <<endpoints, media, media_count>>
sdp == <<local_sdp, neg, offer, active>>
update == <<line, waiting, media_update>>
media_vars == <<tcp, call, table, sdp, update, commands, astray, lost, strays>>

Slots == 1 .. MaxEndpoints
Types(lines) == [i \in DOMAIN lines |-> lines[i].type]

MediaInit == /\ TcpInit
             /\ outgoing \in BOOLEAN
             /\ in_call = TRUE
             /\ endpoints = <<>>
             /\ media = [i \in Slots |-> 0]
             /\ media_count = 0
             /\ local_sdp = <<>>
             /\ neg = "none"
             /\ offer = <<>>
             /\ active = <<>>
             /\ line = 0
             /\ waiting = FALSE
             /\ media_update = "none"
             /\ commands = 0
             /\ astray = FALSE
             /\ lost = {}
             /\ strays = {}

-----------------------------------------------------------------------------
(* process_media(), item by item; c is the call as it is then.             *)

\* A slip: the last medium is left out.
CloseAllButLast(c) ==
  [c EXCEPT !.eps = [e \in DOMAIN c.eps |->
                       IF \E i \in 1 .. c.count - 1 : c.media[i] = e
                       THEN [c.eps[e] EXCEPT !.on = FALSE, !.open = FALSE] ELSE c.eps[e]],
            !.count = 0, !.socket = "closed"]

\* close_media(): the pointers stay behind in call->media.
CloseMedia(c) ==
  [c EXCEPT !.eps = [e \in DOMAIN c.eps |->
                       IF \E i \in 1 .. c.count : c.media[i] = e
                       THEN [c.eps[e] EXCEPT !.on = FALSE, !.open = FALSE] ELSE c.eps[e]],
            !.count = 0, !.socket = "closed"]

Current == [eps |-> endpoints, media |-> media, count |-> media_count,
            used |-> {}, sdp |-> <<>>, lost |-> lost, socket |-> "kept",
            failed |-> FALSE, ended |-> FALSE]

\* create_media_endpoint(): audio has a transport, mrcp a listening socket if the call is
\* incoming; with "port": 0 neither.  For a call that has ended nobody closes them.
Created(c, item) ==
  [c EXCEPT !.eps = Append(@, [type |-> item.type, on |-> ~item.off,
                               open |-> ~item.off /\ item.type = "audio"]),
            !.lost = IF c.ended THEN @ \cup {Len(c.eps) + 1} ELSE @,
            !.socket = IF ~item.off /\ item.type = "mrcp" /\ ~outgoing
                       THEN "listening" ELSE @]

Newest(c) == Len(c.eps)
Port(c, e) == IF c.eps[e].on THEN e ELSE 0
AddLine(c, type, port) == [c EXCEPT !.sdp = Append(c.sdp, [type |-> type, port |-> port])]

\* A slip: an endpoint that is off is not found, so that its medium gets a second place.
FoundInUse(c, item) ==
  LET at == {i \in 1 .. c.count : /\ i \notin c.used
                                 /\ c.eps[c.media[i]].type = item.type
                                 /\ c.eps[c.media[i]].on}
  IN  IF at = {} THEN 0 ELSE Min(at)

\* find_media_by_json_descr(): the first endpoint of the type not taken yet, or 0.
Found(c, item) ==
  LET at == {i \in 1 .. c.count : i \notin c.used /\ c.eps[c.media[i]].type = item.type}
  IN  IF at = {} THEN 0 ELSE Min(at)

PutAt(c, i) == [c EXCEPT !.media[i] = Newest(c)]

\* What becomes of an item: an endpoint is taken off, made anew in its place, kept, or added.
Process(c, item) ==
  LET i == Found(c, item)
      old == c.media[i]
      marked == [c EXCEPT !.used = @ \cup {i}]
      anew == PutAt(Created(marked, item), i)
      added == PutAt(Created([marked EXCEPT !.used = (@ \ {0}) \cup {c.count + 1},
                                            !.count = @ + 1], item), c.count + 1)
  IN  CASE i # 0 /\ c.eps[old].on /\ item.off -> AddLine(marked, item.type, 0)
        [] i # 0 /\ ~c.eps[old].on /\ ~item.off -> AddLine(anew, item.type, Newest(anew))
        [] i # 0 /\ c.eps[old].on = ~item.off -> AddLine(marked, item.type, Port(c, old))
        [] i = 0 -> AddLine(added, item.type, Port(added, Newest(added)))

\* The item makes an endpoint that gets a port.
Makes(c, item) == ~item.off /\ (Found(c, item) = 0 \/ ~c.eps[c.media[Found(c, item)]].on)

\* What may go wrong at an item: no port ("refused"); a step of create_media_endpoint() or
\* create_tcp_socket() behind the port ("dropped"), whose transport or socket nobody
\* closes; a step behind that ("stored"); or the call ends in the poll of
\* create_ice_transport() ("ended").
Mishaps == {"refused", "dropped", "stored"} \cup (IF Ice THEN {"ended"} ELSE {})

\* The item opens something: an mrcp medium of an outgoing call does not.
Opens(c, item) == Makes(c, item) /\ (item.type = "audio" \/ ~outgoing)

Failed(c) == [c EXCEPT !.failed = TRUE]

ProcessWith(c, item, mishap) ==
  IF c.failed THEN c
  ELSE CASE mishap = "refused" /\ Opens(c, item) -> Failed(c)
         [] mishap = "dropped" /\ Opens(c, item) ->
              Failed([Created(c, item) EXCEPT !.lost = @ \cup {Newest(c) + 1},
                                              !.socket = c.socket])
         [] mishap = "stored" -> Failed(Process(c, item))
         [] mishap = "ended" /\ Makes(c, item) /\ item.type = "audio" ->
              Process([CloseMedia(c) EXCEPT !.ended = TRUE], item)
         [] OTHER -> Process(c, item)

\* process_media(), for each n, after n items of the list; the mishap is at item k.
ProcessMedia(list, k, mishap) ==
  LET processed[n \in Nat] ==
        IF n = 0 THEN Current
        ELSE ProcessWith(processed[n - 1], list[n], IF n = k THEN mishap ELSE "none")
  IN  processed

\* The endpoints and their sockets are what c says; local_sdp too, unless c failed.
Becomes(c) ==
  /\ endpoints' = c.eps
  /\ media' = c.media
  /\ media_count' = c.count
  /\ lost' = c.lost
  /\ strays' = strays \cup (IF c.ended THEN {}
                           ELSE {e \in c.lost \ lost : c.eps[e].type = "mrcp"})
  /\ local_sdp' = IF c.failed THEN local_sdp ELSE c.sdp
  /\ CASE c.socket = "listening" -> Listen
       [] c.socket = "closed"    -> CloseSocket
       [] c.socket = "kept"      -> UNCHANGED tcp

-----------------------------------------------------------------------------
(* The negotiator (external).                                              *)

Off(type) == [type |-> type, port |-> 0]

\* How many of S there are up to i.
UpTo(S, i) == Cardinality({j \in S : j <= i})

\* Lines are matched in order: the first of a type with the first of that type, and so on.
OfType(lines, type) == {j \in DOMAIN lines : lines[j].type = type}
Rank(lines, i) == UpTo(OfType(lines, lines[i].type), i)

Partners(lines, i, mine) ==
  {j \in DOMAIN mine : mine[j].type = lines[i].type /\ Rank(mine, j) = Rank(lines, i)}

Partner(lines, i, mine) ==
  IF Partners(lines, i, mine) = {} THEN Off(lines[i].type)
  ELSE mine[CHOOSE j \in Partners(lines, i, mine) : TRUE]

\* An offer for a session that has lines: these come first, and then what is new.
Added(old, new) == {j \in DOMAIN new : Partners(new, j, old) = {}}

Nth(S, n) == CHOOSE j \in S : UpTo(S, j) = n

Reordered(old, new) ==
  [i \in 1 .. Len(old) + Cardinality(Added(old, new)) |->
     IF i <= Len(old) THEN Partner(old, i, new) ELSE new[Nth(Added(old, new), i - Len(old))]]

\* Each line of an offer is answered by its partner, one that is off with one that is off.
Answer(lines, mine) ==
  [i \in DOMAIN lines |->
     IF lines[i].off THEN Off(lines[i].type) ELSE Partner(lines, i, mine)]

\* on_media_update() with a negotiation that has succeeded.
Negotiated(lines) == /\ active' = lines
                     /\ neg' = "done"
                     /\ line' = 1
                     /\ UNCHANGED <<offer, waiting, media_update>>

\* What the peer may offer: the lines of the session keep their place (RFC 3264, 8).
Offered == {lines \in Offers \ {<<>>} : IsPrefix(Types(active), Types(lines))}

-----------------------------------------------------------------------------
(* Commands and messages, between two updates.                             *)

Idle == line = 0
Handled == Idle /\ in_call /\ UNCHANGED call
Untouched == UNCHANGED <<tcp, table, local_sdp, commands, astray, lost, strays>>

\* A command with the media of the list, at one of which something may go wrong.
Command(Handler(_, _)) ==
  /\ Idle /\ in_call
  /\ commands + Len(sent) < MaxTraffic
  /\ commands' = commands + 1
  /\ \E list \in Lists : \E mishap \in {"none"} \X {1} \cup Mishaps \X DOMAIN list :
       LET processed == ProcessMedia(list, mishap[2], mishap[1])
       IN  /\ \A n \in DOMAIN list : Len(processed[n].eps) <= MaxEndpoints
           /\ Handler(list, processed[Len(list)])

\* call_create(), with an offer or with "delayed_media": whatever fails closes the media
\* again.
CallCreate ==
  /\ outgoing /\ neg = "none"
  /\ Command(LAMBDA list, c :
       /\ ~c.ended
       /\ Becomes(IF c.failed THEN CloseMedia(c) ELSE c)
       /\ in_call' = ~c.failed
       /\ IF c.failed THEN UNCHANGED neg ELSE neg' \in {"offered", "awaiting"})
  /\ UNCHANGED <<outgoing, offer, active, update, astray>>

\* An INVITE of the peer with an offer, or one without.
RxInvite == /\ Handled
            /\ neg = "done" \/ (neg = "none" /\ ~outgoing)
            /\ neg' = "asked"
            /\ offer' \in Offered \cup (Offers \cap {<<>>})
            /\ UNCHANGED <<local_sdp, active, update>>
            /\ Untouched

\* What was made for a negotiation that does not come about stays with the call.
Leaves(c) == c.eps # endpoints \/ c.media # media

\* pjw_call_respond() with 183 or a 2xx.
Respond ==
  /\ neg = "asked"
  /\ Command(LAMBDA list, c :
       /\ Becomes(c)
       /\ in_call' = ~c.ended
       /\ CASE c.failed \/ c.ended ->
                 /\ astray' = (astray \/ Leaves(c))
                 /\ UNCHANGED <<neg, offer, active, update>>
            [] ~c.failed /\ ~c.ended /\ offer = <<>> ->
                 /\ neg' = "offered"
                 /\ UNCHANGED <<offer, active, update, astray>>
            [] OTHER ->
                 /\ Negotiated(Answer(offer, c.sdp))
                 /\ astray' = (astray \/ Types(list) # Types(offer)))
  /\ UNCHANGED outgoing

\* pjw_call_reinvite(), which looks at the state of the negotiation only after it has made
\* the media; with "delayed_media" the offer is left to the peer.
Reinvite ==
  /\ neg # "none"
  /\ Command(LAMBDA list, c :
       LET sent_off == ~c.failed /\ ~c.ended /\ neg = "done"
       IN  /\ Becomes(c)
           /\ in_call' = ~c.ended
           /\ IF sent_off THEN neg' \in {"offered", "awaiting"} ELSE UNCHANGED neg
           /\ astray' = (astray \/ (~sent_off /\ (Leaves(c) \/ c.sdp # local_sdp))))
  /\ UNCHANGED <<outgoing, offer, active, update>>

\* The peer answers our offer, line by line; a line it refuses is off.
RxAnswer ==
  /\ Handled /\ neg = "offered"
  /\ LET mine == Reordered(active, local_sdp)
     IN  \E refused \in SUBSET DOMAIN mine :
           Negotiated([i \in DOMAIN mine |->
                         IF i \in refused THEN Off(mine[i].type) ELSE mine[i]])
  /\ Untouched

\* on_rx_offer2() with the offer of a 2xx or of an UPDATE: it is answered at once with what
\* was made for the last command, even if that is not what is in force.
OnRxOffer2 ==
  /\ Handled /\ neg \in {"awaiting", "done"}
  /\ \E lines \in Offered :
       /\ Negotiated(Answer(lines, local_sdp))
       /\ astray' = \/ astray
                    \/ Types(lines) # Types(local_sdp)
                    \/ neg = "done" /\ local_sdp # active
  /\ UNCHANGED <<tcp, table, local_sdp, commands, lost, strays>>

\* The peer refuses a re-INVITE, or the client the peer's: the session goes on as it was.
NotAgreed ==
  /\ Handled /\ active # <<>>
  /\ neg \in {"offered", "awaiting", "asked"}
  /\ neg' = "done"
  /\ astray' = (astray \/ local_sdp # active)
  /\ UNCHANGED <<tcp, table, local_sdp, offer, active, update, commands, lost, strays>>

\* An answer that matches nothing: on_media_update() with an error.
NegotiationFails ==
  /\ Handled /\ active # <<>>
  /\ neg = "offered"
  /\ neg' = "done"
  /\ media_update' = "negotiation_failed"
  /\ astray' = (astray \/ local_sdp # active)
  /\ UNCHANGED <<tcp, table, local_sdp, offer, active, line, waiting, commands, lost,
                 strays>>

\* on_state_changed() to DISCONNECTED: in a poll of the main loop or of the wait for ICE.
Disconnected ==
  /\ in_call
  /\ Idle \/ waiting
  /\ in_call' = FALSE
  /\ LET c == CloseMedia(Current)
     IN  endpoints' = c.eps /\ media' = c.media /\ media_count' = c.count
  /\ CloseSocket
  /\ UNCHANGED <<outgoing, sdp, update, commands, astray, lost, strays>>

-----------------------------------------------------------------------------
(* on_media_update(), a line at a time.                                    *)

Updating == /\ line > 0
            /\ UNCHANGED <<call, sdp, commands, astray>>

AtLine == Updating /\ line <= Len(active) /\ ~waiting
Me == media[line]
Endpoint == endpoints[Me]

NextLine == line' = line + 1 /\ UNCHANGED media_update
Returns(status) == line' = 0 /\ media_update' = status
ReturnsUnnoticed == Returns(media_update)

\* A slip: a line that is off leaves its endpoint alone.
LineOffIgnored == /\ AtLine
                  /\ active[line].port = 0
                  /\ NextLine
                  /\ UNCHANGED <<tcp, table, waiting, lost, strays>>

\* A line that is off: close_media_endpoint(), which takes NULL.
LineOff == /\ AtLine
           /\ active[line].port = 0
           /\ IF Me = 0 THEN UNCHANGED <<tcp, endpoints>>
              ELSE /\ endpoints' = [endpoints EXCEPT ![Me].on = FALSE, ![Me].open = FALSE]
                   /\ IF Endpoint.type = "mrcp" THEN CloseSocket ELSE UNCHANGED tcp
           /\ NextLine
           /\ UNCHANGED <<media, media_count, waiting, lost, strays>>

\* restart_media_stream() needs a line of audio and the transport; when a feature port
\* cannot be connected it fails without an event.
LineAudio == /\ AtLine
             /\ active[line].port # 0 /\ Me # 0 /\ Endpoint.type = "audio"
             /\ \/ Returns("setup_failed") /\ UNCHANGED waiting
                \/ /\ Endpoint.open /\ active[line].type = "audio"
                   /\ IF Ice THEN waiting' = TRUE /\ UNCHANGED <<line, media_update>>
                             ELSE (NextLine \/ ReturnsUnnoticed) /\ UNCHANGED waiting
             /\ UNCHANGED <<tcp, table, lost, strays>>

\* The wait for ICE ends: agreed, refused or after ten seconds.
IceDone == /\ Updating
           /\ waiting
           /\ waiting' = FALSE
           /\ NextLine \/ Returns("setup_failed") \/ ReturnsUnnoticed
           /\ UNCHANGED <<tcp, table, lost, strays>>

\* An endpoint of an outgoing call connects, that of an incoming one is listening.
\* start_tcp_media() keeps a socket only at its end: what fails behind its creation leaves
\* it open.
LineMrcp == /\ AtLine
            /\ active[line].port # 0 /\ Me # 0 /\ Endpoint.type = "mrcp"
            /\ \/ /\ NextLine
                  /\ IF outgoing THEN StartTcpMedia ELSE UNCHANGED tcp
                  /\ lost' = IF in_call \/ ~outgoing THEN lost ELSE lost \cup {Me}
                  /\ UNCHANGED strays
               \/ /\ outgoing /\ asock = "none"
                  /\ Returns("tcp_failed")
                  /\ strays' \in {strays, strays \cup {Me}}
                  /\ UNCHANGED <<tcp, lost>>
            /\ UNCHANGED <<table, waiting>>

\* find_sdp_media_by_media_endpt(): 0 for the -1 that is used as an index.
LineOf(e) ==
  LET at == {i \in DOMAIN active :
               active[i] = [type |-> endpoints[e].type, port |-> IF endpoints[e].on THEN e ELSE 0]}
  IN  IF at = {} THEN 0 ELSE Min(at)

\* gen_media_json(): every endpoint of the call, with the line that is found for it.
Reports == {[medium |-> media[i], line |-> LineOf(media[i])] : i \in 1 .. media_count}

UpdateOk == /\ Updating
            /\ line = Len(active) + 1
            /\ Returns("ok")
            /\ UNCHANGED <<tcp, table, waiting, lost, strays>>

InUse == {e \in {media[i] : i \in 1 .. media_count} : endpoints[e].on}

\* Callbacks of the socket, in the same polls; on_accept_complete() leaves the new
\* connection open when it cannot be taken over.
TcpMedia == /\ Idle
            /\ TcpStep
            /\ commands + Len(sent') <= MaxTraffic
            /\ strays' = IF asock = "listening" /\ asock' = "deaf"
                         THEN strays \cup {e \in InUse : endpoints[e].type = "mrcp"} ELSE strays
            /\ UNCHANGED <<call, table, sdp, update, commands, astray, lost>>

MediaNext == \/ CallCreate \/ RxInvite \/ Respond \/ Reinvite
             \/ RxAnswer \/ OnRxOffer2 \/ NotAgreed \/ NegotiationFails
             \/ LineOff \/ LineAudio \/ IceDone \/ LineMrcp \/ UpdateOk
             \/ Disconnected
             \/ TcpMedia

MediaSpec == MediaInit /\ [][MediaNext]_media_vars

-----------------------------------------------------------------------------
ActivePorts == {active[i].port : i \in DOMAIN active} \ {0}

(***************************************************************************)
(* As long as the client answers the lines it was offered in their order,  *)
(* no command came to nothing, and no UPDATE of the peer was answered with *)
(* an SDP that is not the one in force, on_media_update() finds at each    *)
(* line the endpoint the line was made for, and never closes one that      *)
(* another line needs: index i of the SDP and index i of call->media are   *)
(* the same medium, although one is ordered by the peer's offer and the    *)
(* other by the client's commands.                                         *)
(***************************************************************************)
LinesMeetEndpoints ==
  ~astray /\ in_call /\ line \in DOMAIN active =>
    IF active[line].port # 0 THEN Me = active[line].port ELSE Me \notin ActivePorts

(***************************************************************************)
(* When media_update says "ok", each medium of the call is reported with   *)
(* a line that is its own, that off ones are off, and no line that is on   *)
(* is left out (gen_media_json reads local_sdp->media[-1] when it finds    *)
(* no line), with the same exceptions.                                     *)
(***************************************************************************)
ReportedIsActive ==
  ~astray /\ in_call /\ line = Len(active) + 1 /\ ~waiting =>
    /\ \A r \in Reports : r.line # 0
    /\ ActivePorts = {r.medium : r \in {x \in Reports : active[x.line].port # 0}}

(***************************************************************************)
(* A transport that is open is that of a medium in use of a call that has  *)
(* not ended, so that the end of the medium or of the call will close it,  *)
(* and so is the socket of an mrcp medium.  The exceptions (lost) are what *)
(* an error path of create_media_endpoint() or the end of the call within  *)
(* the wait for ICE left behind, and a socket that was connected for a     *)
(* line which is not its endpoint's (astray).  Nothing is said of sockets  *)
(* that never became an endpoint's (strays): start_tcp_media() and         *)
(* on_accept_complete() leave them open when one of their later steps      *)
(* fails, and create_tcp_socket() does too.                                *)
(***************************************************************************)
TransportsAccounted ==
  LET closable == (IF in_call THEN InUse ELSE {}) \cup lost
  IN  /\ {e \in DOMAIN endpoints : endpoints[e].open} \subseteq closable
      /\ asock # "none" /\ ~astray => \E e \in closable : endpoints[e].type = "mrcp"
=============================================================================
