----------------------------- MODULE Transports -----------------------------
(***************************************************************************)
(* The transports a client creates and destroys (src/src/sip.cpp), the     *)
(* WebSocket transport under two of their kinds                            *)
(* (src/src/pjsip/src/pjsip/sip_transport_ws.c), and the requests that     *)
(* come in through them.  A Transport holds a pointer to an object of      *)
(* pjsip: a socket ("udp"), a factory of connections ("tcp", "tls"), a     *)
(* WebSocket listener ("ws") or a connection to one ("wsc").  An incoming  *)
(* request shows the local address of the object it came through, and a    *)
(* map from such tags leads to the id of the Transport.                    *)
(*                                                                         *)
(* What is read through a dangling pointer is anything: the model stops at *)
(* such a read, with the fault it found ("wss" is "ws" with another name). *)
(***************************************************************************)
EXTENDS Integers

CONSTANTS Kinds,      \* of transports: some of "udp", "tcp", "tls", "ws" and "wsc"
          Ids,        \* of g_transport_ids
          Ports,      \* that may be bound; a scan tries them from the least
          Hosts,      \* that may be bound: "lo" is an address, "any" is 0.0.0.0
          MaxObjects  \* bound on the objects of pjsip there are at once

ASSUME KindsAssumption == Kinds \subseteq {"udp", "tcp", "tls", "ws", "wsc"}
ASSUME IdsAssumption == Ids \subseteq Nat \ {0}
ASSUME PortsAssumption == Ports \subseteq Nat \ {0}
ASSUME HostsAssumption == Hosts \subseteq {"lo", "any"}
ASSUME MaxObjectsAssumption == MaxObjects \in Nat

VARIABLES g_transport_ids,  \* id -> Transport: its tag, and its object (0 if that is gone)
          g_TransportMap,   \* tag -> id
          tp,               \* the objects of pjsip
          connecting,       \* the object transport_create waits for, 0 if none
          error,            \* a callback has set pjw_errorstring during the wait
          told,             \* the ids the client was told of, and has not given back
          call,             \* the Transport a call points to, by its id; there is one call at most
          fault,            \* why the server is gone, "none" while it is up
          careless          \* the client, or a peer, did what the server does not bear

registry == <<g_transport_ids, g_TransportMap>>
server == <<registry, tp, connecting, error, told, call>>
vars == <<server, fault, careless>>

Objects == 1..MaxObjects
Tags == [type : {"udp", "tcp", "tls", "ws"}, host : {"lo", "any", "nic"}, port : Ports \cup {0}]
Nothing == [kind |-> "nothing"]
NoCall == 0
Deleted == -1
Empty == [x \in {} |-> 0]

There == {o \in Objects : tp[o] # Nothing}
Pointed == {g_transport_ids[id].object : id \in DOMAIN g_transport_ids}
Up == fault = "none"
Idle == Up /\ connecting = 0

Init == /\ g_transport_ids = Empty
        /\ g_TransportMap = Empty
        /\ tp = [o \in Objects |-> Nothing]
        /\ connecting = 0
        /\ error = FALSE
        /\ told = {}
        /\ call = NoCall
        /\ fault = "none"
        /\ careless = FALSE

-----------------------------------------------------------------------------
(* Names and ports. *)

\* build_transport_tag() of the parameters, which name ws listeners and clients alike.
Tag(kind, host, port) ==
    [type |-> IF kind = "wsc" THEN "ws" ELSE kind, host |-> host, port |-> port]

\* build_transport_tag_from_pjsip_transport(): what the packets of an object show.  A
\* WebSocket listener keeps the address it was given, the others show that of an
\* interface; a WebSocket client shows 127.0.0.1 and the port of its peer.
Wire(kind, host, port) ==
    Tag(kind, IF kind # "ws" /\ host = "any" THEN "nic" ELSE host, port)

\* tcp, tls and ws share the ports of TCP.
Bound(kind) == {tp[o].wire.port : o \in {x \in There : /\ tp[x].open
                                                       /\ (tp[x].kind = "udp") = (kind = "udp")}}
Free(kind) == Ports \ Bound(kind)

\* create_udp_transport(), create_tcp_tpfactory(), create_tls_tpfactory(): the first
\* port that can be bound.
Scan(kind) == {p \in Free(kind) : \A q \in Free(kind) : p <= q}
Bindable(kind, port) == IF port = 0 THEN Scan(kind) ELSE Free(kind) \cap {port}

\* held: by a dialog, a registration or a transaction;
\* ws and connected are the fields of struct ws_transport.
Object(kind, wire) ==
    [kind |-> kind, wire |-> wire, open |-> kind \in {"udp", "tcp", "tls", "ws"},
     held |-> FALSE, life |-> "up",
     ws |-> kind \in {"wsc", "wsconn"}, connected |-> kind = "wsconn"]

Slot == {o \in Objects \ There : \A x \in Objects \ There : o <= x}

-----------------------------------------------------------------------------
(* Ends of objects. *)

\* on_ws_rx_msg(), of a close or an error.
RxClose(object) == [object EXCEPT !.connected = FALSE, !.ws = FALSE, !.life = "closed"]

\* pjsip_transport_shutdown() of a WebSocket object, with ws_do_shutdown(); the one of
\* a listener does nothing, so that its socket stays.
ShutDown(object) ==
    IF object.life = "up" THEN [object EXCEPT !.life = "shut", !.ws = FALSE] ELSE object

\* A slip: nothing is closed.
StoppedNot(object) == object

\* What pjw_transport_destroy() does of each kind, and pjw_transport_create() when
\* there is no id: the socket or the factory goes, a WebSocket object is shut.
Stopped(object) == IF object.kind \in {"udp", "tcp", "tls"} THEN Nothing ELSE ShutDown(object)

-----------------------------------------------------------------------------
(* pjw_transport_create() *)

\* insert() leaves an entry that is there.
MapInsert(tag, id) ==
    g_TransportMap' = [t \in DOMAIN g_TransportMap \cup {tag} |->
                          IF t \in DOMAIN g_TransportMap THEN g_TransportMap[t] ELSE id]

\* The object is there: its Transport gets an id and a tag.  An error that a callback
\* set while a connection was waited for makes the command fail all the same.
Enter(o, object, tag, failed) ==
    LET twins == {id \in DOMAIN g_transport_ids : g_transport_ids[id].tag = tag}
        free == Ids \ DOMAIN g_transport_ids
    IN \/ /\ free = {}
          /\ tp' = [tp EXCEPT ![o] = Stopped(object)]
          /\ careless' = (careless \/ object.kind = "ws" \/ object.held)
          /\ UNCHANGED <<registry, told>>
       \/ /\ \E id \in free :
               /\ g_transport_ids' = [i \in DOMAIN g_transport_ids \cup {id} |->
                                         IF i = id THEN [tag |-> tag, object |-> o]
                                         ELSE g_transport_ids[i]]
               /\ MapInsert(tag, id)
               /\ told' = IF failed THEN told ELSE told \cup {id}
          /\ tp' = [tp EXCEPT ![o] = object]
          /\ careless' = (careless \/ tag # object.wire \/ twins # {})

\* A slip: what a callback has left is not cleared.
NotCleared == error

\* clear_error(), with which every command begins.
Cleared == FALSE

CreateCommand == /\ Idle
                 /\ error' = Cleared
                 /\ UNCHANGED <<call, fault>>

\* An object with a socket of its own is bound, or the system refuses.
Create(kind, ports) ==
    /\ CreateCommand
    /\ \E host \in Hosts, port \in ports, o \in Slot :
         \E p \in Bindable(kind, port) :
              Enter(o, Object(kind, Wire(kind, host, p)), Tag(kind, host, p), Cleared)
    /\ UNCHANGED connecting

CreateUdp == "udp" \in Kinds /\ Create("udp", Ports \cup {0})
CreateFactory == \E kind \in Kinds \cap {"tcp", "tls"} : Create(kind, Ports \cup {0})
StartWs == "ws" \in Kinds /\ Create("ws", Ports)

WsClient(remote) == Object("wsc", Wire("wsc", "lo", remote))

\* pjsip_ws_transport_connect(): the object is made and registered, and the command
\* waits for the connection, polling pjsip meanwhile; unless the connection fails at
\* once, which shuts the object.
ConnectWs ==
    /\ CreateCommand
    /\ "wsc" \in Kinds
    /\ \E remote \in Ports, o \in Slot :
         \/ /\ tp' = [tp EXCEPT ![o] = WsClient(remote)]
            /\ connecting' = o
         \/ /\ tp' = [tp EXCEPT ![o] = ShutDown(WsClient(remote))]
            /\ UNCHANGED connecting
    /\ UNCHANGED <<registry, told, careless>>

Answered(object) == \/ /\ object.connected
                        /\ \E port \in {0, object.wire.port} :
                             Enter(connecting, object, Tag("wsc", "lo", port), error)
                    \/ /\ ~object.connected
                       /\ tp' = [tp EXCEPT ![connecting] = ShutDown(object)]
                       /\ UNCHANGED <<registry, told, careless>>

\* A slip: there is no end to the wait for a result.
ConnectWaits ==
    /\ Up
    /\ connecting # 0
    /\ tp[connecting].connected \/ ~tp[connecting].ws
    /\ Answered(tp[connecting])
    /\ connecting' = 0
    /\ UNCHANGED <<error, call, fault>>

\* The connection is there, or failed, or the wait of five seconds is over.  The tag is
\* made of the port the client gave, if any.
ConnectReturns ==
    /\ Up
    /\ connecting # 0
    /\ Answered(tp[connecting])
    /\ connecting' = 0
    /\ UNCHANGED <<error, call, fault>>

-----------------------------------------------------------------------------
(* pjw_transport_destroy() *)

\* A slip: the tag stays.
KeepTag(tag) == UNCHANGED g_TransportMap

\* A slip: the type does not tell tags apart.
ErasePort(tag) == g_TransportMap' = [t \in {u \in DOMAIN g_TransportMap : u.port # tag.port}
                                        |-> g_TransportMap[t]]

\* The entry of the tag goes, whosever it is.
EraseTag(tag) == g_TransportMap' = [t \in DOMAIN g_TransportMap \ {tag} |-> g_TransportMap[t]]

\* What a client should not destroy: what is in use, and what has connections of its own.
Needed(id) == LET object == tp[g_transport_ids[id].object]
              IN call = id \/ object.held \/ object.kind \in {"tcp", "tls", "ws"}

TransportDestroy(id) ==
    LET o == g_transport_ids[id].object
    IN /\ Idle
       /\ o # 0
       /\ tp' = [tp EXCEPT ![o] = Stopped(@)]
       /\ g_transport_ids' = [i \in DOMAIN g_transport_ids \ {id} |-> g_transport_ids[i]]
       /\ EraseTag(g_transport_ids[id].tag)
       /\ told' = told \ {id}
       /\ call' = IF call = id THEN Deleted ELSE call
       /\ careless' = (careless \/ Needed(id))
       /\ UNCHANGED <<connecting, error, fault>>

-----------------------------------------------------------------------------
(* Faults: what is read through a pointer to nothing. *)

\* The server is gone, and its state with it.
Fault(why, risked) == /\ fault' = why
                      /\ careless' = (careless \/ risked)
                      /\ g_transport_ids' = Empty
                      /\ g_TransportMap' = Empty
                      /\ tp' = [o \in Objects |-> Nothing]
                      /\ connecting' = 0
                      /\ error' = FALSE
                      /\ told' = {}
                      /\ call' = NoCall

\* A command that names a transport reads its object, and pjw_transport_get_info() reads
\* a field that is never set for tcp and tls.
ReadEntry(id) ==
    LET o == g_transport_ids[id].object
    IN /\ Idle
       /\ \/ o = 0 /\ Fault("entry", FALSE)
          \/ o # 0 /\ tp[o].kind \in {"tcp", "tls"} /\ Fault("entry", TRUE)

\* process_media() reads the Transport of the call.
CallNegotiates == Idle /\ call = Deleted /\ Fault("call", FALSE)

CallEnds == /\ Up
            /\ call # NoCall
            /\ call' = NoCall
            /\ UNCHANGED <<registry, tp, connecting, error, told, fault, careless>>

-----------------------------------------------------------------------------
(* What comes from the network.  Callbacks run in a poll between commands, and in the *)
(* wait for a WebSocket connection.                                                   *)

\* A connection to a listener.  A WebSocket listener goes on listening when its object
\* is gone, and on_ws_accept_complete() reads the object's name.
Accept(o) ==
    /\ Up
    /\ tp[o].open
    /\ tp[o].kind # "udp"
    /\ \/ tp[o].life = "freed" /\ Fault("listener", FALSE)
       \/ /\ tp[o].life # "freed"
          /\ \E new \in Slot, kind \in {IF tp[o].kind = "ws" THEN "wsconn" ELSE "conn"} :
               tp' = [tp EXCEPT ![new] = Object(kind, tp[o].wire)]
          /\ UNCHANGED <<registry, connecting, error, told, call, fault, careless>>

\* A packet is handed to pjsip.
Receives(o) == /\ Up
               /\ \/ tp[o].kind \in {"udp", "conn"}
                  \/ tp[o].kind \in {"wsc", "wsconn"} /\ tp[o].connected /\ tp[o].ws

\* The ids on_rx_request() finds for what comes in through o: one or none.
FoundFor(wire) == {g_TransportMap[t] : t \in DOMAIN g_TransportMap \cap {wire}}

\* An INVITE through a transport that is not found is the end of the server.
RxInvite(o) ==
    /\ Receives(o)
    /\ \/ FoundFor(tp[o].wire) = {} /\ Fault("exit", o = connecting)
       \/ /\ call = NoCall
          /\ call' \in FoundFor(tp[o].wire)
          /\ UNCHANGED <<registry, tp, connecting, error, told, fault, careless>>

\* dlg_set_transport() or the media of the answer fail, and leave their error to the
\* command that polls.
RxInviteFails(o) ==
    /\ Receives(o)
    /\ connecting # 0
    /\ error' = TRUE
    /\ UNCHANGED <<registry, tp, connecting, told, call, fault, careless>>

-----------------------------------------------------------------------------
(* A WebSocket connection. *)

\* What points to an object that is gone points to nothing.
Becomes(o, object) ==
    /\ tp' = [tp EXCEPT ![o] = object]
    /\ g_transport_ids' = [id \in DOMAIN g_transport_ids |->
                             IF g_transport_ids[id].object = o /\ object.kind = "nothing"
                             THEN [g_transport_ids[id] EXCEPT !.object = 0]
                             ELSE g_transport_ids[id]]
    /\ UNCHANGED <<g_TransportMap, connecting, error, told, call, fault>>

Socket(o) == Up /\ tp[o].kind \in {"wsc", "wsconn"} /\ tp[o].ws

\* on_ws_connect_complete()
OnConnectComplete(o) == /\ Socket(o)
                        /\ o = connecting
                        /\ ~tp[o].connected
                        /\ \/ Becomes(o, [tp[o] EXCEPT !.connected = TRUE])
                           \/ Becomes(o, ShutDown([tp[o] EXCEPT !.ws = FALSE]))
                        /\ UNCHANGED careless

Known(o) == o \in Pointed \cup {connecting}

OnRxClose(o) == /\ Socket(o)
                /\ tp[o].connected
                /\ Becomes(o, RxClose(tp[o]))
                /\ careless' = (careless \/ Known(o))

\* on_ws_state_change(), of a connection that closes.
OnStateChange(o) == /\ Socket(o)
                    /\ tp[o].connected
                    /\ Becomes(o, ShutDown(tp[o]))
                    /\ careless' = (careless \/ Known(o) \/ tp[o].held)

\* A dialog, a registration or a transaction keeps the object, until it is done.
Hold(o) == /\ Up
           /\ tp[o].kind \in {"wsc", "wsconn"}
           /\ ~tp[o].held
           /\ tp[o].life = "up" \/ Known(o)
           /\ Becomes(o, [tp[o] EXCEPT !.held = TRUE])
           /\ UNCHANGED careless

Release(o) == /\ Up
              /\ tp[o].kind \in {"wsc", "wsconn"}
              /\ tp[o].held
              /\ Becomes(o, [tp[o] EXCEPT !.held = FALSE])
              /\ UNCHANGED careless

\* ws_send_msg() sends nothing unless connected, and does not look at the pointer.
SendMsg(o) == /\ Up
              /\ tp[o].kind \in {"wsc", "wsconn"}
              /\ tp[o].held
              /\ tp[o].connected /\ ~tp[o].ws
              /\ Fault("send", FALSE)

\* pjsip destroys a WebSocket object that is held by nobody, at once if it is shut and
\* else when it has been idle for a while: ws_destroy() and lis_tp_destroy().  An accepted connection of TCP just goes.
Destroyed(o) ==
    /\ Up
    /\ o # connecting
    /\ \/ /\ tp[o].kind \in {"wsc", "wsconn"}
          /\ ~tp[o].held
          /\ Becomes(o, Nothing)
       \/ /\ tp[o].kind = "ws"
          /\ tp[o].life = "shut"
          /\ Becomes(o, [tp[o] EXCEPT !.life = "freed"])
       \/ tp[o].kind = "conn" /\ Becomes(o, Nothing)
    /\ careless' = (careless \/ Known(o))

-----------------------------------------------------------------------------
Command == \/ CreateUdp
           \/ CreateFactory
           \/ StartWs
           \/ ConnectWs
           \/ \E id \in told : TransportDestroy(id) \/ ReadEntry(id)

Network(o) == \/ Accept(o)
              \/ RxInvite(o)
              \/ RxInviteFails(o)
              \/ OnConnectComplete(o)
              \/ OnRxClose(o)
              \/ OnStateChange(o)

Pjsip(o) == Hold(o) \/ Release(o) \/ SendMsg(o) \/ Destroyed(o)

Next == \/ Command
        \/ ConnectReturns
        \/ CallNegotiates
        \/ CallEnds
        \/ \E o \in There : Network(o) \/ Pjsip(o)

\* The wait for a connection ends by the clock.
Spec == Init /\ [][Next]_vars /\ WF_vars(ConnectReturns)

-----------------------------------------------------------------------------
Record == [kind : {"udp", "tcp", "tls", "ws", "wsc", "conn", "wsconn"}, wire : Tags,
           open : BOOLEAN, held : BOOLEAN, life : {"up", "closed", "shut", "freed"},
           ws : BOOLEAN, connected : BOOLEAN]

\* Everything has its type; an entry points to an object that is there, or to nothing.
TypeOK ==
    /\ DOMAIN g_transport_ids \subseteq Ids
    /\ \A id \in DOMAIN g_transport_ids :
         g_transport_ids[id] \in [tag : Tags, object : {0} \cup There]
    /\ DOMAIN g_TransportMap \subseteq Tags
    /\ tp \in [Objects -> Record \cup {Nothing}]
    /\ connecting \in {0} \cup There
    /\ error \in BOOLEAN
    /\ told \subseteq Ids
    /\ call \in {NoCall, Deleted} \/ call \in DOMAIN g_transport_ids
    /\ fault \in {"none", "exit", "call", "entry", "listener", "send"}
    /\ careless \in BOOLEAN

\* A tag in g_TransportMap leads to an id of the table, whose Transport has that tag:
\* what on_rx_request() finds under a tag is no transport that is gone, nor another one
\* that has the id now.
TagsLead == \A tag \in DOMAIN g_TransportMap :
              /\ g_TransportMap[tag] \in DOMAIN g_transport_ids
              /\ g_transport_ids[g_TransportMap[tag]].tag = tag

\* A socket that is bound is that of a transport in the table: a failing
\* transport_create and a transport_destroy leave none behind.  Only a WebSocket
\* listener's stays, since pjsip_transport_shutdown() does not close it.
NoStraySocket == \A o \in There : tp[o].open => o \in Pointed \/ tp[o].kind = "ws"

\* The ids a client was told of are those of the table: a transport_create that is told
\* to have failed made none.  Only one of a WebSocket client, which waits for its
\* connection, may have, when a callback that ran meanwhile left its own error in
\* pjw_errorstring; the tag of a WebSocket listener is not told from a client's.
ClientKnows ==
    /\ told \subseteq DOMAIN g_transport_ids
    /\ \A id \in DOMAIN g_transport_ids \ told : g_transport_ids[id].tag.type = "ws"

\* The server survives what comes in, as long as the tags of the transports are theirs
\* alone and as their packets show them, no listener or transport in use is destroyed
\* or left without an id, no WebSocket connection ends while its id is there or is only
\* seen closing under a dialog, and nobody calls through one before transport_create
\* has returned.
StaysUp == Up \/ careless

\* transport_create of a WebSocket client returns.
ConnectReturned == connecting # 0 ~> connecting = 0
=============================================================================
