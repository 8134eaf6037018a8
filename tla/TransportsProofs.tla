--------------------------- MODULE TransportsProofs ---------------------------
(***************************************************************************)
(* For any number of transports, ports and objects of pjsip: tags and ids  *)
(* lead to the transports they are of, no socket stays bound behind the    *)
(* table, and the server survives what is not careless.                    *)
(***************************************************************************)
EXTENDS Transports, TLAPS

Own == {"udp", "tcp", "tls", "ws", "wsc"}
Sockets == {"udp", "tcp", "tls", "ws"}
Listeners == {"tcp", "tls", "ws"}
Accepted == {"conn", "wsconn"}
Web == {"wsc", "wsconn"}

Entry(id) == g_transport_ids[id]

\* Two Transports have objects of their own, which no command still waits for.
Distinct ==
    /\ \A i, j \in DOMAIN g_transport_ids :
         Entry(i).object # 0 /\ Entry(i).object = Entry(j).object => i = j
    /\ connecting # 0 => connecting \notin Pointed /\ tp[connecting].kind = "wsc"

\* A socket belongs to an entry, and the end of a connection takes its socket away.
ObjectOK(o) ==
    LET t == tp[o]
    IN  /\ t.open => t.kind \in Sockets /\ (o \in Pointed \/ t.kind = "ws")
        /\ t.kind \in Web /\ t.life # "up" => ~t.ws

\* Unless the client or a peer was careless: an entry has an object, and its tag leads to
\* it alone.
EntryOK(id) == /\ Entry(id).object # 0
               /\ tp[Entry(id).object].kind \in Own
               /\ Entry(id).tag \in DOMAIN g_TransportMap
               /\ g_TransportMap[Entry(id).tag] = id

\* What comes in through o belongs to a Transport: that of o, or that of the listener
\* that accepted o.
HasEntry(o) ==
    \E id \in DOMAIN g_transport_ids :
       /\ Entry(id).tag = tp[o].wire
       /\ \/ Entry(id).object = o
          \/ tp[o].kind \in Accepted /\ tp[Entry(id).object].kind \in Listeners

\* What may be written to has its socket, and what listens is not freed.
Careful(o) ==
    LET t == tp[o]
    IN  /\ o # connecting /\ (t.kind \in Web => t.ws) => HasEntry(o)
        /\ t.kind \in Listeners => t.life = "up"
        /\ t.kind \in Web /\ (t.held \/ Known(o) \/ t.life = "up") /\ t.connected => t.ws

AllCareful == /\ call # Deleted
              /\ \A id \in DOMAIN g_transport_ids : EntryOK(id)
              /\ \A o \in There : Careful(o)

IInv == /\ TypeOK
        /\ TagsLead
        /\ ClientKnows
        /\ Distinct
        /\ \A o \in There : ObjectOK(o)
        /\ careless \/ AllCareful
        /\ StaysUp

LEMMA Basics ==
  /\ Nothing.kind = "nothing"
  /\ Nothing \notin Record
  /\ 0 \notin Objects
  /\ 0 \notin Ids /\ -1 \notin Ids
<1>1. \A r \in Record : r.kind # "nothing"
  BY DEF Record
<1>2. 0 \notin Objects
  BY MaxObjectsAssumption DEF Objects
<1>3. 0 \notin Ids /\ -1 \notin Ids
  BY IdsAssumption
<1> QED BY <1>1, <1>2, <1>3 DEF Nothing

LEMMA ThereFacts ==
  ASSUME IInv
  PROVE  /\ There \subseteq Objects /\ 0 \notin There
         /\ \A o \in There : tp[o] \in Record
         /\ \A o \in Objects : o \in There <=> tp[o] \in Record
         /\ \A o \in Objects \ There : tp[o] = Nothing
         /\ Pointed \subseteq There \cup {0}
         /\ \A id \in DOMAIN g_transport_ids :
              /\ Entry(id) \in [tag : Tags, object : {0} \cup There]
              /\ Entry(id).object \in Pointed
              /\ id \in Ids /\ id # 0 /\ id # Deleted
<1>1. /\ There \subseteq Objects /\ 0 \notin There
      /\ \A o \in There : tp[o] \in Record
      /\ \A o \in Objects : o \in There <=> tp[o] \in Record
      /\ \A o \in Objects \ There : tp[o] = Nothing
  BY Basics DEF There, IInv, TypeOK
<1>2. ASSUME NEW id \in DOMAIN g_transport_ids
      PROVE  /\ Entry(id) \in [tag : Tags, object : {0} \cup There]
             /\ Entry(id).object \in Pointed
             /\ id \in Ids /\ id # 0 /\ id # Deleted
  BY Basics DEF IInv, TypeOK, Entry, Pointed, Deleted
<1>3. Pointed \subseteq There \cup {0}
  BY DEF IInv, TypeOK, Pointed
<1> QED BY <1>1, <1>2, <1>3

LEMMA ShutDownIs ==
  ASSUME NEW t \in Record
  PROVE  /\ ShutDown(t) \in Record
         /\ ShutDown(t).kind = t.kind /\ ShutDown(t).wire = t.wire /\ ShutDown(t).open = t.open
         /\ ShutDown(t).held = t.held /\ ShutDown(t).connected = t.connected
         /\ ShutDown(t).life # "up"
         /\ ShutDown(t).ws = (t.ws /\ t.life # "up")
BY DEF ShutDown, Record

(***************************************************************************)
(* The end of the server leaves nothing, and must be somebody's fault.     *)
(***************************************************************************)
LEMMA FaultInv ==
  ASSUME IInv, NEW why \in {"exit", "call", "entry", "listener", "send"}, NEW risked \in BOOLEAN,
         Fault(why, risked), careless \/ risked
  PROVE  IInv'
<1>1. /\ DOMAIN g_transport_ids' = {} /\ DOMAIN g_TransportMap' = {}
      /\ tp' = [o \in Objects |-> Nothing] /\ connecting' = 0 /\ error' = FALSE
      /\ told' = {} /\ call' = NoCall /\ fault' = why /\ careless' = TRUE
  BY DEF Fault, Empty, IInv, TypeOK
<1>2. There' = {}
  BY <1>1 DEF There
<1>3. TypeOK'
  BY <1>1 DEF TypeOK
<1> QED BY <1>1, <1>2, <1>3 DEF IInv, TagsLead, ClientKnows, Distinct, StaysUp

(***************************************************************************)
(* An object changes, and stays what it is.                                *)
(***************************************************************************)
LEMMA BecomesInv ==
  ASSUME IInv, Up, NEW o \in There, NEW t \in Record, Becomes(o, t),
         t.kind = tp[o].kind, t.wire = tp[o].wire, t.open = tp[o].open,
         t.kind \in Web /\ t.life # "up" => ~t.ws,
         careless' \in BOOLEAN, careless => careless',
         ~careless' => /\ t.kind \in Listeners => t.life = "up"
                       /\ t.kind \in Web /\ o # connecting /\ t.ws => tp[o].ws
                       /\ t.kind \in Web /\ (t.held \/ Known(o) \/ t.life = "up") /\ t.connected
                            => t.ws
  PROVE  IInv'
<1>1. /\ DOMAIN g_transport_ids' = DOMAIN g_transport_ids
      /\ \A id \in DOMAIN g_transport_ids : g_transport_ids'[id] = g_transport_ids[id]
      /\ UNCHANGED <<g_TransportMap, connecting, error, told, call, fault>>
  BY DEF Becomes, Record
<1>2. /\ tp' \in [Objects -> Record \cup {Nothing}]
      /\ tp'[o] = t
      /\ \A x \in Objects \ {o} : tp'[x] = tp[x]
  BY DEF Becomes, IInv, TypeOK, There
<1>3. There' = There /\ Pointed' = Pointed
  BY <1>1, <1>2, Basics, ThereFacts DEF There, Pointed
<1>4. /\ \A x \in There : tp'[x].kind = tp[x].kind /\ tp'[x].wire = tp[x].wire
                                                  /\ tp'[x].open = tp[x].open
      /\ \A x \in Objects : Known(x)' = Known(x)
  BY <1>1, <1>2, <1>3, ThereFacts DEF Known
<1>5. TypeOK'
  BY <1>1, <1>2, <1>3 DEF IInv, TypeOK
<1>6. TagsLead' /\ ClientKnows'
  BY <1>1 DEF IInv, TagsLead, ClientKnows
<1>7. Distinct'
  BY <1>1, <1>3, <1>4, ThereFacts DEF IInv, Distinct, Entry, TypeOK
<1>8. \A x \in There' : ObjectOK(x)'
  <2> SUFFICES ASSUME NEW x \in There PROVE ObjectOK(x)'
    BY <1>3
  <2>1. ObjectOK(x)
    BY DEF IInv
  <2>2. CASE x = o
    BY <1>2, <1>3, <2>1, <2>2 DEF ObjectOK
  <2>3. CASE x # o
    BY <1>2, <1>3, <2>1, <2>3, ThereFacts DEF ObjectOK
  <2> QED BY <2>2, <2>3
<1>9. ASSUME ~careless' PROVE AllCareful'
  <2>1. AllCareful
    BY <1>9 DEF IInv
  <2>2. ASSUME NEW id \in DOMAIN g_transport_ids PROVE EntryOK(id)'
    BY <1>1, <1>4, <2>1, ThereFacts DEF AllCareful, EntryOK, Entry
  <2>3. ASSUME NEW x \in There PROVE Careful(x)'
    <3>1. Careful(x) /\ x \in Objects
      BY <2>1, ThereFacts DEF AllCareful
    <3>2. ASSUME HasEntry(x) PROVE HasEntry(x)'
      <4>1. PICK id \in DOMAIN g_transport_ids :
              /\ Entry(id).tag = tp[x].wire
              /\ \/ Entry(id).object = x
                 \/ tp[x].kind \in Accepted /\ tp[Entry(id).object].kind \in Listeners
        BY <3>2 DEF HasEntry
      <4>2. Entry(id).object \in There
        BY <2>1, ThereFacts DEF AllCareful, EntryOK
      <4> QED BY <1>1, <1>4, <4>1, <4>2 DEF HasEntry, Entry
    <3>3. CASE x = o
      BY <1>1, <1>2, <1>4, <1>9, <3>1, <3>2, <3>3 DEF Careful
    <3>4. CASE x # o
      BY <1>1, <1>2, <1>4, <3>1, <3>2, <3>4 DEF Careful
    <3> QED BY <3>3, <3>4
  <2> QED BY <1>1, <1>3, <2>1, <2>2, <2>3 DEF AllCareful
<1> QED BY <1>1, <1>5, <1>6, <1>7, <1>8, <1>9 DEF IInv, StaysUp, Up

(***************************************************************************)
(* A connection goes, and with it what an entry points to.                 *)
(***************************************************************************)
LEMMA GoneInv ==
  ASSUME IInv, Up, NEW o \in There, Becomes(o, Nothing), o # connecting,
         tp[o].kind \in Web \cup {"conn"},
         careless' = (careless \/ Known(o))
  PROVE  IInv'
<1>1. /\ DOMAIN g_transport_ids' = DOMAIN g_transport_ids
      /\ \A id \in DOMAIN g_transport_ids :
           /\ Entry(id).object = o => g_transport_ids'[id] = [Entry(id) EXCEPT !.object = 0]
           /\ Entry(id).object # o => g_transport_ids'[id] = Entry(id)
      /\ UNCHANGED <<g_TransportMap, connecting, error, told, call, fault>>
  BY Basics DEF Becomes, Entry
<1>2. /\ tp' \in [Objects -> Record \cup {Nothing}]
      /\ tp'[o] = Nothing
      /\ \A x \in Objects \ {o} : tp'[x] = tp[x]
      /\ There' = There \ {o}
  BY Basics DEF Becomes, IInv, TypeOK, There
<1>3. \A id \in DOMAIN g_transport_ids :
        /\ g_transport_ids'[id] \in [tag : Tags, object : {0} \cup There']
        /\ g_transport_ids'[id].tag = Entry(id).tag
        /\ g_transport_ids'[id].object = IF Entry(id).object = o THEN 0 ELSE Entry(id).object
  BY <1>1, <1>2, ThereFacts
<1>4. /\ Pointed \ {o} \subseteq Pointed'
      /\ Pointed' \subseteq (Pointed \ {o}) \cup {0}
  BY <1>1, <1>3, ThereFacts DEF Pointed, Entry
<1>5. TypeOK'
  BY <1>1, <1>2, <1>3 DEF IInv, TypeOK
<1>6. TagsLead' /\ ClientKnows'
  BY <1>1, <1>3 DEF IInv, TagsLead, ClientKnows, Entry
<1>7. Distinct'
  <2>1. \A i, j \in DOMAIN g_transport_ids :
          g_transport_ids'[i].object # 0 /\ g_transport_ids'[i].object = g_transport_ids'[j].object => i = j
    BY <1>3 DEF IInv, Distinct
  <2>2. connecting # 0 => connecting \notin Pointed' /\ tp'[connecting].kind = "wsc"
    BY <1>2, <1>4, ThereFacts DEF IInv, Distinct, TypeOK
  <2> QED BY <1>1, <2>1, <2>2 DEF Distinct, Entry
<1>8. \A x \in There' : ObjectOK(x)'
  <2> SUFFICES ASSUME NEW x \in There, x # o PROVE ObjectOK(x)'
    BY <1>2
  <2> QED BY <1>2, <1>4, ThereFacts DEF IInv, ObjectOK
<1>9. ASSUME ~careless' PROVE AllCareful'
  <2>1. AllCareful /\ o \notin Pointed
    BY <1>9 DEF IInv, Known
  <2>2. \A id \in DOMAIN g_transport_ids : g_transport_ids'[id] = Entry(id) /\ Entry(id).object # o
    BY <1>1, <2>1, ThereFacts
  <2>3. ASSUME NEW id \in DOMAIN g_transport_ids PROVE EntryOK(id)'
    BY <1>1, <1>2, <2>1, <2>2, ThereFacts DEF AllCareful, EntryOK, Entry
  <2>4. ASSUME NEW x \in There, x # o PROVE Careful(x)'
    <3>1. Careful(x) /\ x \in Objects /\ tp'[x] = tp[x]
      BY <1>2, <2>1, <2>4, ThereFacts DEF AllCareful
    <3>2. Known(x)' = Known(x)
      BY <1>1, <2>2 DEF Known, Pointed, Entry
    <3>3. ASSUME HasEntry(x) PROVE HasEntry(x)'
      <4>1. PICK id \in DOMAIN g_transport_ids :
              /\ Entry(id).tag = tp[x].wire
              /\ \/ Entry(id).object = x
                 \/ tp[x].kind \in Accepted /\ tp[Entry(id).object].kind \in Listeners
        BY <3>3 DEF HasEntry
      <4>2. Entry(id).object \in There \ {o}
        BY <2>1, <2>2, ThereFacts DEF AllCareful, EntryOK
      <4>3. tp'[Entry(id).object] = tp[Entry(id).object]
        BY <1>2, <4>2, ThereFacts
      <4> QED BY <1>1, <2>2, <3>1, <4>1, <4>3 DEF HasEntry, Entry
    <3> QED BY <1>1, <3>1, <3>2, <3>3 DEF Careful
  <2> QED BY <1>1, <1>2, <2>1, <2>3, <2>4 DEF AllCareful
<1> QED BY <1>1, <1>5, <1>6, <1>7, <1>8, <1>9 DEF IInv, StaysUp, Up

(***************************************************************************)
(* An object that no entry points to is made, changed or given up.         *)
(***************************************************************************)
LEMMA PutInv ==
  ASSUME IInv, Up, NEW o \in Objects, o \notin Pointed, NEW t \in Record \cup {Nothing},
         tp' = [tp EXCEPT ![o] = t],
         UNCHANGED <<registry, told, call, fault>>, error' \in BOOLEAN,
         \/ connecting' = connecting /\ o # connecting
         \/ connecting = 0 /\ connecting' \in {0, o}
         \/ connecting = o /\ connecting' = 0,
         connecting' = o => t.kind = "wsc",
         t \in Record => /\ t.open => t.kind = "ws"
                         /\ t.kind \in Web /\ t.life # "up" => ~t.ws,
         careless' \in BOOLEAN, careless => careless',
         ~careless' /\ t \in Record =>
            /\ t.kind \in Listeners => t.life = "up"
            /\ t.kind \in Web /\ (t.held \/ o = connecting' \/ t.life = "up") /\ t.connected => t.ws
            /\ o # connecting' /\ (t.kind \in Web => t.ws) =>
                 /\ t.kind \in Accepted
                 /\ \E id \in DOMAIN g_transport_ids :
                      Entry(id).tag = t.wire /\ tp[Entry(id).object].kind \in Listeners
  PROVE  IInv'
<1>1. /\ tp' \in [Objects -> Record \cup {Nothing}]
      /\ tp'[o] = t
      /\ \A x \in Objects \ {o} : tp'[x] = tp[x]
      /\ UNCHANGED <<g_transport_ids, g_TransportMap>>
  BY DEF IInv, TypeOK, registry
<1>2. /\ There' = IF t \in Record THEN There \cup {o} ELSE There \ {o}
      /\ \A x \in Objects \ {o} : x = connecting' <=> x = connecting
      /\ connecting' \in {0} \cup There'
  BY <1>1, Basics, ThereFacts DEF There, IInv, TypeOK
<1>3. /\ Pointed' = Pointed
      /\ Pointed \ {0} \subseteq There \ {o}
      /\ \A x \in Pointed \ {0} : tp'[x] = tp[x]
  BY <1>1, ThereFacts DEF Pointed
<1>4. TypeOK'
  <2>1. \A id \in DOMAIN g_transport_ids : Entry(id).object \in {0} \cup There'
    BY <1>2, <1>3, ThereFacts
  <2>2. /\ DOMAIN g_transport_ids \subseteq Ids /\ DOMAIN g_TransportMap \subseteq Tags
        /\ told \subseteq Ids /\ (call \in {NoCall, Deleted} \/ call \in DOMAIN g_transport_ids)
        /\ fault \in {"none", "exit", "call", "entry", "listener", "send"}
        /\ \A id \in DOMAIN g_transport_ids : g_transport_ids[id] \in [tag : Tags, object : {0} \cup There']
    BY <2>1, ThereFacts DEF IInv, TypeOK, Entry
  <2> QED BY <1>1, <1>2, <2>2 DEF TypeOK
<1>5. TagsLead' /\ ClientKnows'
  BY <1>1 DEF IInv, TagsLead, ClientKnows
<1>6. Distinct'
  <2>1. connecting' # 0 => connecting' \notin Pointed /\ tp'[connecting'].kind = "wsc"
    BY <1>1, <1>2, ThereFacts DEF IInv, Distinct, TypeOK
  <2> QED BY <1>1, <1>3, <2>1 DEF IInv, Distinct, Entry
<1>7. \A x \in There' : ObjectOK(x)'
  <2> SUFFICES ASSUME NEW x \in There' PROVE ObjectOK(x)'
    OBVIOUS
  <2>1. CASE x = o
    BY <1>1, <1>2, <2>1 DEF ObjectOK, Sockets
  <2>2. CASE x # o
    BY <1>1, <1>2, <1>3, <2>2, ThereFacts DEF IInv, ObjectOK
  <2> QED BY <2>1, <2>2
<1>8. ASSUME ~careless' PROVE AllCareful'
  <2>1. AllCareful
    BY <1>8 DEF IInv
  <2>2. ASSUME NEW id \in DOMAIN g_transport_ids PROVE EntryOK(id)'
    BY <1>1, <1>3, <2>1, ThereFacts DEF AllCareful, EntryOK, Entry
  <2>3. ASSUME NEW x \in There' PROVE Careful(x)'
    <3>1. \A id \in DOMAIN g_transport_ids : /\ Entry(id).object \in There \ {o}
                                             /\ tp'[Entry(id).object] = tp[Entry(id).object]
      BY <1>3, <2>1, ThereFacts DEF AllCareful, EntryOK
    <3>2. CASE x = o
      <4>1. ~Known(o)' \/ o = connecting'
        BY <1>3 DEF Known
      <4>2. t \in Record
        BY <1>2, <2>3, <3>2
      <4>3. ASSUME o # connecting', t.kind \in Web => t.ws PROVE HasEntry(o)'
        BY <1>1, <1>8, <3>1, <4>2, <4>3 DEF HasEntry, Entry
      <4> QED BY <1>1, <1>8, <3>2, <4>1, <4>2, <4>3 DEF Careful
    <3>3. CASE x # o
      <4>1. Careful(x) /\ tp'[x] = tp[x] /\ (Known(x)' <=> Known(x))
        BY <1>1, <1>2, <1>3, <2>1, <3>3, <2>3, ThereFacts DEF AllCareful, Known
      <4>2. HasEntry(x) => HasEntry(x)'
        BY <1>1, <3>1, <4>1 DEF HasEntry, Entry
      <4>3. x = connecting' <=> x = connecting
        BY <1>2, <3>3, <2>3, ThereFacts
      <4> QED BY <4>1, <4>2, <4>3 DEF Careful
    <3> QED BY <3>2, <3>3
  <2> QED BY <1>1, <2>1, <2>2, <2>3 DEF AllCareful
<1> QED BY <1>4, <1>5, <1>6, <1>7, <1>8 DEF IInv, StaysUp, Up

(***************************************************************************)
(* An object gets an id and a tag.                                         *)
(***************************************************************************)
LEMMA EntryAdded ==
  ASSUME IInv, Up, NEW o \in Objects, o \notin Pointed, o \notin There \/ o = connecting,
         connecting \in {0, o}, connecting' = 0,
         NEW t \in Record, NEW tag \in Tags, NEW failed \in BOOLEAN, failed => tag.type = "ws",
         NEW id \in Ids \ DOMAIN g_transport_ids,
         g_transport_ids' = [i \in DOMAIN g_transport_ids \cup {id} |->
                               IF i = id THEN [tag |-> tag, object |-> o] ELSE g_transport_ids[i]],
         MapInsert(tag, id),
         told' = IF failed THEN told ELSE told \cup {id},
         tp' = [tp EXCEPT ![o] = t],
         careless' = (careless \/ tag # t.wire \/
                         {i \in DOMAIN g_transport_ids : g_transport_ids[i].tag = tag} # {}),
         UNCHANGED <<call, fault>>, error' \in BOOLEAN,
         t.kind \in Own, t.open => t.kind \in Sockets,
         t.kind \in Web /\ t.life # "up" => ~t.ws,
         careless \/ /\ t.kind \in Listeners => t.life = "up"
                     /\ t.kind = "wsc" /\ t.connected => t.ws
  PROVE  IInv'
<1>1. /\ tp' \in [Objects -> Record \cup {Nothing}]
      /\ tp'[o] = t
      /\ \A x \in Objects \ {o} : tp'[x] = tp[x]
      /\ There' = There \cup {o}
  BY Basics DEF IInv, TypeOK, There
<1>2. /\ DOMAIN g_transport_ids' = DOMAIN g_transport_ids \cup {id}
      /\ \A i \in DOMAIN g_transport_ids : g_transport_ids'[i] = Entry(i) /\ i # id
      /\ g_transport_ids'[id] = [tag |-> tag, object |-> o]
  BY DEF Entry
<1>3. /\ Pointed' = Pointed \cup {o}
      /\ Pointed \ {0} \subseteq There \ {o}
      /\ \A x \in Pointed \ {0} : tp'[x] = tp[x]
      /\ o # 0
  <2>1. \A i \in DOMAIN g_transport_ids' :
          g_transport_ids'[i].object = IF i = id THEN o ELSE Entry(i).object
    BY <1>2
  <2>2. Pointed' = Pointed \cup {o}
    <3>1. Pointed' \subseteq Pointed \cup {o}
      BY <1>2, <2>1 DEF Pointed, Entry
    <3>2. o \in Pointed'
      BY <1>2, <2>1 DEF Pointed
    <3>3. Pointed \subseteq Pointed'
      <4> SUFFICES ASSUME NEW i \in DOMAIN g_transport_ids PROVE Entry(i).object \in Pointed'
        BY DEF Pointed, Entry
      <4>1. i \in DOMAIN g_transport_ids' /\ i # id
        BY <1>2
      <4>2. g_transport_ids'[i].object = Entry(i).object
        BY <2>1, <4>1
      <4> QED BY <4>1, <4>2 DEF Pointed
    <3> QED BY <3>1, <3>2, <3>3
  <2>3. Pointed \ {0} \subseteq There \ {o}
    BY ThereFacts
  <2>4. \A x \in Pointed \ {0} : tp'[x] = tp[x]
    BY <1>1, <2>3, ThereFacts
  <2> QED BY <2>2, <2>3, <2>4, Basics
<1>4. TypeOK'
  <2>1. \A i \in DOMAIN g_transport_ids' :
           g_transport_ids'[i] \in [tag : Tags, object : {0} \cup There']
    BY <1>1, <1>2, ThereFacts
  <2>2. DOMAIN g_TransportMap' \subseteq Tags
    BY DEF MapInsert, IInv, TypeOK
  <2> QED BY <1>1, <1>2, <2>1, <2>2 DEF IInv, TypeOK
<1>5. /\ \A g \in DOMAIN g_TransportMap : g_TransportMap'[g] = g_TransportMap[g]
      /\ DOMAIN g_TransportMap' = DOMAIN g_TransportMap \cup {tag}
      /\ tag \notin DOMAIN g_TransportMap => g_TransportMap'[tag] = id
  BY DEF MapInsert
<1>6. TagsLead'
  <2> SUFFICES ASSUME NEW g \in DOMAIN g_TransportMap'
               PROVE  /\ g_TransportMap'[g] \in DOMAIN g_transport_ids'
                      /\ g_transport_ids'[g_TransportMap'[g]].tag = g
    BY DEF TagsLead
  <2>1. CASE g \in DOMAIN g_TransportMap
    BY <1>2, <1>5, <2>1 DEF IInv, TagsLead, Entry
  <2>2. CASE g \notin DOMAIN g_TransportMap
    BY <1>2, <1>5, <2>2
  <2> QED BY <2>1, <2>2
<1>7. ClientKnows'
  <2>1. \A i \in DOMAIN g_transport_ids' \ told' : g_transport_ids'[i].tag.type = "ws"
    BY <1>2 DEF IInv, ClientKnows, Entry
  <2> QED BY <1>2, <2>1 DEF IInv, ClientKnows
<1>8. Distinct'
  <2>1. \A i, j \in DOMAIN g_transport_ids' :
          g_transport_ids'[i].object # 0 /\ g_transport_ids'[i].object = g_transport_ids'[j].object => i = j
    BY <1>2, ThereFacts DEF IInv, Distinct
  <2> QED BY <2>1 DEF Distinct, Entry
<1>9. \A x \in There' : ObjectOK(x)'
  <2> SUFFICES ASSUME NEW x \in There' PROVE ObjectOK(x)'
    OBVIOUS
  <2>1. CASE x = o
    BY <1>1, <1>3, <2>1 DEF ObjectOK
  <2>2. CASE x # o
    BY <1>1, <1>3, <2>2, ThereFacts DEF IInv, ObjectOK
  <2> QED BY <2>1, <2>2
<1>10. ASSUME ~careless' PROVE AllCareful'
  <2>1. /\ AllCareful /\ tag = t.wire
        /\ \A i \in DOMAIN g_transport_ids : Entry(i).tag # tag
    BY <1>10 DEF IInv, Entry
  <2>2. tag \notin DOMAIN g_TransportMap
    BY <2>1 DEF IInv, TagsLead, Entry
  <2>3. ASSUME NEW i \in DOMAIN g_transport_ids' PROVE EntryOK(i)'
    <3>1. CASE i = id
      BY <1>1, <1>2, <1>3, <1>5, <2>2, <3>1 DEF EntryOK, Entry
    <3>2. CASE i \in DOMAIN g_transport_ids
      <4>1. EntryOK(i) /\ Entry(i).object \in Pointed \ {0}
        BY <2>1, <3>2, ThereFacts DEF AllCareful, EntryOK
      <4> QED BY <1>2, <1>3, <1>5, <3>2, <4>1 DEF EntryOK, Entry
    <3> QED BY <1>2, <3>1, <3>2
  <2>4. ASSUME NEW x \in There' PROVE Careful(x)'
    <3>1. \A i \in DOMAIN g_transport_ids : /\ Entry(i).object \in There \ {o}
                                            /\ tp'[Entry(i).object] = tp[Entry(i).object]
      BY <1>3, <2>1, ThereFacts DEF AllCareful, EntryOK
    <3>2. CASE x = o
      <4>1. HasEntry(o)'
        BY <1>1, <1>2, <2>1 DEF HasEntry, Entry
      <4>2. careless = FALSE
        BY <1>10 DEF IInv, TypeOK
      <4> QED BY <1>1, <3>2, <4>1, <4>2 DEF Careful, Own, Web
    <3>3. CASE x # o
      <4>1. x \in There /\ Careful(x) /\ tp'[x] = tp[x] /\ (Known(x)' => Known(x))
        BY <1>1, <1>3, <2>1, <2>4, <3>3, Basics, ThereFacts DEF AllCareful, Known
      <4>2. HasEntry(x) => HasEntry(x)'
        BY <1>2, <3>1, <4>1 DEF HasEntry, Entry
      <4>3. x # connecting
        BY <3>3, <4>1, ThereFacts
      <4> QED BY <4>1, <4>2, <4>3 DEF Careful
    <3> QED BY <3>2, <3>3
  <2> QED BY <2>1, <2>3, <2>4 DEF AllCareful
<1> QED BY <1>4, <1>6, <1>7, <1>8, <1>9, <1>10 DEF IInv, StaysUp, Up

(***************************************************************************)
(* A transport is destroyed, with its id and its tag.                      *)
(***************************************************************************)
LEMMA DestroyInv ==
  ASSUME IInv, NEW id \in told, TransportDestroy(id)
  PROVE  IInv'
<1> SUFFICES ASSUME NEW o, o = Entry(id).object PROVE IInv'
  OBVIOUS
<1> DEFINE t == tp[o]
<1>1. /\ id \in DOMAIN g_transport_ids /\ o \in There /\ o \in Objects /\ t \in Record
      /\ connecting = 0 /\ Up
  BY ThereFacts DEF IInv, ClientKnows, TransportDestroy, Idle, Entry
<1>2. /\ DOMAIN g_transport_ids' = DOMAIN g_transport_ids \ {id}
      /\ \A i \in DOMAIN g_transport_ids \ {id} : g_transport_ids'[i] = Entry(i)
      /\ DOMAIN g_TransportMap' = DOMAIN g_TransportMap \ {Entry(id).tag}
      /\ \A g \in DOMAIN g_TransportMap \ {Entry(id).tag} : g_TransportMap'[g] = g_TransportMap[g]
      /\ told' = told \ {id}
      /\ call' = IF call = id THEN Deleted ELSE call
      /\ careless' = (careless \/ Needed(id))
      /\ UNCHANGED <<connecting, error, fault>>
  BY DEF TransportDestroy, EraseTag, Entry
<1>3. PICK u \in Record \cup {Nothing} :
        /\ u = Stopped(t)
        /\ u = Nothing => t.kind \in {"udp", "tcp", "tls"}
        /\ u \in Record => /\ u.kind = t.kind /\ u.wire = t.wire /\ u.open = t.open
                           /\ u.held = t.held /\ u.connected = t.connected
                           /\ u.life # "up" /\ u.ws = (t.ws /\ t.life # "up")
                           /\ t.kind \notin {"udp", "tcp", "tls"}
  BY <1>1, Basics, ShutDownIs DEF Stopped
<1>4. /\ tp' \in [Objects -> Record \cup {Nothing}]
      /\ tp'[o] = u
      /\ \A x \in Objects \ {o} : tp'[x] = tp[x]
      /\ There' = IF u \in Record THEN There ELSE There \ {o}
  <2>1. tp' = [tp EXCEPT ![o] = u]
    BY <1>3 DEF TransportDestroy, Entry
  <2> QED BY <1>1, <1>3, <2>1, Basics DEF IInv, TypeOK, There
<1>5. \A i \in DOMAIN g_transport_ids \ {id} : Entry(i).object # o
  BY <1>1, ThereFacts DEF IInv, Distinct
<1>6. Pointed \ {o} \subseteq Pointed' /\ Pointed' \subseteq Pointed \ {o}
  BY <1>2, <1>5 DEF Pointed, Entry
<1>7. TypeOK'
  <2>1. \A i \in DOMAIN g_transport_ids' :
          g_transport_ids'[i] \in [tag : Tags, object : {0} \cup There']
    BY <1>2, <1>4, <1>5, ThereFacts
  <2>2. careless' \in BOOLEAN
    BY <1>2 DEF IInv, TypeOK
  <2>3. call' \in {NoCall, Deleted} \/ call' \in DOMAIN g_transport_ids'
    BY <1>2 DEF IInv, TypeOK
  <2> QED BY <1>1, <1>2, <1>4, <2>1, <2>2, <2>3 DEF IInv, TypeOK
<1>8. TagsLead'
  <2> SUFFICES ASSUME NEW g \in DOMAIN g_TransportMap'
               PROVE  /\ g_TransportMap'[g] \in DOMAIN g_transport_ids'
                      /\ g_transport_ids'[g_TransportMap'[g]].tag = g
    BY DEF TagsLead
  <2>1. /\ g # Entry(id).tag /\ g_TransportMap'[g] = g_TransportMap[g]
        /\ g_TransportMap[g] \in DOMAIN g_transport_ids
        /\ Entry(g_TransportMap[g]).tag = g
    BY <1>2 DEF IInv, TagsLead, Entry
  <2> QED BY <1>2, <2>1
<1>9. ClientKnows'
  BY <1>2 DEF IInv, ClientKnows, Entry
<1>10. Distinct'
  BY <1>1, <1>2 DEF IInv, Distinct, Entry
<1>11. \A x \in There' : ObjectOK(x)'
  <2> SUFFICES ASSUME NEW x \in There' PROVE ObjectOK(x)'
    OBVIOUS
  <2>1. ObjectOK(x) /\ x \in There /\ x \in Objects
    BY <1>4, ThereFacts DEF IInv
  <2>2. CASE x = o
    <3>1. u \in Record
      BY <1>3, <1>4, <2>2
    <3> QED BY <1>3, <1>4, <2>1, <2>2, <3>1 DEF ObjectOK, Sockets, Web
  <2>3. CASE x # o
    BY <1>4, <1>6, <2>1, <2>3 DEF ObjectOK
  <2> QED BY <2>2, <2>3
<1>12. ASSUME ~careless' PROVE AllCareful'
  <2>1. /\ AllCareful /\ call # id /\ ~t.held
        /\ t.kind \notin {"tcp", "tls", "ws"}
    BY <1>2, <1>12 DEF IInv, Needed, Entry
  <2>2. ASSUME NEW i \in DOMAIN g_transport_ids \ {id} PROVE EntryOK(i)' /\ Entry(i).tag # Entry(id).tag
    <3>1. EntryOK(i) /\ EntryOK(id)
      BY <1>1, <2>1 DEF AllCareful
    <3>2. Entry(i).tag # Entry(id).tag
      BY <3>1 DEF EntryOK
    <3>3. Entry(i).object \in Objects \ {o}
      BY <1>5, <3>1, ThereFacts DEF EntryOK
    <3> QED BY <1>2, <1>4, <3>1, <3>2, <3>3 DEF EntryOK, Entry
  <2>3. ASSUME NEW x \in There' PROVE Careful(x)'
    <3>1. Careful(x) /\ x \in There /\ x \in Objects
      BY <1>4, <2>1, ThereFacts DEF AllCareful
    <3>2. CASE x = o
      <4>1. u \in Record /\ ObjectOK(o)
        BY <1>1, <1>3, <1>4, <3>2 DEF IInv
      <4>2. u.kind \in Own
        BY <1>1, <2>1, <4>1, <1>3 DEF AllCareful, EntryOK
      <4>3. u.kind = "wsc" /\ ~u.ws /\ ~u.held /\ u.life # "up"
        BY <1>3, <2>1, <4>1, <4>2 DEF ObjectOK, Own, Web
      <4>4. ~Known(o)'
        BY <1>1, <1>2, <1>6, ThereFacts DEF Known
      <4> QED BY <1>4, <3>2, <4>3, <4>4 DEF Careful, Web, Listeners
    <3>3. CASE x # o
      <4>1. tp'[x] = tp[x] /\ (Known(x)' => Known(x))
        BY <1>2, <1>4, <1>6, <3>1, <3>3 DEF Known
      <4>2. ASSUME HasEntry(x) PROVE HasEntry(x)'
        <5>1. PICK i \in DOMAIN g_transport_ids :
                /\ Entry(i).tag = tp[x].wire
                /\ \/ Entry(i).object = x
                   \/ tp[x].kind \in Accepted /\ tp[Entry(i).object].kind \in Listeners
          BY <4>2 DEF HasEntry
        <5>2. i # id
          BY <2>1, <3>3, <5>1 DEF Listeners
        <5>3. Entry(i).object \in There \ {o}
          BY <1>5, <2>1, <5>2, ThereFacts DEF AllCareful, EntryOK
        <5>4. tp'[Entry(i).object] = tp[Entry(i).object]
          BY <1>4, <5>3, ThereFacts
        <5> QED BY <1>2, <4>1, <5>1, <5>2, <5>4 DEF HasEntry, Entry
      <4> QED BY <1>2, <3>1, <4>1, <4>2 DEF Careful
    <3> QED BY <3>2, <3>3
  <2>4. call' # Deleted
    BY <1>2, <2>1 DEF AllCareful
  <2> QED BY <1>2, <2>2, <2>3, <2>4 DEF AllCareful
<1> QED BY <1>1, <1>2, <1>7, <1>8, <1>9, <1>10, <1>11, <1>12 DEF IInv, StaysUp, Up

LEMMA InitIInv == Init => IInv
<1> SUFFICES ASSUME Init PROVE IInv
  OBVIOUS
<1>1. /\ DOMAIN g_transport_ids = {} /\ DOMAIN g_TransportMap = {} /\ There = {}
      /\ call # Deleted
  BY DEF Init, Empty, There, NoCall, Deleted
<1>2. TypeOK
  BY <1>1 DEF Init, TypeOK
<1> QED BY <1>1, <1>2 DEF Init, IInv, TagsLead, ClientKnows, Distinct, AllCareful, StaysUp, Up

-----------------------------------------------------------------------------
(* The actions. *)

\* An object with a socket of its own, or a connection that was waited for.
LEMMA EnterInv ==
  ASSUME IInv, Up, NEW o \in Objects, o \notin Pointed, o \notin There \/ o = connecting,
         connecting \in {0, o}, connecting' = 0,
         NEW t \in Record, NEW tag \in Tags, NEW failed \in BOOLEAN, failed => tag.type = "ws",
         Enter(o, t, tag, failed), UNCHANGED <<call, fault>>, error' \in BOOLEAN,
         t.kind \in Own, t.open => t.kind \in Sockets,
         t.kind \in Web /\ t.life # "up" => ~t.ws,
         careless \/ /\ t.kind \in Listeners => t.life = "up"
                     /\ t.kind = "wsc" /\ t.connected => t.ws
  PROVE  IInv'
<1>1. CASE /\ tp' = [tp EXCEPT ![o] = Stopped(t)]
           /\ careless' = (careless \/ t.kind = "ws" \/ t.held)
           /\ UNCHANGED <<registry, told>>
  <2>1. PICK u \in Record \cup {Nothing} :
          /\ u = Stopped(t)
          /\ u \in Record => /\ u.kind = t.kind /\ u.open = t.open /\ u.held = t.held
                             /\ u.life # "up" /\ u.ws = (t.ws /\ t.life # "up")
                             /\ t.kind \notin {"udp", "tcp", "tls"}
    BY Basics, ShutDownIs DEF Stopped
  <2>2. u \in Record => /\ u.open => u.kind = "ws"
                        /\ u.kind \in Web /\ u.life # "up" => ~u.ws
                        /\ u.kind \in {"ws", "wsc"}
    BY <2>1 DEF Own, Sockets
  <2>3. connecting' # o
    BY Basics
  <2>4. careless' \in BOOLEAN /\ (careless => careless')
    BY <1>1 DEF IInv, TypeOK, Record
  <2>5. ~careless' /\ u \in Record => u.kind = "wsc" /\ ~u.held /\ ~u.ws /\ u.life # "up"
    <3>1. ASSUME ~careless' PROVE t.kind # "ws" /\ ~t.held
      BY <1>1, <3>1
    <3>2. u \in Record => u.kind = t.kind /\ u.held = t.held /\ u.life # "up"
      BY <2>1
    <3> QED BY <2>2, <3>1, <3>2 DEF Web
  <2>6. tp' = [tp EXCEPT ![o] = u] /\ UNCHANGED <<registry, told, call, fault>>
    BY <1>1, <2>1
  <2> QED BY <2>2, <2>3, <2>4, <2>5, <2>6, PutInv DEF Web, Listeners
<1>2. ASSUME NEW id \in Ids \ DOMAIN g_transport_ids,
             g_transport_ids' = [i \in DOMAIN g_transport_ids \cup {id} |->
                                   IF i = id THEN [tag |-> tag, object |-> o] ELSE g_transport_ids[i]],
             MapInsert(tag, id),
             told' = IF failed THEN told ELSE told \cup {id},
             tp' = [tp EXCEPT ![o] = t],
             careless' = (careless \/ tag # t.wire \/
                             {i \in DOMAIN g_transport_ids : g_transport_ids[i].tag = tag} # {})
      PROVE  IInv'
  BY <1>2, EntryAdded
<1> QED BY <1>1, <1>2 DEF Enter

LEMMA WireType ==
  ASSUME NEW kind \in Own, NEW host \in {"lo", "any"}, NEW port \in Ports \cup {0}
  PROVE  /\ Tag(kind, host, port) \in Tags /\ Wire(kind, host, port) \in Tags
         /\ kind = "wsc" => Tag(kind, host, port).type = "ws"
BY DEF Tag, Wire, Tags, Own

LEMMA ObjectType ==
  ASSUME NEW kind \in Own \cup Accepted, NEW wire \in Tags
  PROVE  \E t \in Record : /\ t = Object(kind, wire)
                           /\ t.kind = kind /\ t.wire = wire /\ t.life = "up" /\ ~t.held
                           /\ t.open <=> kind \in Sockets
                           /\ t.ws <=> kind \in Web
                           /\ t.connected <=> kind = "wsconn"
<1>1. Object(kind, wire) \in Record
  BY DEF Object, Record, Own, Accepted
<1>2. Object(kind, wire).kind = kind /\ Object(kind, wire).wire = wire
  BY DEF Object
<1>3. Object(kind, wire).life = "up" /\ ~Object(kind, wire).held
  BY DEF Object
<1>4. /\ Object(kind, wire).open <=> kind \in Sockets
      /\ Object(kind, wire).ws <=> kind \in Web
      /\ Object(kind, wire).connected <=> kind = "wsconn"
  BY DEF Object, Sockets, Web
<1> QED BY <1>1, <1>2, <1>3, <1>4

LEMMA SlotFacts ==
  ASSUME IInv, NEW o \in Slot
  PROVE  o \in Objects /\ o \notin There /\ o \notin Pointed /\ o # connecting
BY Basics, ThereFacts DEF Slot, IInv, TypeOK

LEMMA CreateInv ==
  ASSUME IInv, NEW kind \in Sockets, NEW ports \in SUBSET (Ports \cup {0}), Create(kind, ports)
  PROVE  IInv'
<1>1. PICK host \in Hosts, port \in ports, o \in Slot :
         \E p \in Bindable(kind, port) :
            Enter(o, Object(kind, Wire(kind, host, p)), Tag(kind, host, p), Cleared)
  BY DEF Create
<1>2. PICK p \in Bindable(kind, port) :
         Enter(o, Object(kind, Wire(kind, host, p)), Tag(kind, host, p), Cleared)
  BY <1>1
<1>3. p \in Ports /\ host \in {"lo", "any"} /\ kind \in Own
  BY HostsAssumption DEF Bindable, Scan, Free, Sockets, Own
<1>4. Tag(kind, host, p) \in Tags /\ Wire(kind, host, p) \in Tags
  BY <1>3, WireType
<1>5. PICK t \in Record : /\ t = Object(kind, Wire(kind, host, p))
                          /\ t.kind = kind /\ t.life = "up" /\ t.open
  BY <1>3, <1>4, ObjectType
<1>6. /\ Up /\ connecting = 0 /\ UNCHANGED <<connecting, call, fault>> /\ error' = FALSE
  BY DEF Create, CreateCommand, Idle, Cleared
<1>7. Enter(o, t, Tag(kind, host, p), FALSE)
  BY <1>2, <1>5 DEF Cleared
<1>8. t.kind \notin Web
  BY <1>5 DEF Sockets, Web
<1> QED BY <1>3, <1>4, <1>5, <1>6, <1>7, <1>8, SlotFacts, EnterInv DEF Web

LEMMA ConnectWsInv == ASSUME IInv, ConnectWs PROVE IInv'
<1>1. PICK remote \in Ports, o \in Slot :
         \/ /\ tp' = [tp EXCEPT ![o] = WsClient(remote)]
            /\ connecting' = o
         \/ /\ tp' = [tp EXCEPT ![o] = ShutDown(WsClient(remote))]
            /\ UNCHANGED connecting
  BY DEF ConnectWs
<1>2. PICK t \in Record : /\ t = WsClient(remote)
                          /\ t.kind = "wsc" /\ t.life = "up" /\ ~t.open /\ t.ws
                          /\ ~t.connected /\ ~t.held
  <2>1. Wire("wsc", "lo", remote) \in Tags
    BY WireType DEF Own
  <2>2. "wsc" \in Own \cup Accepted /\ "wsc" \notin Sockets /\ "wsc" \in Web
    BY DEF Own, Sockets, Web
  <2> QED BY <2>1, <2>2, ObjectType DEF WsClient
<1>3. /\ Up /\ connecting = 0 /\ UNCHANGED <<registry, told, call, fault, careless>> /\ error' = FALSE
  BY DEF ConnectWs, CreateCommand, Idle, Cleared
<1>4. PICK u \in Record : /\ tp' = [tp EXCEPT ![o] = u]
                          /\ u.kind = "wsc" /\ ~u.open /\ ~u.connected /\ ~u.held
                          /\ \/ connecting' = o /\ u.life = "up"
                             \/ connecting' = connecting /\ u.life # "up" /\ ~u.ws
  BY <1>1, <1>2, ShutDownIs
<1>5. careless' \in BOOLEAN /\ (careless => careless')
  BY <1>3 DEF IInv, TypeOK
<1> QED BY <1>3, <1>4, <1>5, SlotFacts, PutInv DEF Web, Listeners

LEMMA ConnectReturnsInv == ASSUME IInv, ConnectReturns PROVE IInv'
<1> SUFFICES ASSUME NEW o, o = connecting PROVE IInv'
  OBVIOUS
<1> DEFINE t == tp[o]
<1>1. /\ Up /\ o # 0 /\ o \in There /\ o \in Objects /\ o \notin Pointed
      /\ t \in Record /\ t.kind = "wsc"
      /\ connecting' = 0 /\ UNCHANGED <<error, call, fault>> /\ error \in BOOLEAN
      /\ Answered(t)
  BY ThereFacts DEF IInv, Distinct, TypeOK, ConnectReturns
<1>2. /\ ~t.open
      /\ t.life # "up" => ~t.ws
      /\ careless \/ (t.connected => t.ws)
  BY <1>1 DEF IInv, ObjectOK, AllCareful, Careful, Known, Web, Sockets
<1>3. CASE \E port \in {0, t.wire.port} : Enter(connecting, t, Tag("wsc", "lo", port), error)
  <2>1. PICK port \in {0, t.wire.port} : Enter(connecting, t, Tag("wsc", "lo", port), error)
    BY <1>3
  <2>2. port \in Ports \cup {0}
    BY <1>1 DEF Record, Tags
  <2>3. Tag("wsc", "lo", port) \in Tags /\ Tag("wsc", "lo", port).type = "ws"
    BY <2>2, WireType DEF Own
  <2> QED BY <1>1, <1>2, <2>1, <2>3, EnterInv DEF Own, Web, Listeners
<1>4. CASE ~t.connected /\ tp' = [tp EXCEPT ![connecting] = ShutDown(t)]
           /\ UNCHANGED <<registry, told, careless>>
  <2>1. PICK u \in Record : /\ tp' = [tp EXCEPT ![o] = u]
                            /\ u.kind = "wsc" /\ ~u.open /\ ~u.connected
                            /\ u.life # "up" /\ ~u.ws
    <3>1. PICK u \in Record : u = ShutDown(t)
      BY <1>1, ShutDownIs
    <3>2. /\ u.kind = t.kind /\ u.open = t.open /\ u.connected = t.connected
          /\ u.life # "up" /\ u.ws = (t.ws /\ t.life # "up")
      BY <1>1, <3>1, ShutDownIs
    <3> QED BY <1>1, <1>2, <1>4, <3>1, <3>2
  <2>2. careless' \in BOOLEAN /\ (careless => careless') /\ connecting' # o
    BY <1>1, <1>4 DEF IInv, TypeOK
  <2> QED BY <1>1, <1>4, <2>1, <2>2, PutInv DEF Web, Listeners
<1> QED BY <1>1, <1>3, <1>4 DEF Answered

\* What a command or a poll leaves alone but for the call and the error.
LEMMA CallChanges ==
  ASSUME IInv, UNCHANGED <<registry, tp, connecting, told, fault, careless>>, error' \in BOOLEAN,
         call' \in {call, NoCall} \/ call' \in DOMAIN g_transport_ids
  PROVE  IInv'
<1>1. call' = Deleted => call = Deleted
  BY ThereFacts DEF NoCall, Deleted
<1>2. TypeOK'
  BY DEF IInv, TypeOK, registry, There
<1> QED BY <1>1, <1>2
        DEF IInv, TagsLead, ClientKnows, Distinct, ObjectOK, AllCareful, EntryOK, Careful, HasEntry,
            StaysUp, Up, registry, There, Pointed, Entry, Known

LEMMA AcceptInv == ASSUME IInv, NEW o \in There, Accept(o) PROVE IInv'
<1>1. /\ Up /\ o \in Objects /\ tp[o] \in Record /\ tp[o].open /\ tp[o].kind # "udp"
      /\ ObjectOK(o)
  BY ThereFacts DEF Accept, IInv
<1>2. tp[o].kind \in Listeners
  BY <1>1 DEF ObjectOK, Listeners, Sockets
<1>3. CASE tp[o].life = "freed" /\ Fault("listener", FALSE)
  <2>1. careless
    BY <1>2, <1>3 DEF IInv, AllCareful, Careful
  <2> QED BY <1>3, <2>1, FaultInv
<1>4. CASE /\ \E new \in Slot, kind \in {IF tp[o].kind = "ws" THEN "wsconn" ELSE "conn"} :
                tp' = [tp EXCEPT ![new] = Object(kind, tp[o].wire)]
           /\ UNCHANGED <<registry, connecting, error, told, call, fault, careless>>
  <2>1. PICK new \in Slot, kind \in Accepted : tp' = [tp EXCEPT ![new] = Object(kind, tp[o].wire)]
    BY <1>4 DEF Accepted
  <2>2. tp[o].wire \in Tags
    BY <1>1 DEF Record
  <2>3. PICK t \in Record : /\ t = Object(kind, tp[o].wire)
                            /\ t.kind = kind /\ t.wire = tp[o].wire /\ t.life = "up"
                            /\ ~t.open /\ (t.ws <=> kind \in Web)
    <3>1. kind \in Own \cup Accepted /\ kind \notin Sockets
      BY DEF Own, Sockets, Accepted
    <3> QED BY <2>2, <3>1, ObjectType
  <2>4. ASSUME ~careless
        PROVE  \E id \in DOMAIN g_transport_ids :
                  Entry(id).tag = t.wire /\ tp[Entry(id).object].kind \in Listeners
    <3>1. Careful(o)
      BY <2>4 DEF IInv, AllCareful
    <3>2. o # connecting /\ tp[o].kind \notin Web /\ tp[o].kind \notin Accepted
      BY <1>2, ThereFacts DEF IInv, Distinct, Listeners, Web, Accepted
    <3>3. HasEntry(o)
      BY <3>1, <3>2 DEF Careful
    <3> QED BY <1>2, <2>3, <3>2, <3>3 DEF HasEntry
  <2>5. careless' \in BOOLEAN /\ (careless => careless') /\ error' \in BOOLEAN
    BY <1>4 DEF IInv, TypeOK
  <2>6. t.kind \notin Listeners /\ t.kind # "wsc"
    BY <2>3 DEF Accepted, Listeners
  <2> QED BY <1>1, <1>4, <2>1, <2>3, <2>4, <2>5, <2>6, SlotFacts, PutInv
<1> QED BY <1>1, <1>3, <1>4 DEF Accept

LEMMA RxInviteInv == ASSUME IInv, NEW o \in There, RxInvite(o) PROVE IInv'
<1>1. CASE FoundFor(tp[o].wire) = {} /\ Fault("exit", o = connecting)
  <2>1. ASSUME ~careless, o # connecting PROVE FALSE
    <3>1. Careful(o) /\ (tp[o].kind \in Web => tp[o].ws)
      BY <2>1 DEF RxInvite, Receives, IInv, AllCareful, Web
    <3>2. PICK id \in DOMAIN g_transport_ids : Entry(id).tag = tp[o].wire
      BY <2>1, <3>1 DEF Careful, HasEntry
    <3>3. tp[o].wire \in DOMAIN g_TransportMap
      BY <2>1, <3>2 DEF IInv, AllCareful, EntryOK
    <3> QED BY <1>1, <3>3 DEF FoundFor
  <2>2. (o = connecting) \in BOOLEAN
    OBVIOUS
  <2> QED BY <1>1, <2>1, <2>2, FaultInv DEF IInv, TypeOK
<1>2. CASE /\ call' \in FoundFor(tp[o].wire)
           /\ UNCHANGED <<registry, tp, connecting, error, told, fault, careless>>
  <2>1. call' \in DOMAIN g_transport_ids
    BY <1>2 DEF FoundFor, IInv, TagsLead
  <2> QED BY <1>2, <2>1, CallChanges DEF IInv, TypeOK
<1> QED BY <1>1, <1>2 DEF RxInvite

LEMMA WebChanges ==
  ASSUME IInv, NEW o \in There, Up, tp[o].kind \in Web
  PROVE  /\ tp[o] \in Record
         /\ tp[o].life # "up" => ~tp[o].ws
         /\ tp[o].kind \notin Listeners /\ tp[o].kind # "ws"
         /\ ~careless => ((tp[o].held \/ Known(o) \/ tp[o].life = "up") /\ tp[o].connected => tp[o].ws)
BY ThereFacts DEF IInv, ObjectOK, AllCareful, Careful, Web, Listeners

LEMMA ConnectedSet ==
  ASSUME NEW r \in Record
  PROVE  \E t \in Record : /\ t = [r EXCEPT !.connected = TRUE]
                           /\ t.kind = r.kind /\ t.wire = r.wire /\ t.open = r.open
                           /\ t.ws = r.ws /\ t.life = r.life
<1>1. [r EXCEPT !.connected = TRUE] \in Record
  BY DEF Record
<1> QED BY <1>1 DEF Record

LEMMA SocketUnset ==
  ASSUME NEW r \in Record
  PROVE  \E t \in Record : /\ t = [r EXCEPT !.ws = FALSE]
                           /\ t.kind = r.kind /\ t.wire = r.wire /\ t.open = r.open
                           /\ ~t.ws /\ t.connected = r.connected
<1>1. [r EXCEPT !.ws = FALSE] \in Record
  BY DEF Record
<1> QED BY <1>1 DEF Record

LEMMA HeldSet ==
  ASSUME NEW r \in Record, NEW b \in BOOLEAN
  PROVE  \E t \in Record : /\ t = [r EXCEPT !.held = b]
                           /\ t.kind = r.kind /\ t.wire = r.wire /\ t.open = r.open /\ t.held = b
                           /\ t.ws = r.ws /\ t.life = r.life /\ t.connected = r.connected
<1>1. [r EXCEPT !.held = b] \in Record
  BY DEF Record
<1> QED BY <1>1 DEF Record

LEMMA OnConnectCompleteInv == ASSUME IInv, NEW o \in There, OnConnectComplete(o) PROVE IInv'
<1>1. /\ Up /\ tp[o].kind \in Web /\ tp[o].ws /\ o = connecting /\ ~tp[o].connected
      /\ UNCHANGED careless /\ careless \in BOOLEAN /\ tp[o] \in Record
  BY ThereFacts DEF OnConnectComplete, Socket, Web, IInv, TypeOK
<1>2. CASE Becomes(o, [tp[o] EXCEPT !.connected = TRUE])
  <2>1. PICK t \in Record : /\ t = [tp[o] EXCEPT !.connected = TRUE]
                            /\ t.kind = tp[o].kind /\ t.wire = tp[o].wire /\ t.open = tp[o].open
                            /\ t.ws = tp[o].ws /\ t.life = tp[o].life
    <3>1. PICK r \in Record : r = tp[o]
      BY <1>1
    <3>2. PICK t \in Record : /\ t = [r EXCEPT !.connected = TRUE]
                              /\ t.kind = r.kind /\ t.wire = r.wire /\ t.open = r.open
                              /\ t.ws = r.ws /\ t.life = r.life
      BY ConnectedSet
    <3> QED BY <3>1, <3>2
  <2> QED BY <1>1, <1>2, <2>1, WebChanges, BecomesInv
<1>3. CASE Becomes(o, ShutDown([tp[o] EXCEPT !.ws = FALSE]))
  <2>1. PICK t \in Record : /\ t = [tp[o] EXCEPT !.ws = FALSE]
                            /\ t.kind = tp[o].kind /\ t.wire = tp[o].wire /\ t.open = tp[o].open
                            /\ ~t.ws /\ t.connected = tp[o].connected
    <3>1. PICK r \in Record : r = tp[o]
      BY <1>1
    <3>2. PICK t \in Record : /\ t = [r EXCEPT !.ws = FALSE]
                              /\ t.kind = r.kind /\ t.wire = r.wire /\ t.open = r.open
                              /\ ~t.ws /\ t.connected = r.connected
      BY SocketUnset
    <3> QED BY <3>1, <3>2
  <2>2. PICK u \in Record : /\ u = ShutDown(t)
                            /\ u.kind = t.kind /\ u.wire = t.wire /\ u.open = t.open
                            /\ ~u.ws /\ u.connected = t.connected
    BY <2>1, ShutDownIs
  <2> QED BY <1>1, <1>3, <2>1, <2>2, WebChanges, BecomesInv
<1> QED BY <1>2, <1>3 DEF OnConnectComplete

LEMMA RxCloseIs ==
  ASSUME NEW r \in Record
  PROVE  /\ RxClose(r) \in Record /\ RxClose(r).kind = r.kind /\ RxClose(r).wire = r.wire
         /\ RxClose(r).open = r.open /\ ~RxClose(r).ws /\ ~RxClose(r).connected
BY DEF Record, RxClose

LEMMA OnRxCloseInv == ASSUME IInv, NEW o \in There, OnRxClose(o) PROVE IInv'
<1>1. /\ Up /\ tp[o].kind \in Web /\ careless' = (careless \/ Known(o))
      /\ careless \in BOOLEAN /\ tp[o] \in Record /\ Becomes(o, RxClose(tp[o]))
  BY ThereFacts DEF OnRxClose, Socket, Web, IInv, TypeOK
<1>2. PICK t \in Record : /\ t = RxClose(tp[o])
                          /\ t.kind = tp[o].kind /\ t.wire = tp[o].wire /\ t.open = tp[o].open
                          /\ ~t.ws /\ ~t.connected
  BY <1>1, RxCloseIs
<1>3. careless' \in BOOLEAN /\ (careless => careless')
  BY <1>1 DEF Known
<1> QED BY <1>1, <1>2, <1>3, WebChanges, BecomesInv

LEMMA OnStateChangeInv == ASSUME IInv, NEW o \in There, OnStateChange(o) PROVE IInv'
<1>1. /\ Up /\ tp[o].kind \in Web /\ tp[o].ws /\ careless' = (careless \/ Known(o) \/ tp[o].held)
      /\ careless \in BOOLEAN /\ tp[o] \in Record /\ Becomes(o, ShutDown(tp[o]))
  BY ThereFacts DEF OnStateChange, Socket, Web, IInv, TypeOK
<1>2. PICK t \in Record : /\ t = ShutDown(tp[o])
                          /\ t.kind = tp[o].kind /\ t.wire = tp[o].wire /\ t.open = tp[o].open
                          /\ t.held = tp[o].held /\ t.life # "up" /\ ~t.ws
  <2>1. tp[o].life # "up" => ~tp[o].ws
    BY <1>1, WebChanges
  <2> QED BY <1>1, <2>1, ShutDownIs
<1>3. careless' \in BOOLEAN /\ (careless => careless')
  BY <1>1 DEF Known, Record
<1>4. ASSUME ~careless' PROVE ~Known(o) /\ ~t.held
  BY <1>1, <1>2, <1>4
<1> QED BY <1>1, <1>2, <1>3, <1>4, WebChanges, BecomesInv

LEMMA HoldInv == ASSUME IInv, NEW o \in There, Hold(o) PROVE IInv'
<1>1. /\ Up /\ tp[o].kind \in Web /\ (tp[o].life = "up" \/ Known(o)) /\ UNCHANGED careless
      /\ careless \in BOOLEAN /\ tp[o] \in Record /\ Becomes(o, [tp[o] EXCEPT !.held = TRUE])
  BY ThereFacts DEF Hold, Web, IInv, TypeOK
<1>2. PICK t \in Record : /\ t = [tp[o] EXCEPT !.held = TRUE]
                          /\ t.kind = tp[o].kind /\ t.wire = tp[o].wire /\ t.open = tp[o].open
                          /\ t.ws = tp[o].ws /\ t.life = tp[o].life /\ t.connected = tp[o].connected
  <2>1. PICK r \in Record : r = tp[o]
    BY <1>1
  <2>2. PICK t \in Record : /\ t = [r EXCEPT !.held = TRUE]
                            /\ t.kind = r.kind /\ t.wire = r.wire /\ t.open = r.open /\ t.held = TRUE
                            /\ t.ws = r.ws /\ t.life = r.life /\ t.connected = r.connected
    BY HeldSet
  <2> QED BY <2>1, <2>2
<1> QED BY <1>1, <1>2, WebChanges, BecomesInv

LEMMA ReleaseInv == ASSUME IInv, NEW o \in There, Release(o) PROVE IInv'
<1>1. /\ Up /\ tp[o].kind \in Web /\ UNCHANGED careless
      /\ careless \in BOOLEAN /\ tp[o] \in Record /\ Becomes(o, [tp[o] EXCEPT !.held = FALSE])
  BY ThereFacts DEF Release, Web, IInv, TypeOK
<1>2. PICK t \in Record : /\ t = [tp[o] EXCEPT !.held = FALSE]
                          /\ t.kind = tp[o].kind /\ t.wire = tp[o].wire /\ t.open = tp[o].open
                          /\ ~t.held
                          /\ t.ws = tp[o].ws /\ t.life = tp[o].life /\ t.connected = tp[o].connected
  <2>1. PICK r \in Record : r = tp[o]
    BY <1>1
  <2>2. PICK t \in Record : /\ t = [r EXCEPT !.held = FALSE]
                            /\ t.kind = r.kind /\ t.wire = r.wire /\ t.open = r.open /\ t.held = FALSE
                            /\ t.ws = r.ws /\ t.life = r.life /\ t.connected = r.connected
    BY HeldSet
  <2> QED BY <2>1, <2>2
<1> QED BY <1>1, <1>2, WebChanges, BecomesInv

LEMMA SendMsgInv == ASSUME IInv, NEW o \in There, SendMsg(o) PROVE IInv'
<1>1. Up /\ tp[o].kind \in Web /\ tp[o].held /\ tp[o].connected /\ ~tp[o].ws /\ Fault("send", FALSE)
  BY DEF SendMsg, Web
<1>2. careless
  BY <1>1, WebChanges
<1> QED BY <1>1, <1>2, FaultInv

LEMMA DestroyedInv == ASSUME IInv, NEW o \in There, Destroyed(o) PROVE IInv'
<1>1. /\ Up /\ o # connecting /\ careless' = (careless \/ Known(o)) /\ tp[o] \in Record
      /\ careless \in BOOLEAN
  BY ThereFacts DEF Destroyed, IInv, TypeOK
<1>2. CASE tp[o].kind \in Web \cup {"conn"} /\ Becomes(o, Nothing)
  BY <1>1, <1>2, GoneInv
<1>3. CASE tp[o].kind = "ws" /\ tp[o].life = "shut" /\ Becomes(o, [tp[o] EXCEPT !.life = "freed"])
  <2>1. PICK t \in Record : /\ t = [tp[o] EXCEPT !.life = "freed"]
                            /\ t.kind = "ws" /\ t.wire = tp[o].wire /\ t.open = tp[o].open
    BY <1>1, <1>3 DEF Record
  <2>2. careless
    BY <1>3 DEF IInv, AllCareful, Careful, Listeners
  <2>3. careless' = TRUE
    BY <1>1, <2>2
  <2> QED BY <1>1, <1>3, <2>1, <2>2, <2>3, BecomesInv DEF Web
<1> QED BY <1>2, <1>3 DEF Destroyed, Web

LEMMA ReadEntryInv == ASSUME IInv, NEW id \in told, ReadEntry(id) PROVE IInv'
<1>1. CASE g_transport_ids[id].object = 0 /\ Fault("entry", FALSE)
  <2>1. careless
    BY <1>1 DEF IInv, ClientKnows, AllCareful, EntryOK, Entry
  <2> QED BY <1>1, <2>1, FaultInv
<1>2. CASE Fault("entry", TRUE)
  BY <1>2, FaultInv
<1> QED BY <1>1, <1>2 DEF ReadEntry

LEMMA NextIInv == IInv /\ [Next]_vars => IInv'
<1> SUFFICES ASSUME IInv, [Next]_vars PROVE IInv'
  OBVIOUS
<1>1. CASE CreateUdp \/ CreateFactory \/ StartWs
  <2>1. PICK kind \in Sockets, ports \in SUBSET (Ports \cup {0}) : Create(kind, ports)
    BY <1>1 DEF CreateUdp, CreateFactory, StartWs, Sockets
  <2> QED BY <2>1, CreateInv
<1>2. CASE ConnectWs
  BY <1>2, ConnectWsInv
<1>3. ASSUME NEW id \in told, TransportDestroy(id) \/ ReadEntry(id) PROVE IInv'
  BY <1>3, DestroyInv, ReadEntryInv
<1>4. CASE ConnectReturns
  BY <1>4, ConnectReturnsInv
<1>5. CASE CallNegotiates
  <2>1. careless
    BY <1>5 DEF CallNegotiates, IInv, AllCareful
  <2> QED BY <1>5, <2>1, FaultInv DEF CallNegotiates
<1>6. CASE CallEnds
  BY <1>6, CallChanges DEF CallEnds, IInv, TypeOK
<1>7. ASSUME NEW o \in There, Network(o) PROVE IInv'
  <2>1. CASE RxInviteFails(o)
    BY <2>1, CallChanges DEF RxInviteFails
  <2> QED BY <1>7, <2>1, AcceptInv, RxInviteInv, OnConnectCompleteInv, OnRxCloseInv, OnStateChangeInv
          DEF Network
<1>8. ASSUME NEW o \in There, Pjsip(o) PROVE IInv'
  BY <1>8, HoldInv, ReleaseInv, SendMsgInv, DestroyedInv DEF Pjsip
<1>9. CASE UNCHANGED vars
  BY <1>9, CallChanges DEF vars, server, IInv, TypeOK
<1> QED BY <1>1, <1>2, <1>3, <1>4, <1>5, <1>6, <1>7, <1>8, <1>9 DEF Next, Command

LEMMA SpecIInv == Spec => []IInv
<1> QED BY InitIInv, NextIInv, PTL DEF Spec

(***************************************************************************)
(* Everything has its type, and an entry of the table points to an object  *)
(* that is there, or to nothing.                                           *)
(***************************************************************************)
THEOREM TypeCorrect == Spec => []TypeOK
<1> QED BY SpecIInv, PTL DEF IInv

(***************************************************************************)
(* For any number of transports: a tag leads to the Transport it is of.    *)
(***************************************************************************)
THEOREM TagsCorrect == Spec => []TagsLead
<1> QED BY SpecIInv, PTL DEF IInv

(***************************************************************************)
(* For any number of transports: the client knows those there are, but for *)
(* one whose connection a callback interrupted.                            *)
(***************************************************************************)
THEOREM ClientCorrect == Spec => []ClientKnows
<1> QED BY SpecIInv, PTL DEF IInv

(***************************************************************************)
(* No socket but a WebSocket listener's stays bound behind the table,      *)
(* whatever fails.                                                         *)
(***************************************************************************)
THEOREM SocketsCorrect == Spec => []NoStraySocket
<1>1. IInv => NoStraySocket
  BY DEF IInv, ObjectOK, NoStraySocket
<1> QED BY SpecIInv, <1>1, PTL

(***************************************************************************)
(* The server survives whatever comes in, as long as nobody is careless.   *)
(***************************************************************************)
THEOREM ServerStaysUp == Spec => []StaysUp
<1> QED BY SpecIInv, PTL DEF IInv
===============================================================================
