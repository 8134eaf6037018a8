--------------------------- MODULE CallTableProofs ---------------------------
(***************************************************************************)
(* Proofs about CallTable, for any number of ids, addresses and calls, and *)
(* any capacity of g_LastCalls.                                            *)
(***************************************************************************)
EXTENDS CallTable, SequenceTheorems, WellFoundedInduction, TLAPS

Calls == [addr : Addrs, session : Sessions, id : MaybeId]

\* The histories, the part of TypeOK that IdsDenoteLiveCalls rests on.
CallsTyped == calls \in Seq(Calls)

-----------------------------------------------------------------------------
\* What the steps do to the calls.
LEMMA NewCallAppends ==
  ASSUME CallsTyped, NEW a \in Addrs, NEW session \in Sessions, NEW id \in MaybeId,
         NewCall(a, session, id)
  PROVE  /\ calls' \in Seq(Calls)
         /\ Newest \in Nat /\ DOMAIN calls = 1 .. Newest
         /\ DOMAIN calls' = 1 .. Newest + 1
         /\ \A k \in DOMAIN calls : calls'[k] = calls[k]
         /\ calls'[Newest + 1] = [addr |-> a, session |-> session, id |-> id]
         /\ \A k \in DOMAIN calls : calls[k].addr = a => calls[k].session = "FREED"
<1>1. [addr |-> a, session |-> session, id |-> id] \in Calls
  BY DEF Calls
<1>2. calls' = Append(calls, [addr |-> a, session |-> session, id |-> id])
  BY DEF NewCall
<1>3. a \notin {calls[k].addr : k \in {k \in DOMAIN calls : Holds(k)}}
  BY DEF NewCall, FreeAddrs
<1>4. /\ Newest \in Nat /\ DOMAIN calls = 1 .. Newest
      /\ calls' \in Seq(Calls) /\ Len(calls') = Newest + 1
      /\ \A k \in DOMAIN calls : calls'[k] = calls[k]
      /\ calls'[Newest + 1] = [addr |-> a, session |-> session, id |-> id]
  BY <1>1, <1>2, AppendProperties DEF CallsTyped, Newest
<1> QED BY <1>3, <1>4 DEF Holds

LEMMA SessionChanges ==
  ASSUME CallsTyped, NEW k \in DOMAIN calls, NEW session \in Sessions,
         calls' = [calls EXCEPT ![k].session = session]
  PROVE  /\ calls' \in Seq(Calls)
         /\ DOMAIN calls' = DOMAIN calls
         /\ \A j \in DOMAIN calls : /\ calls'[j].addr = calls[j].addr
                                    /\ calls'[j].id = calls[j].id
                                    /\ j # k => calls'[j].session = calls[j].session
         /\ calls'[k].session = session
<1>1. calls[k] \in Calls
  BY DEF CallsTyped
<1>2. [calls[k] EXCEPT !.session = session] \in Calls
  BY <1>1 DEF Calls
<1>3. calls' = [calls EXCEPT ![k] = [calls[k] EXCEPT !.session = session]]
  OBVIOUS
<1>4. calls' \in Seq(Calls) /\ DOMAIN calls' = DOMAIN calls
  BY <1>2, <1>3, ExceptSeq DEF CallsTyped
<1> QED BY <1>1, <1>3, <1>4 DEF Calls

-----------------------------------------------------------------------------
(***************************************************************************)
(* IdsDenoteLiveCalls, and that it stays so: an id is added for a new call *)
(* at an address that no other call holds, and the id of an address goes   *)
(* when the only live call there ends.  With these two, no more is needed  *)
(* of the table than what add() and remove() do to the map.                *)
(***************************************************************************)
IInv == CallsTyped /\ IdsDenoteLiveCalls

\* Call k is the live call that id i stands for.
Denotes(i, k) == /\ calls[k].session = "ALIVE"
                 /\ calls[k].addr = id_map[i]
                 /\ calls[k].id = i

LEMMA DenotesIsLive ==
  IdsDenoteLiveCalls <=>
     /\ \A i \in g_call_ids!InUse : \E k \in DOMAIN calls : Denotes(i, k)
     /\ \A i, j \in g_call_ids!InUse : id_map[i] = id_map[j] => i = j
BY DEF IdsDenoteLiveCalls, LiveAt, Denotes

LEMMA InitIInv == Init => IInv
<1> SUFFICES ASSUME Init PROVE IInv
  OBVIOUS
<1>1. g_call_ids!InUse = {}
  BY DEF Init, g_call_ids!Init, g_call_ids!InUse
<1>2. CallsTyped
  BY DEF Init, CallsTyped
<1> QED BY <1>1, <1>2 DEF IInv, IdsDenoteLiveCalls

\* A new call that is alive, with an id for it.
LEMMA AddCallIInv ==
  ASSUME IInv, NEW a \in Addrs, g_call_ids!Add(a), g_call_ids!NextId \in MaybeId,
         NewCall(a, "ALIVE", g_call_ids!NextId)
  PROVE  IInv'
<1> DEFINE id == g_call_ids!NextId
<1>1. /\ calls' \in Seq(Calls)
      /\ Newest \in Nat /\ DOMAIN calls = 1 .. Newest
      /\ DOMAIN calls' = 1 .. Newest + 1
      /\ \A k \in DOMAIN calls : calls'[k] = calls[k]
      /\ calls'[Newest + 1] = [addr |-> a, session |-> "ALIVE", id |-> id]
      /\ \A k \in DOMAIN calls : calls[k].addr = a => calls[k].session = "FREED"
  BY NewCallAppends DEF IInv, Sessions
<1>2. id_map' = [i \in g_call_ids!InUse \cup {id} |-> IF i = id THEN a ELSE id_map[i]]
  BY DEF g_call_ids!Add
<1>3. g_call_ids!InUse' = g_call_ids!InUse \cup {id}
  BY <1>2 DEF g_call_ids!InUse
<1>4. \A i \in g_call_ids!InUse : id_map[i] # a
  BY <1>1 DEF IInv, IdsDenoteLiveCalls, LiveAt
<1>5. ASSUME NEW i \in g_call_ids!InUse'
      PROVE  \E k \in DOMAIN calls' : Denotes(i, k)'
  <2>1. CASE i = id
    <3>1. id_map'[i] = a
      BY <1>2, <1>3, <2>1
    <3>2. PICK n \in DOMAIN calls' : n = Newest + 1
      BY <1>1
    <3>3. Denotes(i, n)'
      BY <1>1, <2>1, <3>1, <3>2 DEF Denotes
    <3> QED BY <3>3
  <2>2. CASE i # id
    <3>1. i \in g_call_ids!InUse /\ id_map'[i] = id_map[i]
      BY <1>2, <1>3, <2>2
    <3>2. PICK k \in DOMAIN calls : Denotes(i, k)
      BY <3>1, DenotesIsLive DEF IInv
    <3>3. k \in DOMAIN calls' /\ Denotes(i, k)'
      BY <1>1, <3>1, <3>2 DEF Denotes
    <3> QED BY <3>3
  <2> QED BY <2>1, <2>2
<1>6. ASSUME NEW i \in g_call_ids!InUse', NEW j \in g_call_ids!InUse',
             id_map'[i] = id_map'[j]
      PROVE  i = j
  BY <1>2, <1>3, <1>4, <1>6 DEF IInv, IdsDenoteLiveCalls
<1>7. IdsDenoteLiveCalls'
  BY <1>5, <1>6 DEF IdsDenoteLiveCalls, LiveAt, Denotes
<1> QED BY <1>1, <1>7 DEF IInv, CallsTyped

\* The calls that are alive, and the map, stay as they are.
LEMMA SameLiveIInv ==
  ASSUME IInv, calls' \in Seq(Calls), UNCHANGED id_map, DOMAIN calls \subseteq DOMAIN calls',
         \A k \in DOMAIN calls :
            calls[k].session = "ALIVE" => calls'[k] = calls[k]
  PROVE  IInv'
<1>1. g_call_ids!InUse' = g_call_ids!InUse
  BY DEF g_call_ids!InUse
<1>2. ASSUME NEW i \in g_call_ids!InUse
      PROVE  \E k \in DOMAIN calls' : Denotes(i, k)'
  <2>1. PICK k \in DOMAIN calls : Denotes(i, k)
    BY DenotesIsLive DEF IInv
  <2> QED BY <2>1 DEF Denotes
<1>3. \A i, j \in g_call_ids!InUse : id_map[i] = id_map[j] => i = j
  BY DEF IInv, IdsDenoteLiveCalls
<1>4. IdsDenoteLiveCalls'
  BY <1>1, <1>2, <1>3 DEF IdsDenoteLiveCalls, LiveAt, Denotes
<1> QED BY <1>4 DEF IInv, CallsTyped

\* A new call without an id.
LEMMA NewUnnamedIInv ==
  ASSUME IInv, NEW a \in Addrs, NEW session \in Sessions, NewCall(a, session, None),
         UNCHANGED id_map
  PROVE  IInv'
<1>1. None \in MaybeId
  BY DEF MaybeId
<1>2. /\ calls' \in Seq(Calls)
      /\ Newest \in Nat /\ DOMAIN calls = 1 .. Newest /\ DOMAIN calls' = 1 .. Newest + 1
      /\ \A k \in DOMAIN calls : calls'[k] = calls[k]
  BY <1>1, NewCallAppends, Zenon DEF IInv
<1>3. DOMAIN calls \subseteq DOMAIN calls'
  BY <1>2
<1> QED BY <1>2, <1>3, SameLiveIInv

LEMMA DisconnectIInv ==
  ASSUME IInv, NEW k \in DOMAIN calls, Disconnect(k)
  PROVE  IInv'
<1> DEFINE a == calls[k].addr
<1>1. /\ calls' \in Seq(Calls)
      /\ DOMAIN calls' = DOMAIN calls
      /\ \A j \in DOMAIN calls : /\ calls'[j].addr = calls[j].addr
                                 /\ calls'[j].id = calls[j].id
                                 /\ j # k => calls'[j].session = calls[j].session
  BY SessionChanges DEF IInv, Disconnect, EndSession, Sessions
<1>2. /\ g_call_ids!InUse' \subseteq g_call_ids!InUse
      /\ \A i \in g_call_ids!InUse' : id_map'[i] = id_map[i] /\ id_map[i] # a
  <2>1. CASE g_call_ids!IdsOf(a) = {} /\ UNCHANGED <<ids, id_map>>
    BY <2>1 DEF g_call_ids!IdsOf, g_call_ids!InUse
  <2>2. CASE g_call_ids!RemoveByVal(a)
    <3>1. PICK id \in g_call_ids!InUse : id_map[id] = a
      BY <2>2 DEF g_call_ids!RemoveByVal, g_call_ids!IdsOf
    <3>2. g_call_ids!IdsOf(a) = {id}
      BY <3>1 DEF IInv, IdsDenoteLiveCalls, g_call_ids!IdsOf
    <3>3. g_call_ids!GetId(a) \in g_call_ids!InUse
      BY <2>2 DEF g_call_ids!RemoveByVal, g_call_ids!Remove
    <3>4. id_map' = [i \in g_call_ids!InUse \ {g_call_ids!GetId(a)} |-> id_map[i]]
      BY <2>2 DEF g_call_ids!RemoveByVal, g_call_ids!Remove
    <3>5. g_call_ids!GetId(a) = id
      BY <3>2 DEF g_call_ids!GetId
    <3>6. g_call_ids!InUse' = g_call_ids!InUse \ {id}
      BY <3>4, <3>5 DEF g_call_ids!InUse
    <3> QED BY <3>2, <3>4, <3>5, <3>6 DEF g_call_ids!IdsOf
  <2> QED BY <2>1, <2>2 DEF Disconnect
<1>3. ASSUME NEW i \in g_call_ids!InUse'
      PROVE  \E j \in DOMAIN calls' : Denotes(i, j)'
  <2>1. i \in g_call_ids!InUse /\ id_map'[i] = id_map[i] /\ id_map[i] # a
    BY <1>2
  <2>2. PICK j \in DOMAIN calls : Denotes(i, j)
    BY <2>1, DenotesIsLive DEF IInv
  <2>3. j # k
    BY <2>1, <2>2 DEF Denotes
  <2> QED BY <1>1, <2>1, <2>2, <2>3 DEF Denotes
<1>4. \A i, j \in g_call_ids!InUse : id_map[i] = id_map[j] => i = j
  BY DEF IInv, IdsDenoteLiveCalls
<1>5. IdsDenoteLiveCalls'
  BY <1>2, <1>3, <1>4 DEF IdsDenoteLiveCalls, LiveAt, Denotes
<1> QED BY <1>1, <1>5 DEF IInv, CallsTyped

LEMMA NextIInv ==
  ASSUME "transport" \notin FailingSteps, g_call_ids!TypeOK, IInv, [Next]_vars
  PROVE  IInv'
<1>1. ASSUME g_call_ids!CanAdd PROVE g_call_ids!NextId \in MaybeId
  BY <1>1, HeadTailProperties
     DEF g_call_ids!TypeOK, g_call_ids!CanAdd, g_call_ids!NextId, MaybeId
<1>2. CASE \E a \in Addrs : RxInvite(a)
  <2>1. PICK a \in Addrs : RxInvite(a)
    BY <1>2
  <2>2. CASE g_call_ids!Add(a)
    BY <1>1, <2>1, <2>2, AddCallIInv DEF RxInvite, g_call_ids!Add
  <2>3. CASE NewCall(a, "ALIVE", None) /\ UNCHANGED id_map
    BY <2>3, NewUnnamedIInv DEF Sessions
  <2> QED BY <2>1, <2>2, <2>3 DEF RxInvite
<1>3. CASE \E a \in Addrs : CallCreate(a) \/ CreateUnreported(a)
  <2>1. PICK a \in Addrs : CallCreate(a) \/ CreateUnreported(a)
    BY <1>3
  <2> QED BY <1>1, <2>1, AddCallIInv DEF CallCreate, CreateUnreported, g_call_ids!Add
<1>4. CASE \E a \in Addrs, step \in FailingSteps : CreateFails(a, step)
  <2>1. PICK a \in Addrs : NewCall(a, "LEFT", None) /\ UNCHANGED id_map
    BY <1>4, CallTableAssumption DEF CreateFails
  <2> QED BY <2>1, NewUnnamedIInv DEF Sessions
<1>5. CASE \E k \in DOMAIN calls : Disconnect(k)
  BY <1>5, DisconnectIInv
<1>6. CASE \E k \in DOMAIN calls : FreeDialog(k)
  <2>1. PICK k \in DOMAIN calls : FreeDialog(k)
    BY <1>6
  <2>2. /\ calls' \in Seq(Calls) /\ DOMAIN calls' = DOMAIN calls
        /\ \A j \in DOMAIN calls : j # k => calls'[j] = calls[j]
    <3>1. calls[k] \in Calls
      BY DEF IInv, CallsTyped
    <3> QED BY <2>1, <3>1, SessionChanges DEF FreeDialog, IInv, CallsTyped, Sessions
  <2> QED BY <2>1, <2>2, SameLiveIInv DEF FreeDialog
<1>7. CASE UNCHANGED <<id_map, calls>>
  BY <1>7, SameLiveIInv DEF IInv, CallsTyped
<1> QED
  BY <1>2, <1>3, <1>4, <1>5, <1>6, <1>7
     DEF Next, vars, CreateFailsWithId, RxResponse, Poll, StartRead, EndRead

-----------------------------------------------------------------------------
(***************************************************************************)
(* Types.  That a search finds an id, in the table or among the calls that *)
(* ended, rests on the least element of a set of naturals.                 *)
(***************************************************************************)
LEMMA LeastExists ==
  ASSUME NEW T, T \subseteq Nat, T # {}
  PROVE  \E x \in T : \A y \in T : x <= y
<1>1. PICK x \in T : \A y \in T : ~ (<<y, x>> \in OpToRel(<, Nat))
  BY WFMin, NatLessThanWellFounded
<1>2. ASSUME NEW y \in T PROVE ~ (y < x)
  BY <1>1 DEF OpToRel
<1> QED BY <1>2

LEMMA GetIdInUse ==
  ASSUME g_call_ids!TypeOK, NEW a, g_call_ids!IdsOf(a) # {}
  PROVE  /\ g_call_ids!GetId(a) \in g_call_ids!InUse
         /\ g_call_ids!GetId(a) \in g_call_ids!AllIds
         /\ id_map[g_call_ids!GetId(a)] = a
<1>1. g_call_ids!IdsOf(a) \subseteq g_call_ids!InUse /\ g_call_ids!InUse \subseteq g_call_ids!AllIds
  BY DEF g_call_ids!IdsOf, g_call_ids!TypeOK
<1>2. g_call_ids!IdsOf(a) \subseteq Nat
  <2>1. IdsMax - 1 \in Int
    BY CallTableAssumption
  <2>2. g_call_ids!AllIds \subseteq Nat
    BY <2>1 DEF g_call_ids!AllIds
  <2> QED BY <1>1, <2>2
<1>3. \E i \in g_call_ids!IdsOf(a) : \A j \in g_call_ids!IdsOf(a) : i <= j
  BY <1>2, LeastExists
<1>4. g_call_ids!GetId(a) \in g_call_ids!IdsOf(a)
  BY <1>3 DEF g_call_ids!GetId
<1> QED BY <1>1, <1>4 DEF g_call_ids!IdsOf

LEMMA ElementTyped ==
  ASSUME NEW S, NEW s \in Seq(S), NEW j \in DOMAIN s
  PROVE  s[j] \in S
OBVIOUS

Ended == [pCall : Addrs, id : g_call_ids!AllIds]

LEMMA FirstRememberedId ==
  ASSUME g_LastCalls \in Seq(Ended),
         NEW a, Remembered(a) # {}
  PROVE  FirstRemembered(a) \in g_call_ids!AllIds
<1>1. Remembered(a) \subseteq DOMAIN g_LastCalls /\ Remembered(a) \subseteq Nat
  BY DEF Remembered
<1>2. \E j \in Remembered(a) : \A l \in Remembered(a) : j <= l
  BY <1>1, LeastExists
<1>3. PICK j \in DOMAIN g_LastCalls : FirstRemembered(a) = g_LastCalls[j].id
  BY <1>1, <1>2 DEF FirstRemembered
<1>4. g_LastCalls[j] \in Ended
  BY ElementTyped
<1> QED BY <1>3, <1>4 DEF Ended

\* add() and remove() keep the table's types, and hand out its ids.
LEMMA AddTyped ==
  ASSUME g_call_ids!TypeOK, NEW a \in Addrs, g_call_ids!Add(a)
  PROVE  g_call_ids!TypeOK' /\ g_call_ids!NextId \in g_call_ids!AllIds
<1>1. ids # <<>> /\ ids \in Seq(g_call_ids!AllIds)
  BY DEF g_call_ids!Add, g_call_ids!CanAdd, g_call_ids!TypeOK
<1>2. g_call_ids!NextId \in g_call_ids!AllIds /\ Tail(ids) \in Seq(g_call_ids!AllIds)
  BY <1>1, HeadTailProperties DEF g_call_ids!NextId
<1> QED BY <1>2 DEF g_call_ids!TypeOK, g_call_ids!Add, g_call_ids!InUse

LEMMA PushBackTyped ==
  ASSUME NEW s \in Seq(g_call_ids!AllIds), NEW i \in g_call_ids!AllIds
  PROVE  g_call_ids!PushBack(s, i) \in Seq(g_call_ids!AllIds)
<1>1. Len(s) = IdsMax => s # <<>>
  BY CallTableAssumption
<1>2. (IF Len(s) = IdsMax THEN Tail(s) ELSE s) \in Seq(g_call_ids!AllIds)
  BY <1>1, HeadTailProperties
<1> QED BY <1>2, AppendProperties DEF g_call_ids!PushBack

LEMMA RemoveTyped ==
  ASSUME g_call_ids!TypeOK, NEW a, g_call_ids!RemoveByVal(a)
  PROVE  g_call_ids!TypeOK' /\ g_call_ids!GetId(a) \in g_call_ids!AllIds
<1>1. g_call_ids!GetId(a) \in g_call_ids!InUse /\ g_call_ids!GetId(a) \in g_call_ids!AllIds
  BY GetIdInUse DEF g_call_ids!RemoveByVal
<1>2. ids' \in Seq(g_call_ids!AllIds)
  BY <1>1, PushBackTyped DEF g_call_ids!RemoveByVal, g_call_ids!Remove, g_call_ids!TypeOK
<1> QED
  BY <1>1, <1>2 DEF g_call_ids!TypeOK, g_call_ids!RemoveByVal, g_call_ids!Remove,
                    g_call_ids!InUse

LEMMA CreateFailsWithIdTyped ==
  ASSUME g_call_ids!TypeOK, CreateFailsWithId
  PROVE  g_call_ids!TypeOK'
<1>1. ids # <<>> /\ ids \in Seq(g_call_ids!AllIds)
  BY DEF CreateFailsWithId, g_call_ids!CanAdd, g_call_ids!TypeOK
<1>2. g_call_ids!NextId \in g_call_ids!AllIds /\ Tail(ids) \in Seq(g_call_ids!AllIds)
  BY <1>1, HeadTailProperties DEF g_call_ids!NextId
<1>3. ids' \in Seq(g_call_ids!AllIds)
  BY <1>2, PushBackTyped DEF CreateFailsWithId
<1> QED BY <1>3 DEF CreateFailsWithId, g_call_ids!TypeOK, g_call_ids!InUse

\* dispatch_event() and __pjw_poll(): the queue, and what the client makes of it.
LEMMA DispatchTyped ==
  ASSUME g_events \in Seq(Events), NEW kind \in {"incoming_call", "call_ended", "response"},
         NEW id \in g_call_ids!AllIds, NEW k \in Nat, dispatch_event(Event(kind, id, k)),
         phase \in {"poll", "read"}
  PROVE  g_events' \in Seq(Events)
<1>1. Event(kind, id, k) \in Events
  BY DEF Event, Events
<1>2. g_events' = Append(g_events, Event(kind, id, k))
  BY DEF dispatch_event
<1> QED BY <1>1, <1>2, AppendProperties

LEMMA PollTyped ==
  ASSUME TypeOK, Poll
  PROVE  TypeOK'
<1>1. Head(g_events) \in Events /\ g_events' \in Seq(Events)
  BY HeadTailProperties DEF Poll, TypeOK
<1>2. client' \in [DOMAIN client' -> Nat]
  <2>1. Head(g_events).of \in Nat
    BY <1>1 DEF Events
  <2>2. client' = Learns(client, Head(g_events))
    BY DEF Poll
  <2> QED BY <2>1, <2>2 DEF Learns, Restrict, TypeOK
<1> QED
  BY <1>1, <1>2 DEF Poll, TypeOK, g_call_ids!TypeOK, g_call_ids!InUse

\* The addresses and ids that Disconnect and RxResponse work with.
LEMMA RememberTyped ==
  ASSUME TypeOK, NEW a \in Addrs, NEW id \in g_call_ids!AllIds, Remember(a, id)
  PROVE  g_LastCalls' \in Seq(Ended) /\ Len(g_LastCalls') <= LastMax
<1> DEFINE old == IF Len(g_LastCalls) = LastMax THEN Tail(g_LastCalls) ELSE g_LastCalls
<1>1. g_LastCalls \in Seq(Ended) /\ Len(g_LastCalls) <= LastMax /\ LastMax \in Nat \ {0}
  BY CallTableAssumption DEF TypeOK, Ended
<1>2. Len(g_LastCalls) = LastMax => g_LastCalls # <<>>
  BY <1>1
<1>3. old \in Seq(Ended) /\ Len(old) < LastMax /\ Len(old) \in Nat
  BY <1>1, <1>2, HeadTailProperties
<1>4. [pCall |-> a, id |-> id] \in Ended
  BY DEF Ended
<1>5. g_LastCalls' = Append(old, [pCall |-> a, id |-> id])
  BY DEF Remember
<1> HIDE DEF old
<1>6. g_LastCalls' \in Seq(Ended) /\ Len(g_LastCalls') = Len(old) + 1
  BY <1>3, <1>4, <1>5, AppendProperties
<1> QED BY <1>1, <1>3, <1>6

LEMMA ResponseIdTyped ==
  ASSUME TypeOK, NEW a, ResponseId(a) # None
  PROVE  ResponseId(a) \in g_call_ids!AllIds
BY GetIdInUse, FirstRememberedId DEF ResponseId, TypeOK, Ended

LEMMA RxInviteTyped ==
  ASSUME TypeOK, NEW a \in Addrs, RxInvite(a)
  PROVE  TypeOK'
<1>1. /\ CallsTyped /\ g_call_ids!TypeOK /\ g_events \in Seq(Events)
      /\ phase \in {"poll", "read"}
  BY DEF TypeOK, CallsTyped, Calls
<1>2. CASE /\ g_call_ids!Add(a)
           /\ NewCall(a, "ALIVE", g_call_ids!NextId)
           /\ dispatch_event(Event("incoming_call", g_call_ids!NextId, Newest + 1))
  <2>1. g_call_ids!TypeOK' /\ g_call_ids!NextId \in g_call_ids!AllIds
    BY <1>1, <1>2, AddTyped
  <2>2. calls' \in Seq(Calls) /\ Newest \in Nat
    BY <1>1, <1>2, <2>1, NewCallAppends DEF Sessions, MaybeId
  <2>3. PICK id \in g_call_ids!AllIds, k \in Nat :
           dispatch_event(Event("incoming_call", id, k))
    BY <1>2, <2>1, <2>2
  <2>4. g_events' \in Seq(Events)
    BY <1>1, <2>3, DispatchTyped
  <2> QED BY <2>1, <2>2, <2>4 DEF RxInvite, TypeOK, Calls
<1>3. CASE NewCall(a, "ALIVE", None) /\ UNCHANGED <<ids, id_map, g_events>>
  <2>1. calls' \in Seq(Calls)
    BY <1>1, <1>3, NewCallAppends DEF Sessions, MaybeId
  <2>2. g_call_ids!TypeOK'
    BY <1>1, <1>3 DEF g_call_ids!TypeOK, g_call_ids!InUse
  <2> QED BY <1>3, <2>1, <2>2 DEF RxInvite, TypeOK, Calls
<1> QED BY <1>2, <1>3 DEF RxInvite

LEMMA CallCreateTyped ==
  ASSUME TypeOK, NEW a \in Addrs, CallCreate(a)
  PROVE  TypeOK'
<1>1. CallsTyped /\ g_call_ids!TypeOK
  BY DEF TypeOK, CallsTyped, Calls
<1>2. g_call_ids!TypeOK' /\ g_call_ids!NextId \in g_call_ids!AllIds
  BY <1>1, AddTyped DEF CallCreate
<1>3. calls' \in Seq(Calls) /\ Newest \in Nat
  BY <1>1, <1>2, NewCallAppends DEF CallCreate, Sessions, MaybeId
<1>4. client' \in [DOMAIN client' -> Nat]
  BY <1>3 DEF CallCreate, TypeOK
<1>5. unnamed' \subseteq Nat
  BY <1>3 DEF CallCreate, TypeOK
<1> QED BY <1>2, <1>3, <1>4, <1>5 DEF CallCreate, TypeOK, Calls

LEMMA CreateUnreportedTyped ==
  ASSUME TypeOK, NEW a \in Addrs, CreateUnreported(a)
  PROVE  TypeOK'
<1>1. CallsTyped /\ g_call_ids!TypeOK
  BY DEF TypeOK, CallsTyped, Calls
<1>2. g_call_ids!TypeOK' /\ g_call_ids!NextId \in g_call_ids!AllIds
  BY <1>1, AddTyped DEF CreateUnreported
<1>3. calls' \in Seq(Calls) /\ Newest \in Nat
  BY <1>1, <1>2, NewCallAppends DEF CreateUnreported, Sessions, MaybeId
<1>4. unnamed' \subseteq Nat
  BY <1>3 DEF CreateUnreported, TypeOK
<1> QED BY <1>2, <1>3, <1>4 DEF CreateUnreported, TypeOK, Calls

LEMMA CreateFailsTyped ==
  ASSUME TypeOK, NEW a \in Addrs, NEW step \in FailingSteps, CreateFails(a, step)
  PROVE  TypeOK'
<1>1. CallsTyped /\ g_call_ids!TypeOK
  BY DEF TypeOK, CallsTyped, Calls
<1>2. g_call_ids!TypeOK'
  <2>1. CASE g_call_ids!Add(a)
    BY <1>1, <2>1, AddTyped
  <2>2. CASE UNCHANGED <<ids, id_map>>
    BY <1>1, <2>2 DEF g_call_ids!TypeOK, g_call_ids!InUse
  <2> QED BY <2>1, <2>2 DEF CreateFails
<1>3. calls' \in Seq(Calls)
  <2>1. PICK session \in Sessions : NewCall(a, session, None)
    BY DEF CreateFails, Sessions
  <2> QED BY <1>1, <2>1, NewCallAppends DEF MaybeId
<1> QED BY <1>2, <1>3 DEF CreateFails, TypeOK, Calls

LEMMA DisconnectTyped ==
  ASSUME TypeOK, NEW k \in DOMAIN calls, Disconnect(k)
  PROVE  TypeOK'
<1> DEFINE a == calls[k].addr
<1>1. /\ CallsTyped /\ g_call_ids!TypeOK /\ g_events \in Seq(Events)
      /\ phase \in {"poll", "read"}
  BY DEF TypeOK, CallsTyped, Calls
<1>2. calls' \in Seq(Calls) /\ a \in Addrs /\ k \in Nat
  <2>1. calls[k] \in Calls
    BY <1>1 DEF CallsTyped
  <2>2. calls' \in Seq(Calls)
    BY <1>1, SessionChanges DEF Disconnect, EndSession, Sessions
  <2> QED BY <1>1, <2>1, <2>2 DEF Calls, CallsTyped
<1>3. CASE /\ g_call_ids!RemoveByVal(a)
           /\ Remember(a, g_call_ids!GetId(a))
           /\ dispatch_event(Event("call_ended", g_call_ids!GetId(a), k))
  <2>1. g_call_ids!TypeOK' /\ g_call_ids!GetId(a) \in g_call_ids!AllIds
    BY <1>1, <1>3, RemoveTyped
  <2>2. g_LastCalls' \in Seq(Ended) /\ Len(g_LastCalls') <= LastMax
    BY <1>2, <1>3, <2>1, RememberTyped
  <2>3. g_events' \in Seq(Events)
    BY <1>1, <1>2, <1>3, <2>1, DispatchTyped
  <2> QED BY <1>2, <2>1, <2>2, <2>3 DEF Disconnect, TypeOK, Calls, Ended
<1>4. CASE UNCHANGED <<ids, id_map, g_LastCalls, g_events>>
  <2>1. g_call_ids!TypeOK'
    BY <1>1, <1>4 DEF g_call_ids!TypeOK, g_call_ids!InUse
  <2> QED BY <1>2, <1>4, <2>1 DEF Disconnect, TypeOK, Calls
<1> QED BY <1>3, <1>4 DEF Disconnect

LEMMA NextTyped == TypeOK /\ [Next]_vars => TypeOK'
<1> SUFFICES ASSUME TypeOK, [Next]_vars PROVE TypeOK'
  OBVIOUS
<1>1. CASE \E a \in Addrs : RxInvite(a)
  BY <1>1, RxInviteTyped
<1>2. CASE \E a \in Addrs : CallCreate(a) \/ CreateUnreported(a)
  BY <1>2, CallCreateTyped, CreateUnreportedTyped
<1>3. CASE \E a \in Addrs, step \in FailingSteps : CreateFails(a, step)
  BY <1>3, CreateFailsTyped
<1>4. CASE CreateFailsWithId
  <2>1. g_call_ids!TypeOK'
    BY <1>4, CreateFailsWithIdTyped DEF TypeOK
  <2> QED BY <1>4, <2>1 DEF CreateFailsWithId, TypeOK
<1>5. CASE \E k \in DOMAIN calls : Disconnect(k)
  BY <1>5, DisconnectTyped
<1>6. CASE \E k \in DOMAIN calls : FreeDialog(k)
  <2>1. calls' \in Seq(Calls)
    BY <1>6, SessionChanges DEF FreeDialog, TypeOK, CallsTyped, Calls, Sessions
  <2>2. g_call_ids!TypeOK'
    BY <1>6 DEF FreeDialog, TypeOK, g_call_ids!TypeOK, g_call_ids!InUse
  <2> QED BY <1>6, <2>1, <2>2 DEF FreeDialog, TypeOK, Calls
<1>7. CASE \E k \in DOMAIN calls : RxResponse(k)
  <2>1. PICK k \in DOMAIN calls : RxResponse(k)
    BY <1>7
  <2>2. ResponseId(calls[k].addr) \in g_call_ids!AllIds /\ k \in Nat
    BY <2>1, ResponseIdTyped DEF RxResponse, TypeOK
  <2>3. g_events' \in Seq(Events)
    BY <2>1, <2>2, DispatchTyped DEF RxResponse, TypeOK
  <2>4. g_call_ids!TypeOK'
    BY <2>1 DEF RxResponse, TypeOK, g_call_ids!TypeOK, g_call_ids!InUse
  <2> QED BY <2>1, <2>3, <2>4 DEF RxResponse, TypeOK
<1>8. CASE Poll
  BY <1>8, PollTyped
<1>9. CASE StartRead \/ EndRead
  BY <1>9 DEF StartRead, Read, EndRead, TypeOK, g_call_ids!TypeOK, g_call_ids!InUse
<1>10. CASE UNCHANGED vars
  BY <1>10 DEF vars, TypeOK, g_call_ids!TypeOK, g_call_ids!InUse
<1> QED BY <1>1, <1>2, <1>3, <1>4, <1>5, <1>6, <1>7, <1>8, <1>9, <1>10 DEF Next

LEMMA InitTyped == Init => TypeOK
<1> SUFFICES ASSUME Init PROVE TypeOK
  OBVIOUS
<1>1. g_call_ids!TypeOK
  <2>1. ids \in Seq(g_call_ids!AllIds)
    BY CallTableAssumption DEF Init, g_call_ids!Init, g_call_ids!AllIds
  <2> QED BY <2>1 DEF Init, g_call_ids!Init, g_call_ids!TypeOK, g_call_ids!InUse
<1>2. Len(g_LastCalls) <= LastMax
  BY CallTableAssumption DEF Init
<1> QED BY <1>1, <1>2 DEF Init, TypeOK

-----------------------------------------------------------------------------
(***************************************************************************)
(* What a client makes of the events it reads, Views, is defined by        *)
(* recursion over their number.  That there is such a function, and what   *)
(* becomes of it when an event is added or read, is by induction, here in  *)
(* the form of a set of naturals that is all of them.                      *)
(***************************************************************************)
LEMMA NatSetInduction ==
  ASSUME NEW T, 0 \in T, \A n \in Nat : n \in T => n + 1 \in T
  PROVE  \A n \in Nat : n \in T
<1> SUFFICES ASSUME Nat \ T # {} PROVE FALSE
  OBVIOUS
<1>1. PICK n \in Nat \ T : \A m \in Nat \ T : n <= m
  BY LeastExists
<1>2. n # 0 /\ n - 1 \in Nat
  BY <1>1
<1>3. n - 1 \in T
  BY <1>1, <1>2
<1>4. (n - 1) + 1 \in T
  BY <1>2, <1>3
<1> QED BY <1>1, <1>2, <1>4

\* f[m] is what a view is after the first m events, for m up to n.
FollowsTo(f, n, view, events) ==
  /\ f[0] = view
  /\ \A m \in 1 .. n : f[m] = Learns(f[m - 1], events[m])

LEMMA FollowerExists ==
  ASSUME NEW view, NEW events
  PROVE  \A n \in Nat : \E f : FollowsTo(f, n, view, events)
<1> DEFINE T == {n \in Nat : \E f : FollowsTo(f, n, view, events)}
<1>1. 0 \in T
  <2> DEFINE f == [m \in {0} |-> view]
  <2>1. FollowsTo(f, 0, view, events)
    BY DEF FollowsTo
  <2> QED BY <2>1
<1>2. ASSUME NEW n \in Nat, n \in T PROVE n + 1 \in T
  <2>1. PICK f : FollowsTo(f, n, view, events)
    BY <1>2
  <2> DEFINE g == [m \in 0 .. n + 1 |-> IF m = n + 1 THEN Learns(f[n], events[n + 1]) ELSE f[m]]
  <2>2. g[0] = view
    BY <2>1 DEF FollowsTo
  <2>3. ASSUME NEW m \in 1 .. n + 1 PROVE g[m] = Learns(g[m - 1], events[m])
    <3>1. m - 1 \in 0 .. n /\ g[m - 1] = f[m - 1]
      OBVIOUS
    <3>2. CASE m = n + 1
      BY <3>1, <3>2
    <3>3. CASE m # n + 1
      <4>1. m \in 1 .. n /\ g[m] = f[m]
        BY <3>3
      <4>2. f[m] = Learns(f[m - 1], events[m])
        BY <2>1, <4>1 DEF FollowsTo
      <4> QED BY <3>1, <4>1, <4>2
    <3> QED BY <3>2, <3>3
  <2>4. FollowsTo(g, n + 1, view, events)
    BY <2>2, <2>3 DEF FollowsTo
  <2> QED BY <2>4
<1> HIDE DEF T
<1>3. \A n \in Nat : n \in T
  BY <1>1, <1>2, NatSetInduction
<1> QED BY <1>3 DEF T

LEMMA FollowersAgree ==
  ASSUME NEW view, NEW events, NEW n \in Nat, NEW f, NEW g,
         FollowsTo(f, n, view, events), FollowsTo(g, n, view, events)
  PROVE  \A m \in 0 .. n : f[m] = g[m]
<1> DEFINE T == {m \in Nat : m <= n => f[m] = g[m]}
<1>1. 0 \in T
  BY DEF FollowsTo
<1>2. ASSUME NEW m \in Nat, m \in T PROVE m + 1 \in T
  <2> SUFFICES ASSUME m + 1 <= n PROVE f[m + 1] = g[m + 1]
    OBVIOUS
  <2>1. f[m] = g[m] /\ m + 1 \in 1 .. n /\ (m + 1) - 1 = m
    BY <1>2
  <2> QED BY <2>1 DEF FollowsTo
<1> HIDE DEF T
<1>3. \A m \in Nat : m \in T
  BY <1>1, <1>2, NatSetInduction
<1> QED BY <1>3 DEF T

LEMMA ViewsEquation ==
  ASSUME NEW view, NEW events
  PROVE  /\ Views(view, events)[0] = view
         /\ \A n \in Nat : Views(view, events)[n + 1]
                              = Learns(Views(view, events)[n], events[n + 1])
<1> DEFINE F(n) == CHOOSE f : FollowsTo(f, n, view, events)
           h == [n \in Nat |-> F(n)[n]]
           Seen(s) == s = [n \in Nat |-> IF n = 0 THEN view ELSE Learns(s[n - 1], events[n])]
<1>1. \A n \in Nat : FollowsTo(F(n), n, view, events)
  BY FollowerExists
<1>2. ASSUME NEW n \in Nat PROVE h[n] = IF n = 0 THEN view ELSE Learns(h[n - 1], events[n])
  <2> HIDE DEF F
  <2>1. FollowsTo(F(n), n, view, events)
    BY <1>1
  <2>2. CASE n = 0
    BY <2>1, <2>2 DEF FollowsTo
  <2>3. CASE n # 0
    <3>1. n - 1 \in Nat /\ FollowsTo(F(n - 1), n - 1, view, events)
      BY <1>1, <2>3
    <3>2. FollowsTo(F(n), n - 1, view, events)
      BY <2>1, <3>1 DEF FollowsTo
    <3>3. F(n)[n - 1] = F(n - 1)[n - 1]
      BY <3>1, <3>2, FollowersAgree
    <3>4. F(n)[n] = Learns(F(n)[n - 1], events[n])
      BY <2>1, <2>3 DEF FollowsTo
    <3> QED BY <2>3, <3>1, <3>3, <3>4
  <2> QED BY <2>2, <2>3
<1>3. Seen(h)
  <2> HIDE DEF F
  <2> QED BY <1>2
<1>4. Views(view, events) = CHOOSE s : Seen(s)
  BY DEF Views
<1> HIDE DEF h
<1>5. Seen(Views(view, events))
  BY <1>3, <1>4
<1> QED BY <1>5

\* An event that is added is read last.
LEMMA ViewsOfAppended ==
  ASSUME NEW view, NEW S, NEW events \in Seq(S), NEW e \in S
  PROVE  /\ \A n \in 0 .. Len(events) :
                Views(view, Append(events, e))[n] = Views(view, events)[n]
         /\ Views(view, Append(events, e))[Len(Append(events, e))]
               = Learns(Views(view, events)[Len(events)], e)
<1> DEFINE more == Append(events, e)
           T == {n \in Nat : n <= Len(events) => Views(view, more)[n] = Views(view, events)[n]}
<1>1. /\ Len(events) \in Nat /\ Len(more) = Len(events) + 1 /\ more[Len(events) + 1] = e
      /\ \A n \in 1 .. Len(events) : more[n] = events[n]
  BY AppendProperties
<1> HIDE DEF more
<1>2. 0 \in T
  BY ViewsEquation
<1>3. ASSUME NEW n \in Nat, n \in T PROVE n + 1 \in T
  <2> SUFFICES ASSUME n + 1 <= Len(events)
               PROVE  Views(view, more)[n + 1] = Views(view, events)[n + 1]
    OBVIOUS
  <2>1. Views(view, more)[n] = Views(view, events)[n] /\ more[n + 1] = events[n + 1]
    BY <1>1, <1>3
  <2> QED BY <2>1, ViewsEquation
<1>4. \A n \in Nat : n \in T
  <2> HIDE DEF T
  <2> QED BY <1>2, <1>3, NatSetInduction
<1>5. \A n \in 0 .. Len(events) : Views(view, more)[n] = Views(view, events)[n]
  BY <1>1, <1>4
<1>6. Views(view, more)[Len(more)] = Learns(Views(view, events)[Len(events)], e)
  <2>1. Views(view, more)[Len(events) + 1]
           = Learns(Views(view, more)[Len(events)], more[Len(events) + 1])
    BY <1>1, ViewsEquation
  <2>2. Views(view, more)[Len(events)] = Views(view, events)[Len(events)]
    BY <1>1, <1>5
  <2> QED BY <1>1, <2>1, <2>2
<1> QED BY <1>5, <1>6 DEF more

\* The event that is read is the first.
LEMMA ViewsOfTail ==
  ASSUME NEW view, NEW S, NEW events \in Seq(S), events # <<>>
  PROVE  \A n \in 0 .. Len(events) - 1 :
            Views(Learns(view, Head(events)), Tail(events))[n] = Views(view, events)[n + 1]
<1> DEFINE read == Learns(view, Head(events))
           rest == Tail(events)
           T == {n \in Nat : n < Len(events) => Views(read, rest)[n] = Views(view, events)[n + 1]}
<1>1. /\ Len(events) \in Nat \ {0} /\ Head(events) = events[1]
      /\ \A n \in 1 .. Len(events) - 1 : rest[n] = events[n + 1]
  BY HeadTailProperties
<1> HIDE DEF rest
<1>2. 0 \in T
  <2>1. Views(read, rest)[0] = read /\ Views(view, events)[0] = view
    BY ViewsEquation
  <2>2. Views(view, events)[0 + 1] = Learns(Views(view, events)[0], events[0 + 1])
    BY ViewsEquation
  <2>3. Views(view, events)[0 + 1] = read
    BY <1>1, <2>1, <2>2
  <2> QED BY <2>1, <2>3
<1>3. ASSUME NEW n \in Nat, n \in T PROVE n + 1 \in T
  <2> SUFFICES ASSUME n + 1 < Len(events)
               PROVE  Views(read, rest)[n + 1] = Views(view, events)[(n + 1) + 1]
    OBVIOUS
  <2>1. Views(read, rest)[n] = Views(view, events)[n + 1] /\ rest[n + 1] = events[(n + 1) + 1]
    BY <1>1, <1>3
  <2> HIDE DEF read
  <2> QED BY <2>1, ViewsEquation
<1>4. \A n \in Nat : n \in T
  <2> HIDE DEF T
  <2> QED BY <1>2, <1>3, NatSetInduction
<1> QED BY <1>1, <1>4 DEF rest

-----------------------------------------------------------------------------
(***************************************************************************)
(* The table and the calls, for what the client is told of them.           *)
(***************************************************************************)

\* Two calls never share an address while neither has been given back.
OneHolds == \A k, l \in DOMAIN calls :
               Holds(k) /\ Holds(l) /\ calls[k].addr = calls[l].addr => k = l

LEMMA OneHoldsNext ==
  ASSUME CallsTyped, OneHolds, g_call_ids!CanAdd => g_call_ids!NextId \in MaybeId, [Next]_vars
  PROVE  OneHolds'
<1>1. ASSUME NEW a \in Addrs, NEW session \in Sessions, NEW id \in MaybeId,
             NewCall(a, session, id)
      PROVE  OneHolds'
  <2>1. /\ Newest \in Nat /\ DOMAIN calls = 1 .. Newest
        /\ DOMAIN calls' = 1 .. Newest + 1
        /\ \A k \in DOMAIN calls : calls'[k] = calls[k]
        /\ calls'[Newest + 1] = [addr |-> a, session |-> session, id |-> id]
        /\ \A k \in DOMAIN calls : calls[k].addr = a => calls[k].session = "FREED"
    BY <1>1, NewCallAppends
  <2> SUFFICES ASSUME NEW k \in DOMAIN calls', NEW l \in DOMAIN calls',
                      calls'[k].session # "FREED", calls'[l].session # "FREED",
                      calls'[k].addr = calls'[l].addr
               PROVE  k = l
    BY DEF OneHolds, Holds
  <2>2. CASE k \in DOMAIN calls /\ l \in DOMAIN calls
    BY <2>1, <2>2 DEF OneHolds, Holds
  <2>3. CASE k \in DOMAIN calls /\ l = Newest + 1
    BY <2>1, <2>3
  <2>4. CASE l \in DOMAIN calls /\ k = Newest + 1
    BY <2>1, <2>4
  <2> QED BY <2>1, <2>2, <2>3, <2>4
<1>2. ASSUME NEW k \in DOMAIN calls, calls[k].session # "FREED", NEW session \in Sessions,
             calls' = [calls EXCEPT ![k].session = session]
      PROVE  OneHolds'
  <2>1. /\ DOMAIN calls' = DOMAIN calls
        /\ \A j \in DOMAIN calls : /\ calls'[j].addr = calls[j].addr
                                   /\ j # k => calls'[j].session = calls[j].session
    BY <1>2, SessionChanges
  <2> QED BY <1>2, <2>1 DEF OneHolds, Holds
<1>3. CASE UNCHANGED calls
  BY <1>3 DEF OneHolds, Holds
<1>4. CASE \E a \in Addrs : RxInvite(a)
  BY <1>1, <1>4 DEF RxInvite, g_call_ids!Add, MaybeId, Sessions
<1>5. CASE \E a \in Addrs : CallCreate(a) \/ CreateUnreported(a)
  BY <1>1, <1>5 DEF CallCreate, CreateUnreported, g_call_ids!Add, Sessions
<1>6. CASE \E a \in Addrs, step \in FailingSteps : CreateFails(a, step)
  <2>1. PICK a \in Addrs, session \in Sessions : NewCall(a, session, None)
    BY <1>6 DEF CreateFails, Sessions
  <2> QED BY <1>1, <2>1 DEF MaybeId
<1>7. CASE \E k \in DOMAIN calls : Disconnect(k)
  BY <1>2, <1>7 DEF Disconnect, EndSession, Sessions
<1>8. CASE \E k \in DOMAIN calls : FreeDialog(k)
  BY <1>2, <1>8 DEF FreeDialog, Sessions
<1> QED
  BY <1>3, <1>4, <1>5, <1>6, <1>7, <1>8
     DEF Next, vars, CreateFailsWithId, RxResponse, Poll, StartRead, EndRead

\* The free ids s are all different, and none of them is used.
Apart(s, used) == /\ \A m, n \in DOMAIN s : s[m] = s[n] => m = n
                  /\ \A n \in DOMAIN s : s[n] \notin used

IdsApart == Apart(ids, g_call_ids!InUse)

LEMMA ApartTail ==
  ASSUME NEW s \in Seq(g_call_ids!AllIds), s # <<>>, NEW used, Apart(s, used)
  PROVE  /\ Tail(s) \in Seq(g_call_ids!AllIds) /\ Head(s) \in g_call_ids!AllIds
         /\ Apart(Tail(s), used \cup {Head(s)})
         /\ Head(s) \notin used
<1>1. /\ Tail(s) \in Seq(g_call_ids!AllIds) /\ Head(s) \in g_call_ids!AllIds
      /\ Len(s) \in Nat \ {0} /\ Head(s) = s[1] /\ Len(Tail(s)) = Len(s) - 1
      /\ \A n \in 1 .. Len(s) - 1 : Tail(s)[n] = s[n + 1]
  BY HeadTailProperties
<1>2. DOMAIN s = 1 .. Len(s) /\ DOMAIN Tail(s) = 1 .. Len(s) - 1
  BY <1>1, LenProperties
<1> QED BY <1>1, <1>2 DEF Apart

LEMMA ApartPushBack ==
  ASSUME NEW s \in Seq(g_call_ids!AllIds), NEW i \in g_call_ids!AllIds, NEW used,
         Apart(s, used), i \notin used, \A n \in DOMAIN s : s[n] # i
  PROVE  Apart(g_call_ids!PushBack(s, i), used)
<1> DEFINE kept == IF Len(s) = IdsMax THEN Tail(s) ELSE s
<1>1. Len(s) = IdsMax => s # <<>>
  BY CallTableAssumption
<1>2. kept \in Seq(g_call_ids!AllIds) /\ Apart(kept, used) /\ \A n \in DOMAIN kept : kept[n] # i
  <2>1. CASE Len(s) = IdsMax
    <3>1. s # <<>>
      BY <1>1, <2>1
    <3>2. Tail(s) \in Seq(g_call_ids!AllIds) /\ Apart(Tail(s), used)
      BY <3>1, ApartTail DEF Apart
    <3>3. Len(s) \in Nat \ {0} /\ \A n \in 1 .. Len(s) - 1 : Tail(s)[n] = s[n + 1]
      BY <3>1, HeadTailProperties
    <3>4. DOMAIN s = 1 .. Len(s) /\ DOMAIN Tail(s) = 1 .. Len(s) - 1
      BY <3>1, HeadTailProperties, LenProperties
    <3> QED BY <2>1, <3>2, <3>3, <3>4
  <2>2. CASE Len(s) # IdsMax
    BY <2>2
  <2> QED BY <2>1, <2>2
<1> HIDE DEF kept
<1>3. /\ Len(kept) \in Nat /\ DOMAIN kept = 1 .. Len(kept)
      /\ Append(kept, i) \in Seq(g_call_ids!AllIds) /\ Len(Append(kept, i)) = Len(kept) + 1
      /\ Append(kept, i)[Len(kept) + 1] = i
      /\ \A n \in 1 .. Len(kept) : Append(kept, i)[n] = kept[n]
  BY <1>2, AppendProperties
<1>4. DOMAIN Append(kept, i) = 1 .. Len(kept) + 1
  BY <1>3, LenProperties
<1>5. Apart(Append(kept, i), used)
  BY <1>2, <1>3, <1>4 DEF Apart
<1> QED BY <1>5 DEF kept, g_call_ids!PushBack

LEMMA RemoveApart ==
  ASSUME g_call_ids!TypeOK, IdsApart, NEW a, g_call_ids!RemoveByVal(a)
  PROVE  IdsApart'
<1> DEFINE id == g_call_ids!GetId(a)
<1>1. /\ id \in g_call_ids!InUse /\ id \in g_call_ids!AllIds
      /\ ids' = g_call_ids!PushBack(ids, id)
      /\ g_call_ids!InUse' = g_call_ids!InUse \ {id}
  <2>1. id_map' = [i \in g_call_ids!InUse \ {id} |-> id_map[i]]
    BY DEF g_call_ids!RemoveByVal, g_call_ids!Remove
  <2>2. g_call_ids!InUse' = g_call_ids!InUse \ {id}
    BY <2>1 DEF g_call_ids!InUse
  <2> QED BY <2>2, GetIdInUse DEF g_call_ids!RemoveByVal, g_call_ids!Remove
<1> HIDE DEF id
<1>2. Apart(ids, g_call_ids!InUse \ {id}) /\ \A n \in DOMAIN ids : ids[n] # id
  BY <1>1 DEF IdsApart, Apart
<1>3. ids \in Seq(g_call_ids!AllIds)
  BY DEF g_call_ids!TypeOK
<1>4. Apart(ids', g_call_ids!InUse \ {id})
  BY <1>1, <1>2, <1>3, ApartPushBack
<1> QED BY <1>1, <1>4 DEF IdsApart

LEMMA IdsApartNext ==
  ASSUME g_call_ids!TypeOK, IdsApart, [Next]_vars
  PROVE  IdsApart'
<1>0. ids \in Seq(g_call_ids!AllIds)
  BY DEF g_call_ids!TypeOK
<1>1. ASSUME NEW a, g_call_ids!Add(a) PROVE IdsApart'
  <2>1. ids # <<>> /\ ids' = Tail(ids)
    BY <1>1 DEF g_call_ids!Add, g_call_ids!CanAdd
  <2>2. g_call_ids!InUse' = g_call_ids!InUse \cup {Head(ids)}
    BY <1>1 DEF g_call_ids!Add, g_call_ids!InUse, g_call_ids!NextId
  <2> QED BY <1>0, <2>1, <2>2, ApartTail DEF IdsApart
<1>2. CASE CreateFailsWithId
  <2>1. ids # <<>> /\ ids' = g_call_ids!PushBack(Tail(ids), Head(ids)) /\ UNCHANGED id_map
    BY <1>2 DEF CreateFailsWithId, g_call_ids!CanAdd, g_call_ids!NextId
  <2>2. /\ Tail(ids) \in Seq(g_call_ids!AllIds) /\ Head(ids) \in g_call_ids!AllIds
        /\ Apart(Tail(ids), g_call_ids!InUse \cup {Head(ids)})
        /\ Head(ids) \notin g_call_ids!InUse
    BY <1>0, <2>1, ApartTail DEF IdsApart
  <2>3. Apart(ids', g_call_ids!InUse)
    BY <2>1, <2>2, ApartPushBack DEF Apart
  <2> QED BY <2>1, <2>3 DEF IdsApart, g_call_ids!InUse
<1>3. CASE UNCHANGED <<ids, id_map>>
  BY <1>3 DEF IdsApart, Apart, g_call_ids!InUse
<1>4. CASE \E a \in Addrs : \/ RxInvite(a) \/ CallCreate(a) \/ CreateUnreported(a)
                            \/ \E step \in FailingSteps : CreateFails(a, step)
  BY <1>1, <1>3, <1>4 DEF RxInvite, CallCreate, CreateUnreported, CreateFails
<1>5. CASE \E k \in DOMAIN calls : Disconnect(k)
  BY <1>3, <1>5, RemoveApart DEF Disconnect
<1> QED
  BY <1>2, <1>3, <1>4, <1>5 DEF Next, vars, FreeDialog, RxResponse, Poll, StartRead, EndRead

\* A call that is alive and was given an id still has it.
NamedLive == \A k \in DOMAIN calls :
                calls[k].session = "ALIVE" /\ calls[k].id # None =>
                   calls[k].id \in g_call_ids!InUse /\ id_map[calls[k].id] = calls[k].addr

LEMMA AddNamed ==
  ASSUME CallsTyped, g_call_ids!TypeOK, IdsApart, NamedLive, NEW a \in Addrs,
         g_call_ids!Add(a), NewCall(a, "ALIVE", g_call_ids!NextId)
  PROVE  NamedLive'
<1> DEFINE id == g_call_ids!NextId
<1>1. id \in g_call_ids!AllIds /\ id \notin g_call_ids!InUse
  BY ApartTail DEF g_call_ids!TypeOK, g_call_ids!Add, g_call_ids!CanAdd, g_call_ids!NextId,
                   IdsApart
<1>2. /\ Newest \in Nat /\ DOMAIN calls = 1 .. Newest
      /\ DOMAIN calls' = 1 .. Newest + 1
      /\ \A k \in DOMAIN calls : calls'[k] = calls[k]
      /\ calls'[Newest + 1] = [addr |-> a, session |-> "ALIVE", id |-> id]
  BY <1>1, NewCallAppends DEF MaybeId, Sessions
<1>3. id_map' = [i \in g_call_ids!InUse \cup {id} |-> IF i = id THEN a ELSE id_map[i]]
  BY DEF g_call_ids!Add
<1>4. g_call_ids!InUse' = g_call_ids!InUse \cup {id}
  BY <1>3 DEF g_call_ids!InUse
<1> HIDE DEF id
<1> SUFFICES ASSUME NEW k \in DOMAIN calls', calls'[k].session = "ALIVE", calls'[k].id # None
             PROVE  /\ calls'[k].id \in g_call_ids!InUse'
                    /\ id_map'[calls'[k].id] = calls'[k].addr
  BY DEF NamedLive
<1>5. CASE k \in DOMAIN calls
  <2>1. calls'[k] = calls[k] /\ calls[k].id \in g_call_ids!InUse
        /\ id_map[calls[k].id] = calls[k].addr
    BY <1>2, <1>5 DEF NamedLive
  <2> QED BY <1>1, <1>3, <1>4, <2>1
<1>6. CASE k = Newest + 1
  BY <1>2, <1>3, <1>4, <1>6
<1> QED BY <1>2, <1>5, <1>6

LEMMA DisconnectNamed ==
  ASSUME CallsTyped, g_call_ids!TypeOK, OneHolds, NamedLive, NEW k \in DOMAIN calls,
         Disconnect(k)
  PROVE  NamedLive'
<1> DEFINE a == calls[k].addr
<1>1. /\ DOMAIN calls' = DOMAIN calls
      /\ \A j \in DOMAIN calls : /\ calls'[j].addr = calls[j].addr
                                 /\ calls'[j].id = calls[j].id
                                 /\ j # k => calls'[j].session = calls[j].session
      /\ calls'[k].session = "DISCONNECTED"
  BY SessionChanges DEF Disconnect, EndSession, Sessions
<1>2. \A j \in DOMAIN calls : calls[j].session = "ALIVE" /\ j # k => calls[j].addr # a
  BY DEF OneHolds, Holds, Disconnect
<1>3. /\ \A i \in g_call_ids!InUse :
           id_map[i] # a => i \in g_call_ids!InUse' /\ id_map'[i] = id_map[i]
  <2>1. CASE UNCHANGED <<ids, id_map>>
    BY <2>1 DEF g_call_ids!InUse
  <2>2. CASE g_call_ids!RemoveByVal(a)
    <3>1. g_call_ids!GetId(a) \in g_call_ids!InUse /\ id_map[g_call_ids!GetId(a)] = a
      BY <2>2, GetIdInUse DEF g_call_ids!RemoveByVal
    <3>2. id_map' = [i \in g_call_ids!InUse \ {g_call_ids!GetId(a)} |-> id_map[i]]
      BY <2>2 DEF g_call_ids!RemoveByVal, g_call_ids!Remove
    <3> QED BY <3>1, <3>2 DEF g_call_ids!InUse
  <2> QED BY <2>1, <2>2 DEF Disconnect
<1> QED BY <1>1, <1>2, <1>3 DEF NamedLive

LEMMA NamedLiveNext ==
  ASSUME "transport" \notin FailingSteps, CallsTyped, g_call_ids!TypeOK, IdsApart, OneHolds,
         NamedLive, [Next]_vars
  PROVE  NamedLive'
<1>1. ASSUME NEW a \in Addrs, NEW session \in Sessions, NewCall(a, session, None),
             UNCHANGED id_map
      PROVE  NamedLive'
  <2>1. /\ Newest \in Nat /\ DOMAIN calls = 1 .. Newest
        /\ DOMAIN calls' = 1 .. Newest + 1
        /\ \A k \in DOMAIN calls : calls'[k] = calls[k]
        /\ calls'[Newest + 1] = [addr |-> a, session |-> session, id |-> None]
    BY <1>1, NewCallAppends, Zenon DEF MaybeId
  <2> QED BY <1>1, <2>1 DEF NamedLive, g_call_ids!InUse
<1>2. CASE \E a \in Addrs : RxInvite(a)
  BY <1>1, <1>2, AddNamed DEF RxInvite, Sessions
<1>3. CASE \E a \in Addrs : CallCreate(a) \/ CreateUnreported(a)
  BY <1>3, AddNamed DEF CallCreate, CreateUnreported
<1>4. CASE \E a \in Addrs, step \in FailingSteps : CreateFails(a, step)
  <2>1. PICK a \in Addrs : NewCall(a, "LEFT", None) /\ UNCHANGED id_map
    BY <1>4, CallTableAssumption DEF CreateFails
  <2> QED BY <1>1, <2>1 DEF Sessions
<1>5. CASE \E k \in DOMAIN calls : Disconnect(k)
  BY <1>5, DisconnectNamed
<1>6. CASE \E k \in DOMAIN calls : FreeDialog(k)
  <2>1. PICK k \in DOMAIN calls : FreeDialog(k)
    BY <1>6
  <2>2. /\ DOMAIN calls' = DOMAIN calls
        /\ \A j \in DOMAIN calls : /\ calls'[j].addr = calls[j].addr
                                   /\ calls'[j].id = calls[j].id
                                   /\ j # k => calls'[j].session = calls[j].session
        /\ calls'[k].session = "FREED"
    BY <2>1, SessionChanges DEF FreeDialog, Sessions
  <2> QED BY <2>1, <2>2 DEF NamedLive, FreeDialog, g_call_ids!InUse
<1>7. CASE UNCHANGED <<id_map, calls>>
  BY <1>7 DEF NamedLive, g_call_ids!InUse
<1> QED
  BY <1>2, <1>3, <1>4, <1>5, <1>6, <1>7
     DEF Next, vars, CreateFailsWithId, RxResponse, Poll, StartRead, EndRead

-----------------------------------------------------------------------------
(***************************************************************************)
(* ViewAgrees is inductive together with EndedNamesItsCall: an event adds  *)
(* to the view what its step adds to the table, or takes what it takes;    *)
(* reading it only moves what it says from the queue to the client; and    *)
(* the result of call_create() puts the call under its id in every view    *)
(* from now on, but those behind an event that names the same id.          *)
(***************************************************************************)
LEMMA DispatchViews ==
  ASSUME g_events \in Seq(Events), NEW e \in Events, dispatch_event(e), UNCHANGED client
  PROVE  /\ Len(g_events) \in Nat /\ DOMAIN g_events = 1 .. Len(g_events)
         /\ DOMAIN g_events' = 1 .. Len(g_events) + 1 /\ Len(g_events') = Len(g_events) + 1
         /\ g_events'[Len(g_events) + 1] = e
         /\ \A n \in 1 .. Len(g_events) : g_events'[n] = g_events[n]
         /\ \A n \in 0 .. Len(g_events) : View(n)' = View(n)
         /\ Views(client', g_events')[Len(g_events')] = Learns(View(Len(g_events)), e)
<1>1. g_events' = Append(g_events, e)
  BY DEF dispatch_event
<1>2. /\ Len(g_events) \in Nat /\ g_events' \in Seq(Events) /\ Len(g_events') = Len(g_events) + 1
      /\ g_events'[Len(g_events) + 1] = e
      /\ \A n \in 1 .. Len(g_events) : g_events'[n] = g_events[n]
  BY <1>1, AppendProperties
<1>3. DOMAIN g_events = 1 .. Len(g_events) /\ DOMAIN g_events' = 1 .. Len(g_events) + 1
  BY <1>2, LenProperties
<1>4. /\ \A n \in 0 .. Len(g_events) : Views(client, g_events')[n] = Views(client, g_events)[n]
      /\ Views(client, g_events')[Len(g_events')]
            = Learns(Views(client, g_events)[Len(g_events)], e)
  BY <1>1, ViewsOfAppended
<1> QED BY <1>2, <1>3, <1>4 DEF View

\* EndedNamesItsCall, of an event e that is read with the view v.
EndedKnown(v, e, hidden) ==
  e.event = "call_ended" /\ e.of \notin hidden =>
     e.id \in DOMAIN v /\ v[e.id] \in {e.of} \cup hidden

LEMMA EndedKnownIsEndedNames ==
  EndedNamesItsCall <=> \A n \in DOMAIN g_events : EndedKnown(View(n - 1), g_events[n], unnamed)
BY DEF EndedNamesItsCall, EndedKnown

LEMMA EndedLater ==
  ASSUME \A n \in DOMAIN g_events' :
            EndedKnown(Views(client', g_events')[n - 1], g_events'[n], unnamed')
  PROVE  EndedNamesItsCall'
BY DEF EndedNamesItsCall, EndedKnown, View

LEMMA DispatchEnded ==
  ASSUME g_events \in Seq(Events), NEW e \in Events, dispatch_event(e),
         UNCHANGED <<client, unnamed>>,
         EndedNamesItsCall, EndedKnown(View(Len(g_events)), e, unnamed)
  PROVE  EndedNamesItsCall'
<1> SUFFICES ASSUME NEW n \in DOMAIN g_events'
             PROVE  EndedKnown(Views(client', g_events')[n - 1], g_events'[n], unnamed)
  BY EndedLater
<1>1. /\ Len(g_events) \in Nat /\ DOMAIN g_events = 1 .. Len(g_events)
      /\ DOMAIN g_events' = 1 .. Len(g_events) + 1
      /\ g_events'[Len(g_events) + 1] = e
      /\ \A m \in 1 .. Len(g_events) : g_events'[m] = g_events[m]
      /\ \A m \in 0 .. Len(g_events) : Views(client', g_events')[m] = Views(client, g_events)[m]
  BY DispatchViews DEF View
<1>2. n - 1 \in 0 .. Len(g_events)
  BY <1>1
<1>3. CASE n = Len(g_events) + 1
  <2>1. n - 1 = Len(g_events) /\ Views(client', g_events')[n - 1] = View(Len(g_events))
    BY <1>1, <1>2, <1>3 DEF View
  <2> QED BY <1>1, <1>3, <2>1
<1>4. CASE n \in 1 .. Len(g_events)
  <2>1. EndedKnown(View(n - 1), g_events[n], unnamed)
    BY <1>1, <1>4, EndedKnownIsEndedNames
  <2> QED BY <1>1, <1>2, <1>4, <2>1 DEF View
<1> QED BY <1>1, <1>3, <1>4

LEMMA EventTyped ==
  ASSUME NEW kind \in {"incoming_call", "call_ended", "response"},
         NEW id \in g_call_ids!AllIds, NEW k \in Nat, phase \in {"poll", "read"}
  PROVE  \E e \in Events : /\ e = Event(kind, id, k)
                           /\ e.event = kind /\ e.id = id /\ e.of = k /\ e.during = phase
<1>1. Event(kind, id, k) \in Events
  BY DEF Event, Events
<1> QED BY <1>1 DEF Event

\* In the middle of a read only what came in that read is waiting.
ReadDrained == phase = "read" => \A n \in DOMAIN g_events : g_events[n].during = "read"

LEMMA DispatchDrained ==
  ASSUME g_events \in Seq(Events), NEW e \in Events, e.during = phase, dispatch_event(e),
         UNCHANGED phase, ReadDrained
  PROVE  ReadDrained'
<1>1. g_events' = Append(g_events, e)
  BY DEF dispatch_event
<1>2. /\ Len(g_events) \in Nat /\ g_events' \in Seq(Events) /\ Len(g_events') = Len(g_events) + 1
      /\ g_events'[Len(g_events) + 1] = e
      /\ \A n \in 1 .. Len(g_events) : g_events'[n] = g_events[n]
  BY <1>1, AppendProperties
<1>3. DOMAIN g_events = 1 .. Len(g_events) /\ DOMAIN g_events' = 1 .. Len(g_events) + 1
  BY <1>2, LenProperties
<1> QED BY <1>2, <1>3 DEF ReadDrained

LEMMA ReadDrainedNext ==
  ASSUME TypeOK, ReadDrained, [Next]_vars
  PROVE  ReadDrained'
<1>1. g_events \in Seq(Events) /\ phase \in {"poll", "read"} /\ g_call_ids!TypeOK /\ CallsTyped
  BY DEF TypeOK, CallsTyped, Calls
<1>2. ASSUME UNCHANGED <<g_events, phase>> PROVE ReadDrained'
  BY <1>2 DEF ReadDrained
<1>3. ASSUME NEW kind \in {"incoming_call", "call_ended", "response"},
             NEW id \in g_call_ids!AllIds, NEW k \in Nat,
             dispatch_event(Event(kind, id, k)), UNCHANGED phase
      PROVE  ReadDrained'
  <2>1. PICK e \in Events : e = Event(kind, id, k) /\ e.during = phase
    BY <1>1, EventTyped
  <2> QED BY <1>1, <1>3, <2>1, DispatchDrained
<1>4. CASE \E a \in Addrs : RxInvite(a)
  <2>1. PICK a \in Addrs : RxInvite(a)
    BY <1>4
  <2>2. CASE /\ g_call_ids!Add(a)
             /\ dispatch_event(Event("incoming_call", g_call_ids!NextId, Newest + 1))
    <3>1. g_call_ids!NextId \in g_call_ids!AllIds /\ Newest + 1 \in Nat
      BY <1>1, <2>2, AddTyped DEF CallsTyped, Newest
    <3> QED BY <1>3, <2>1, <2>2, <3>1 DEF RxInvite
  <2>3. CASE UNCHANGED g_events
    BY <1>2, <2>1, <2>3 DEF RxInvite
  <2> QED BY <2>1, <2>2, <2>3 DEF RxInvite
<1>5. CASE \E k \in DOMAIN calls : Disconnect(k)
  <2>1. PICK k \in DOMAIN calls : Disconnect(k)
    BY <1>5
  <2>2. CASE /\ g_call_ids!RemoveByVal(calls[k].addr)
             /\ dispatch_event(Event("call_ended", g_call_ids!GetId(calls[k].addr), k))
    <3>1. g_call_ids!GetId(calls[k].addr) \in g_call_ids!AllIds /\ k \in Nat
      BY <1>1, <2>2, RemoveTyped DEF CallsTyped
    <3> QED BY <1>3, <2>1, <2>2, <3>1 DEF Disconnect
  <2>3. CASE UNCHANGED g_events
    BY <1>2, <2>1, <2>3 DEF Disconnect
  <2> QED BY <2>1, <2>2, <2>3 DEF Disconnect
<1>6. CASE \E k \in DOMAIN calls : RxResponse(k)
  <2>1. PICK k \in DOMAIN calls : RxResponse(k)
    BY <1>6
  <2>2. ResponseId(calls[k].addr) \in g_call_ids!AllIds /\ k \in Nat
    BY <1>1, <2>1, ResponseIdTyped DEF RxResponse, CallsTyped
  <2> QED BY <1>3, <2>1, <2>2 DEF RxResponse
<1>7. CASE Poll \/ EndRead
  BY <1>7 DEF Poll, EndRead, ReadDrained
<1>8. CASE StartRead
  BY <1>8 DEF StartRead, Read, ReadDrained
<1>9. CASE \E a \in Addrs : \/ CallCreate(a) \/ CreateUnreported(a)
                            \/ \E step \in FailingSteps : CreateFails(a, step)
  BY <1>2, <1>9 DEF CallCreate, CreateUnreported, CreateFails
<1>10. CASE CreateFailsWithId \/ (\E k \in DOMAIN calls : FreeDialog(k)) \/ UNCHANGED vars
  BY <1>2, <1>10 DEF CreateFailsWithId, FreeDialog, vars
<1> QED BY <1>4, <1>5, <1>6, <1>7, <1>8, <1>9, <1>10 DEF Next

\* ViewAgrees, of the view v, the table, the calls made and the unnamed ones.
Agrees(v, table, made, hidden) ==
  /\ DOMAIN v \subseteq DOMAIN table
  /\ \A i \in DOMAIN v : /\ v[i] \in DOMAIN made
                         /\ made[v[i]].session = "ALIVE"
                         /\ made[v[i]].addr = table[i]
  /\ \A i \in DOMAIN table \ DOMAIN v :
        \A k \in DOMAIN made :
           made[k].session = "ALIVE" /\ made[k].addr = table[i] => k \in hidden

LEMMA AgreesIsViewAgrees == ViewAgrees <=> Agrees(View(Len(g_events)), id_map, calls, unnamed)
BY DEF ViewAgrees, Agrees, LiveAt, g_call_ids!InUse

\* The same of the state behind a step, where the view is v.
LEMMA AgreesLater ==
  ASSUME NEW v, v = Views(client', g_events')[Len(g_events')],
         Agrees(v, id_map', calls', unnamed')
  PROVE  ViewAgrees'
BY DEF ViewAgrees, Agrees, LiveAt, g_call_ids!InUse, View

\* A step that adds a call under a free id, which the client is given, or is not.
LEMMA AddedAgrees ==
  ASSUME CallsTyped, IdsDenoteLiveCalls, NEW v, Agrees(v, id_map, calls, unnamed),
         NEW a \in Addrs, g_call_ids!Add(a), g_call_ids!NextId \in MaybeId,
         NewCall(a, "ALIVE", g_call_ids!NextId), NEW w, NEW hidden, unnamed \subseteq hidden,
         DOMAIN w \ {g_call_ids!NextId} = DOMAIN v \ {g_call_ids!NextId},
         \A i \in DOMAIN w \ {g_call_ids!NextId} : w[i] = v[i],
         \/ g_call_ids!NextId \in DOMAIN w /\ w[g_call_ids!NextId] = Newest + 1
         \/ g_call_ids!NextId \notin DOMAIN w /\ Newest + 1 \in hidden
  PROVE  Agrees(w, id_map', calls', hidden)
<1> DEFINE id == g_call_ids!NextId
<1>1. /\ Newest \in Nat /\ DOMAIN calls = 1 .. Newest
      /\ DOMAIN calls' = 1 .. Newest + 1
      /\ \A k \in DOMAIN calls : calls'[k] = calls[k]
      /\ calls'[Newest + 1] = [addr |-> a, session |-> "ALIVE", id |-> id]
      /\ \A k \in DOMAIN calls : calls[k].addr = a => calls[k].session = "FREED"
  BY NewCallAppends DEF Sessions
<1>2. id_map' = [i \in DOMAIN id_map \cup {id} |-> IF i = id THEN a ELSE id_map[i]]
  BY DEF g_call_ids!Add, g_call_ids!InUse
<1>3. \A i \in DOMAIN id_map : id_map[i] # a
  BY <1>1 DEF IdsDenoteLiveCalls, LiveAt, g_call_ids!InUse
<1>4. /\ DOMAIN w \ {id} = DOMAIN v \ {id} /\ \A i \in DOMAIN w \ {id} : w[i] = v[i]
      /\ \/ id \in DOMAIN w /\ w[id] = Newest + 1
         \/ id \notin DOMAIN w /\ Newest + 1 \in hidden
  OBVIOUS
<1> HIDE DEF id
<1>5. DOMAIN w \subseteq DOMAIN id_map'
  BY <1>2, <1>4 DEF Agrees
<1>6. ASSUME NEW i \in DOMAIN w
      PROVE  /\ w[i] \in DOMAIN calls' /\ calls'[w[i]].session = "ALIVE"
             /\ calls'[w[i]].addr = id_map'[i]
  <2>1. CASE i = id
    BY <1>1, <1>2, <1>4, <2>1
  <2>2. CASE i # id
    <3>1. /\ i \in DOMAIN v /\ i \in DOMAIN id_map /\ w[i] = v[i]
          /\ v[i] \in DOMAIN calls /\ calls[v[i]].session = "ALIVE"
          /\ calls[v[i]].addr = id_map[i]
      BY <1>4, <2>2 DEF Agrees
    <3>2. id_map'[i] = id_map[i] /\ v[i] \in DOMAIN calls' /\ calls'[v[i]] = calls[v[i]]
      BY <1>1, <1>2, <2>2, <3>1
    <3> QED BY <3>1, <3>2
  <2> QED BY <2>1, <2>2
<1>7. ASSUME NEW i \in DOMAIN id_map', i \notin DOMAIN w, NEW k \in DOMAIN calls',
             calls'[k].session = "ALIVE", calls'[k].addr = id_map'[i]
      PROVE  k \in hidden
  <2>1. CASE i = id
    <3>1. id_map'[i] = a
      BY <1>2, <2>1
    <3>2. k \notin DOMAIN calls
      BY <1>1, <1>7, <3>1
    <3> QED BY <1>1, <1>4, <1>7, <2>1, <3>2
  <2>2. CASE i # id
    <3>1. i \in DOMAIN id_map /\ i \notin DOMAIN v /\ id_map'[i] = id_map[i]
      BY <1>2, <1>4, <1>7, <2>2
    <3>2. k \in DOMAIN calls /\ calls'[k] = calls[k]
      <4>1. k # Newest + 1
        BY <1>1, <1>3, <1>7, <3>1
      <4> QED BY <1>1, <4>1
    <3> QED BY <1>7, <3>1, <3>2 DEF Agrees
  <2> QED BY <2>1, <2>2
<1> QED BY <1>5, <1>6, <1>7 DEF Agrees

\* A step that adds no call which is alive at the address of an id in use, and leaves the
\* ids, the live calls, and what the client knows of them.
LEMMA SameLiveAgrees ==
  ASSUME ViewAgrees, EndedNamesItsCall, UNCHANGED <<id_map, g_events, client, unnamed>>,
         DOMAIN calls \subseteq DOMAIN calls',
         \A k \in DOMAIN calls : calls[k].session = "ALIVE" => calls'[k] = calls[k],
         \A k \in DOMAIN calls' : calls'[k].session = "ALIVE" =>
            (k \in DOMAIN calls /\ calls[k].session = "ALIVE")
               \/ \A i \in g_call_ids!InUse : id_map[i] # calls'[k].addr
  PROVE  ViewAgrees' /\ EndedNamesItsCall'
<1>1. PICK v : v = View(Len(g_events))
  OBVIOUS
<1>2. Agrees(v, id_map, calls, unnamed)
  BY <1>1, AgreesIsViewAgrees
<1>3. Agrees(v, id_map', calls', unnamed')
  BY <1>2 DEF Agrees, g_call_ids!InUse
<1>4. v = Views(client', g_events')[Len(g_events')]
  BY <1>1 DEF View
<1>5. ViewAgrees'
  BY <1>3, <1>4, AgreesLater
<1> QED BY <1>5 DEF EndedNamesItsCall, View

\* A new call without an id: at its address no id leads to a call.
LEMMA UnnamedAgrees ==
  ASSUME CallsTyped, IdsDenoteLiveCalls, ViewAgrees, EndedNamesItsCall,
         UNCHANGED <<id_map, g_events, client, unnamed>>,
         NEW a \in Addrs, NEW session \in Sessions, NewCall(a, session, None)
  PROVE  ViewAgrees' /\ EndedNamesItsCall'
<1>1. None \in MaybeId
  BY DEF MaybeId
<1>2. /\ Newest \in Nat /\ DOMAIN calls = 1 .. Newest /\ DOMAIN calls' = 1 .. Newest + 1
      /\ \A k \in DOMAIN calls : calls'[k] = calls[k]
      /\ calls'[Newest + 1] = [addr |-> a, session |-> session, id |-> None]
      /\ \A k \in DOMAIN calls : calls[k].addr = a => calls[k].session = "FREED"
  BY <1>1, NewCallAppends, Zenon
<1>3. calls'[Newest + 1].addr = a
  BY <1>2
<1>4. \A i \in g_call_ids!InUse : id_map[i] # a
  BY <1>2 DEF IdsDenoteLiveCalls, LiveAt
<1>5. \A k \in DOMAIN calls' : k \in DOMAIN calls \/ k = Newest + 1
  BY <1>2
<1>6. DOMAIN calls \subseteq DOMAIN calls'
  BY <1>2
<1> QED BY <1>2, <1>3, <1>4, <1>5, <1>6, SameLiveAgrees

LEMMA RxInviteAgrees ==
  ASSUME TypeOK, IdsDenoteLiveCalls, ViewAgrees, EndedNamesItsCall, NEW a \in Addrs, RxInvite(a)
  PROVE  ViewAgrees' /\ EndedNamesItsCall'
<1> DEFINE id == g_call_ids!NextId
<1>1. /\ CallsTyped /\ g_call_ids!TypeOK /\ g_events \in Seq(Events)
      /\ phase \in {"poll", "read"}
  BY DEF TypeOK, CallsTyped, Calls
<1>2. CASE /\ g_call_ids!Add(a)
           /\ NewCall(a, "ALIVE", id)
           /\ dispatch_event(Event("incoming_call", id, Newest + 1))
           /\ UNCHANGED <<client, unnamed>>
  <2>1. id \in g_call_ids!AllIds /\ Newest \in Nat
    BY <1>1, <1>2, AddTyped DEF CallsTyped, Newest
  <2>2. PICK k \in Nat : k = Newest + 1
    BY <2>1
  <2>3. PICK e \in Events : /\ e = Event("incoming_call", id, k)
                           /\ e.event = "incoming_call" /\ e.id = id /\ e.of = k
    BY <1>1, <2>1, EventTyped
  <2>4. PICK v : v = View(Len(g_events))
    OBVIOUS
  <2>5. PICK w : w = Learns(v, e)
    OBVIOUS
  <2>6. w = Views(client', g_events')[Len(g_events')]
    BY <1>1, <1>2, <2>2, <2>3, <2>4, <2>5, DispatchViews
  <2>7. w = [i \in DOMAIN v \cup {id} |-> IF i = id THEN Newest + 1 ELSE v[i]]
    BY <2>2, <2>3, <2>5 DEF Learns
  <2>8. Agrees(v, id_map, calls, unnamed)
    BY <2>4, AgreesIsViewAgrees
  <2>9. /\ DOMAIN w \ {id} = DOMAIN v \ {id} /\ \A i \in DOMAIN w \ {id} : w[i] = v[i]
        /\ id \in DOMAIN w /\ w[id] = Newest + 1
    BY <2>7
  <2>10. Agrees(w, id_map', calls', unnamed')
    BY <1>1, <1>2, <2>1, <2>8, <2>9, AddedAgrees DEF MaybeId
  <2>11. EndedKnown(View(Len(g_events)), e, unnamed)
    BY <2>3 DEF EndedKnown
  <2>12. EndedNamesItsCall'
    BY <1>1, <1>2, <2>2, <2>3, <2>11, DispatchEnded
  <2> QED BY <2>6, <2>10, <2>12, AgreesLater
<1>3. CASE NewCall(a, "ALIVE", None) /\ UNCHANGED <<id_map, g_events, client, unnamed>>
  BY <1>1, <1>3, UnnamedAgrees DEF Sessions
<1> QED BY <1>2, <1>3 DEF RxInvite

\* The view w differs from v by the call k, which w has under the id i where v has none,
\* or another; gone says that a call_ended of i has been read.
Overtaken(v, w, i, k, gone) ==
  /\ DOMAIN w \ {i} = DOMAIN v \ {i}
  /\ \A j \in DOMAIN w \ {i} : w[j] = v[j]
  /\ i \in DOMAIN v => i \in DOMAIN w /\ w[i] \in {v[i], k}
  /\ gone => (i \in DOMAIN w => i \in DOMAIN v)
  /\ ~gone => i \in DOMAIN w /\ (w[i] = k \/ i \in DOMAIN v)

LEMMA OvertakenStep ==
  ASSUME NEW v, NEW w, NEW i, NEW k, NEW gone \in BOOLEAN, Overtaken(v, w, i, k, gone), NEW e
  PROVE  Overtaken(Learns(v, e), Learns(w, e), i, k, gone \/ (e.event = "call_ended" /\ e.id = i))
<1>1. PICK x, y : x = Learns(v, e) /\ y = Learns(w, e)
  OBVIOUS
<1>2. CASE e.event = "incoming_call"
  <2>1. /\ DOMAIN x = DOMAIN v \cup {e.id}
        /\ \A j \in DOMAIN x : x[j] = IF j = e.id THEN e.of ELSE v[j]
    BY <1>1, <1>2 DEF Learns
  <2>2. /\ DOMAIN y = DOMAIN w \cup {e.id}
        /\ \A j \in DOMAIN y : y[j] = IF j = e.id THEN e.of ELSE w[j]
    BY <1>1, <1>2 DEF Learns
  <2>3. Overtaken(x, y, i, k, gone)
    BY <2>1, <2>2 DEF Overtaken
  <2> QED BY <1>1, <1>2, <2>3
<1>3. CASE e.event = "call_ended"
  <2>1. DOMAIN x = DOMAIN v \ {e.id} /\ \A j \in DOMAIN x : x[j] = v[j]
    BY <1>1, <1>3 DEF Learns, Restrict
  <2>2. DOMAIN y = DOMAIN w \ {e.id} /\ \A j \in DOMAIN y : y[j] = w[j]
    BY <1>1, <1>3 DEF Learns, Restrict
  <2>3. Overtaken(x, y, i, k, gone \/ e.id = i)
    BY <2>1, <2>2 DEF Overtaken
  <2> QED BY <1>1, <1>3, <2>3
<1>4. CASE e.event \notin {"incoming_call", "call_ended"}
  BY <1>4 DEF Learns
<1> QED BY <1>2, <1>3, <1>4

\* The call_ended of the id i is among the first n events.
EndedBy(i, events, n) == \E m \in 1 .. n : events[m].event = "call_ended" /\ events[m].id = i

LEMMA ViewsOvertaken ==
  ASSUME NEW v, NEW w, NEW i, NEW k, Overtaken(v, w, i, k, FALSE), NEW events
  PROVE  \A n \in Nat :
            Overtaken(Views(v, events)[n], Views(w, events)[n], i, k, EndedBy(i, events, n))
<1> DEFINE T == {n \in Nat : Overtaken(Views(v, events)[n], Views(w, events)[n], i, k,
                                       EndedBy(i, events, n))}
<1>1. 0 \in T
  <2>1. EndedBy(i, events, 0) = FALSE
    BY DEF EndedBy
  <2> QED BY <2>1, ViewsEquation
<1>2. ASSUME NEW n \in Nat, n \in T PROVE n + 1 \in T
  <2>1. PICK e : e = events[n + 1]
    OBVIOUS
  <2>2. EndedBy(i, events, n + 1)
           = (EndedBy(i, events, n) \/ (e.event = "call_ended" /\ e.id = i))
    <3>1. 1 .. n + 1 = (1 .. n) \cup {n + 1}
      OBVIOUS
    <3> QED BY <2>1, <3>1 DEF EndedBy
  <2>3. EndedBy(i, events, n) \in BOOLEAN
    BY DEF EndedBy
  <2>4. Overtaken(Learns(Views(v, events)[n], e), Learns(Views(w, events)[n], e), i, k,
                  EndedBy(i, events, n) \/ (e.event = "call_ended" /\ e.id = i))
    BY <1>2, <2>3, OvertakenStep
  <2>5. /\ Views(v, events)[n + 1] = Learns(Views(v, events)[n], e)
        /\ Views(w, events)[n + 1] = Learns(Views(w, events)[n], e)
    BY <2>1, ViewsEquation
  <2> QED BY <2>2, <2>4, <2>5
<1> HIDE DEF T
<1>3. \A n \in Nat : n \in T
  BY <1>1, <1>2, NatSetInduction
<1> QED BY <1>3 DEF T

\* The id of a new call is not one of those the client will still hold.
LEMMA NewIdUnknown ==
  ASSUME g_call_ids!TypeOK, IdsApart, NEW v, Agrees(v, id_map, calls, unnamed),
         NEW a, g_call_ids!Add(a)
  PROVE  g_call_ids!NextId \in g_call_ids!AllIds /\ g_call_ids!NextId \notin DOMAIN v
<1>1. g_call_ids!NextId \in g_call_ids!AllIds /\ g_call_ids!NextId \notin g_call_ids!InUse
  BY ApartTail DEF g_call_ids!TypeOK, g_call_ids!Add, g_call_ids!CanAdd, g_call_ids!NextId,
                   IdsApart
<1> QED BY <1>1 DEF Agrees, g_call_ids!InUse

\* The result of call_create() comes before the events that wait.
LEMMA CallCreateAgrees ==
  ASSUME TypeOK, IdsDenoteLiveCalls, IdsApart, ReadDrained, ViewAgrees, EndedNamesItsCall,
         NEW a \in Addrs, CallCreate(a)
  PROVE  ViewAgrees' /\ EndedNamesItsCall'
<1>1. PICK id, k, v, last : id = g_call_ids!NextId /\ k = Newest + 1 /\ v = View(Len(g_events))
                           /\ last = Len(g_events)
  OBVIOUS
<1>2. /\ CallsTyped /\ g_call_ids!TypeOK /\ g_events \in Seq(Events) /\ g_events' = g_events
      /\ g_call_ids!Add(a) /\ NewCall(a, "ALIVE", id)
      /\ client' = [i \in DOMAIN client \cup {id} |-> IF i = id THEN k ELSE client[i]]
      /\ unnamed' = IF Overtakes(id) THEN unnamed \cup {k} ELSE unnamed
  BY <1>1 DEF TypeOK, CallsTyped, Calls, CallCreate
<1>3. last \in Nat /\ DOMAIN g_events = 1 .. last
  BY <1>1, <1>2, LenProperties
<1>4. Overtakes(id) <=> EndedBy(id, g_events, last)
  BY <1>3 DEF Overtakes, EndedBy, ReadDrained, CallCreate
<1>5. Overtaken(client, client', id, k, FALSE)
  BY <1>2 DEF Overtaken
<1>6. \A n \in Nat : Overtaken(View(n), Views(client', g_events)[n], id, k,
                               EndedBy(id, g_events, n))
  BY <1>5, ViewsOvertaken DEF View
<1>7. Agrees(v, id_map, calls, unnamed)
  BY <1>1, AgreesIsViewAgrees
<1>8. id \in g_call_ids!AllIds /\ id \notin DOMAIN v
  BY <1>1, <1>2, <1>7, NewIdUnknown
<1>9. PICK w : w = Views(client', g_events)[last]
  OBVIOUS
<1>10. Overtaken(v, w, id, k, EndedBy(id, g_events, last))
  BY <1>1, <1>3, <1>6, <1>9
<1>11. /\ DOMAIN w \ {id} = DOMAIN v \ {id} /\ \A i \in DOMAIN w \ {id} : w[i] = v[i]
       /\ (id \in DOMAIN w /\ w[id] = k) \/ (id \notin DOMAIN w /\ k \in unnamed')
       /\ unnamed \subseteq unnamed'
  BY <1>2, <1>4, <1>8, <1>10 DEF Overtaken
<1>12. Agrees(w, id_map', calls', unnamed')
  BY <1>1, <1>2, <1>7, <1>8, <1>11, AddedAgrees DEF MaybeId
<1>13. ViewAgrees'
  BY <1>1, <1>2, <1>9, <1>12, AgreesLater
<1>14. ASSUME NEW n \in DOMAIN g_events
       PROVE  EndedKnown(Views(client', g_events)[n - 1], g_events[n], unnamed')
  <2>1. n \in 1 .. last /\ n - 1 \in Nat
    BY <1>3
  <2>2. PICK x, y, e : x = View(n - 1) /\ y = Views(client', g_events)[n - 1] /\ e = g_events[n]
    OBVIOUS
  <2>3. EndedKnown(x, e, unnamed)
    BY <2>2, EndedKnownIsEndedNames
  <2>4. /\ DOMAIN y \ {id} = DOMAIN x \ {id} /\ \A j \in DOMAIN y \ {id} : y[j] = x[j]
        /\ id \in DOMAIN x => id \in DOMAIN y /\ y[id] \in {x[id], k}
    BY <1>6, <2>1, <2>2 DEF Overtaken
  <2>5. e.event = "call_ended" /\ e.id = id => k \in unnamed'
    BY <1>2, <1>4, <2>1, <2>2 DEF EndedBy
  <2>6. EndedKnown(y, e, unnamed')
    BY <1>11, <2>3, <2>4, <2>5 DEF EndedKnown
  <2> QED BY <2>2, <2>6
<1>15. EndedNamesItsCall'
  BY <1>2, <1>14, EndedLater
<1> QED BY <1>13, <1>15

\* The client is not told the id of the new call.
LEMMA CreateUnreportedAgrees ==
  ASSUME TypeOK, IdsDenoteLiveCalls, IdsApart, ViewAgrees, EndedNamesItsCall,
         NEW a \in Addrs, CreateUnreported(a)
  PROVE  ViewAgrees' /\ EndedNamesItsCall'
<1>1. PICK id, k, v : id = g_call_ids!NextId /\ k = Newest + 1 /\ v = View(Len(g_events))
  OBVIOUS
<1>2. /\ CallsTyped /\ g_call_ids!TypeOK /\ g_call_ids!Add(a) /\ NewCall(a, "ALIVE", id)
      /\ UNCHANGED <<client, g_events>> /\ unnamed' = unnamed \cup {k}
  BY <1>1 DEF TypeOK, CallsTyped, Calls, CreateUnreported
<1>3. Agrees(v, id_map, calls, unnamed)
  BY <1>1, AgreesIsViewAgrees
<1>4. id \in g_call_ids!AllIds /\ id \notin DOMAIN v
  BY <1>1, <1>2, <1>3, NewIdUnknown
<1>5. PICK w : w = v
  OBVIOUS
<1>6. Agrees(w, id_map', calls', unnamed')
  BY <1>1, <1>2, <1>3, <1>4, <1>5, AddedAgrees DEF MaybeId
<1>7. w = Views(client', g_events')[Len(g_events')]
  BY <1>1, <1>2, <1>5 DEF View
<1>8. ViewAgrees'
  BY <1>6, <1>7, AgreesLater
<1>9. \A n \in DOMAIN g_events : EndedKnown(View(n - 1), g_events[n], unnamed')
  BY <1>2, EndedKnownIsEndedNames DEF EndedKnown
<1>10. EndedNamesItsCall'
  BY <1>2, <1>9, EndedLater DEF View
<1> QED BY <1>8, <1>10

LEMMA DisconnectAgrees ==
  ASSUME TypeOK, IdsDenoteLiveCalls, OneHolds, ViewAgrees, EndedNamesItsCall,
         NEW k \in DOMAIN calls, Disconnect(k)
  PROVE  ViewAgrees' /\ EndedNamesItsCall'
<1> DEFINE a == calls[k].addr
<1>1. /\ CallsTyped /\ g_call_ids!TypeOK /\ g_events \in Seq(Events)
      /\ phase \in {"poll", "read"}
  BY DEF TypeOK, CallsTyped, Calls
<1>2. /\ DOMAIN calls' = DOMAIN calls
      /\ \A j \in DOMAIN calls : /\ calls'[j].addr = calls[j].addr
                                 /\ j # k => calls'[j].session = calls[j].session
      /\ calls'[k].session = "DISCONNECTED"
  BY <1>1, SessionChanges DEF Disconnect, EndSession, Sessions
<1>3. \A j \in DOMAIN calls : calls[j].session = "ALIVE" /\ calls[j].addr = a => j = k
  BY DEF OneHolds, Holds, Disconnect
<1>4. PICK v : v = View(Len(g_events))
  OBVIOUS
<1>5. Agrees(v, id_map, calls, unnamed)
  BY <1>4, AgreesIsViewAgrees
<1>6. CASE /\ g_call_ids!RemoveByVal(a)
           /\ dispatch_event(Event("call_ended", g_call_ids!GetId(a), k))
           /\ UNCHANGED <<client, unnamed>>
  <2>1. PICK id \in g_call_ids!AllIds : id = g_call_ids!GetId(a)
    BY <1>1, <1>6, RemoveTyped
  <2>2. id \in DOMAIN id_map /\ id_map[id] = a
    BY <1>1, <1>6, <2>1, GetIdInUse DEF g_call_ids!RemoveByVal, g_call_ids!InUse
  <2>3. k \in Nat
    BY <1>1 DEF CallsTyped
  <2>4. PICK e \in Events : /\ e = Event("call_ended", id, k)
                           /\ e.event = "call_ended" /\ e.id = id /\ e.of = k
    BY <1>1, <2>1, <2>3, EventTyped
  <2>5. k \notin unnamed => id \in DOMAIN v /\ v[id] = k
    <3>1. calls[k].session = "ALIVE"
      BY DEF Disconnect
    <3>2. id \notin DOMAIN v => k \in unnamed
      BY <1>5, <2>2, <3>1 DEF Agrees
    <3>3. id \in DOMAIN v => v[id] = k
      BY <1>3, <1>5, <2>2 DEF Agrees
    <3> QED BY <3>2, <3>3
  <2>6. PICK w : w = Learns(v, e)
    OBVIOUS
  <2>7. w = Views(client', g_events')[Len(g_events')]
    BY <1>1, <1>4, <1>6, <2>1, <2>4, <2>6, DispatchViews
  <2>8. w = [i \in DOMAIN v \ {id} |-> v[i]]
    BY <2>4, <2>6 DEF Learns, Restrict
  <2>9. id_map' = [i \in DOMAIN id_map \ {id} |-> id_map[i]]
    BY <1>6, <2>1 DEF g_call_ids!RemoveByVal, g_call_ids!Remove, g_call_ids!InUse
  <2>10. \A i \in DOMAIN id_map : id_map[i] = a => i = id
    BY <2>2 DEF IdsDenoteLiveCalls, g_call_ids!InUse
  <2>11. Agrees(w, id_map', calls', unnamed)
    <3>1. DOMAIN w \subseteq DOMAIN id_map'
      BY <1>5, <2>8, <2>9 DEF Agrees
    <3>2. ASSUME NEW i \in DOMAIN w
          PROVE  /\ w[i] \in DOMAIN calls' /\ calls'[w[i]].session = "ALIVE"
                 /\ calls'[w[i]].addr = id_map'[i]
      BY <1>2, <1>5, <2>8, <2>9, <2>10 DEF Agrees
    <3>3. ASSUME NEW i \in DOMAIN id_map', i \notin DOMAIN w, NEW j \in DOMAIN calls',
                 calls'[j].session = "ALIVE", calls'[j].addr = id_map'[i]
          PROVE  j \in unnamed
      <4>1. i \in DOMAIN id_map /\ i \notin DOMAIN v /\ id_map'[i] = id_map[i]
        BY <2>8, <2>9, <3>3
      <4>2. j # k /\ calls[j].session = "ALIVE" /\ calls[j].addr = id_map[i]
        BY <1>2, <3>3, <4>1
      <4> QED BY <1>2, <1>5, <4>1, <4>2 DEF Agrees
    <3> QED BY <3>1, <3>2, <3>3 DEF Agrees
  <2>12. ViewAgrees'
    BY <1>6, <2>7, <2>11, AgreesLater
  <2>13. EndedKnown(View(Len(g_events)), e, unnamed)
    BY <1>4, <2>4, <2>5 DEF EndedKnown
  <2>14. EndedNamesItsCall'
    BY <1>1, <1>6, <2>1, <2>4, <2>13, DispatchEnded
  <2> QED BY <2>12, <2>14
<1>7. CASE g_call_ids!IdsOf(a) = {} /\ UNCHANGED <<id_map, g_events, client, unnamed>>
  <2>1. \A i \in DOMAIN id_map : id_map[i] # a
    BY <1>7 DEF g_call_ids!IdsOf, g_call_ids!InUse
  <2>2. \A j \in DOMAIN calls : calls'[j].session = "ALIVE" => calls[j].session = "ALIVE"
    BY <1>2
  <2>4. Agrees(v, id_map', calls', unnamed')
    BY <1>2, <1>5, <1>7, <2>1, <2>2 DEF Agrees
  <2>3. v = Views(client', g_events')[Len(g_events')]
    BY <1>4, <1>7 DEF View
  <2>5. ViewAgrees'
    BY <2>3, <2>4, AgreesLater
  <2> QED BY <1>7, <2>5 DEF EndedNamesItsCall, View
<1> QED BY <1>6, <1>7 DEF Disconnect

LEMMA RxResponseAgrees ==
  ASSUME TypeOK, ViewAgrees, EndedNamesItsCall, NEW k \in DOMAIN calls, RxResponse(k)
  PROVE  ViewAgrees' /\ EndedNamesItsCall'
<1>1. /\ CallsTyped /\ g_events \in Seq(Events) /\ phase \in {"poll", "read"}
      /\ UNCHANGED <<id_map, calls, client, unnamed>>
  BY DEF TypeOK, CallsTyped, Calls, RxResponse
<1>2. PICK id \in g_call_ids!AllIds : dispatch_event(Event("response", id, k))
  BY ResponseIdTyped DEF RxResponse
<1>3. k \in Nat
  BY <1>1 DEF CallsTyped
<1>4. PICK e \in Events : e = Event("response", id, k) /\ e.event = "response"
  BY <1>1, <1>3, EventTyped
<1>5. PICK v : v = View(Len(g_events))
  OBVIOUS
<1>6. v = Views(client', g_events')[Len(g_events')]
  <2>1. Learns(v, e) = v
    BY <1>4 DEF Learns
  <2> QED BY <1>1, <1>2, <1>4, <1>5, <2>1, DispatchViews
<1>7. ViewAgrees'
  BY <1>1, <1>5, <1>6, AgreesIsViewAgrees, AgreesLater
<1>8. EndedKnown(View(Len(g_events)), e, unnamed)
  BY <1>4 DEF EndedKnown
<1>9. EndedNamesItsCall'
  BY <1>1, <1>2, <1>4, <1>8, DispatchEnded
<1> QED BY <1>7, <1>9

LEMMA PollAgrees ==
  ASSUME TypeOK, ViewAgrees, EndedNamesItsCall, Poll
  PROVE  ViewAgrees' /\ EndedNamesItsCall'
<1>1. /\ g_events \in Seq(Events) /\ g_events # <<>>
      /\ g_events' = Tail(g_events) /\ client' = Learns(client, Head(g_events))
      /\ UNCHANGED <<id_map, calls, unnamed>>
  BY DEF TypeOK, Poll
<1>2. /\ Len(g_events) \in Nat \ {0} /\ Len(g_events') = Len(g_events) - 1
      /\ g_events' \in Seq(Events)
      /\ \A n \in 1 .. Len(g_events) - 1 : g_events'[n] = g_events[n + 1]
  BY <1>1, HeadTailProperties
<1>3. DOMAIN g_events = 1 .. Len(g_events) /\ DOMAIN g_events' = 1 .. Len(g_events) - 1
  BY <1>2, LenProperties
<1>4. \A n \in 0 .. Len(g_events) - 1 :
         Views(client', g_events')[n] = Views(client, g_events)[n + 1]
  BY <1>1, ViewsOfTail
<1>5. PICK v : v = View(Len(g_events))
  OBVIOUS
<1>6. v = Views(client', g_events')[Len(g_events')]
  BY <1>2, <1>4, <1>5 DEF View
<1>7. ViewAgrees'
  BY <1>1, <1>5, <1>6, AgreesIsViewAgrees, AgreesLater
<1>8. ASSUME NEW n \in DOMAIN g_events'
      PROVE  EndedKnown(Views(client', g_events')[n - 1], g_events'[n], unnamed')
  <2>1. /\ n \in Nat /\ n + 1 \in DOMAIN g_events /\ g_events'[n] = g_events[n + 1]
        /\ n - 1 \in 0 .. Len(g_events) - 1
    BY <1>2, <1>3
  <2>2. Views(client', g_events')[n - 1] = Views(client, g_events)[(n - 1) + 1]
    BY <1>4, <2>1
  <2>3. (n - 1) + 1 = n /\ (n + 1) - 1 = n
    BY <2>1
  <2>4. EndedKnown(View((n + 1) - 1), g_events[n + 1], unnamed)
    BY <2>1, EndedKnownIsEndedNames
  <2> QED BY <1>1, <2>1, <2>2, <2>3, <2>4 DEF View
<1> QED BY <1>7, <1>8, EndedLater

ClientInv == /\ OneHolds /\ IdsApart /\ NamedLive /\ ReadDrained
             /\ ViewAgrees /\ EndedNamesItsCall

LEMMA NextClientInv ==
  ASSUME "transport" \notin FailingSteps, TypeOK, IInv, ClientInv, [Next]_vars
  PROVE  ClientInv'
<1>1. CallsTyped /\ g_call_ids!TypeOK
  BY DEF TypeOK, IInv
<1>2. g_call_ids!CanAdd => g_call_ids!NextId \in MaybeId
  BY <1>1, HeadTailProperties
     DEF g_call_ids!TypeOK, g_call_ids!CanAdd, g_call_ids!NextId, MaybeId
<1>3. OneHolds' /\ IdsApart' /\ NamedLive' /\ ReadDrained'
  BY <1>1, <1>2, OneHoldsNext, IdsApartNext, NamedLiveNext, ReadDrainedNext DEF ClientInv
<1>4. ViewAgrees' /\ EndedNamesItsCall'
  <2> USE DEF ClientInv
  <2>1. CASE \E a \in Addrs : RxInvite(a) \/ CallCreate(a) \/ CreateUnreported(a)
    BY <2>1, RxInviteAgrees, CallCreateAgrees, CreateUnreportedAgrees DEF IInv
  <2>2. CASE \E a \in Addrs, step \in FailingSteps : CreateFails(a, step)
    <3>1. PICK a \in Addrs : /\ NewCall(a, "LEFT", None)
                             /\ UNCHANGED <<id_map, g_events, client, unnamed>>
      BY <2>2, CallTableAssumption DEF CreateFails
    <3> QED BY <1>1, <3>1, UnnamedAgrees DEF IInv, Sessions
  <2>3. CASE \E k \in DOMAIN calls : Disconnect(k)
    BY <2>3, DisconnectAgrees DEF IInv
  <2>4. CASE \E k \in DOMAIN calls : FreeDialog(k)
    <3>1. PICK k \in DOMAIN calls : FreeDialog(k)
      BY <2>4
    <3>2. /\ DOMAIN calls' = DOMAIN calls
          /\ \A j \in DOMAIN calls : j # k => calls'[j] = calls[j]
          /\ calls[k].session = "DISCONNECTED" /\ calls'[k].session # "ALIVE"
      BY <1>1, <3>1, SessionChanges DEF FreeDialog, Sessions
    <3> QED BY <3>1, <3>2, SameLiveAgrees DEF FreeDialog
  <2>5. CASE \E k \in DOMAIN calls : RxResponse(k)
    BY <2>5, RxResponseAgrees
  <2>6. CASE Poll
    BY <2>6, PollAgrees
  <2>7. CASE UNCHANGED <<id_map, calls, g_events, client, unnamed>>
    BY <2>7, SameLiveAgrees
  <2> QED
    BY <2>1, <2>2, <2>3, <2>4, <2>5, <2>6, <2>7
       DEF Next, vars, CreateFailsWithId, StartRead, EndRead
<1> QED BY <1>3, <1>4 DEF ClientInv

LEMMA InitClientInv == Init => ClientInv
<1> SUFFICES ASSUME Init PROVE ClientInv
  OBVIOUS
<1>1. /\ ids = [n \in 1 .. IdsMax |-> n - 1] /\ g_call_ids!InUse = {}
      /\ id_map = [i \in {} |-> Addrs]
      /\ calls = <<>> /\ g_events = <<>> /\ client = [i \in {} |-> 0] /\ phase = "poll"
  BY DEF Init, g_call_ids!Init, g_call_ids!InUse
<1>2. OneHolds /\ NamedLive /\ ReadDrained /\ EndedNamesItsCall
  BY <1>1 DEF OneHolds, NamedLive, ReadDrained, EndedNamesItsCall
<1>3. IdsApart
  BY <1>1, CallTableAssumption DEF IdsApart, Apart
<1>4. ViewAgrees
  <2>1. View(Len(g_events)) = client
    BY <1>1, ViewsEquation DEF View
  <2> QED BY <1>1, <2>1 DEF ViewAgrees
<1> QED BY <1>2, <1>3, <1>4 DEF ClientInv

\* on_rx_response(), for a call that is alive.
LEMMA ResponseOfLive ==
  ASSUME TypeOK, IInv, ClientInv, NEW k \in DOMAIN calls, RxResponse(k),
         calls[k].session = "ALIVE"
  PROVE  Last(g_events').id = calls[k].id
<1> DEFINE a == calls[k].addr
<1>1. calls[k].id \in g_call_ids!IdsOf(a)
  BY DEF ClientInv, NamedLive, RxResponse, g_call_ids!IdsOf
<1>2. ResponseId(a) = calls[k].id
  <2>1. ResponseId(a) = g_call_ids!GetId(a)
    BY <1>1 DEF ResponseId
  <2>2. g_call_ids!GetId(a) \in g_call_ids!InUse /\ id_map[g_call_ids!GetId(a)] = a
    BY <1>1, GetIdInUse DEF TypeOK
  <2> QED BY <1>1, <2>1, <2>2 DEF IInv, IdsDenoteLiveCalls, g_call_ids!IdsOf
<1>3. g_events' = Append(g_events, Event("response", calls[k].id, k))
  BY <1>2 DEF RxResponse, dispatch_event
<1>4. g_events \in Seq(Events)
  BY DEF TypeOK
<1>5. PICK e \in Events : e = Event("response", calls[k].id, k)
  <2>1. calls[k].id \in g_call_ids!AllIds /\ k \in Nat /\ phase \in {"poll", "read"}
    BY <1>1 DEF TypeOK, g_call_ids!TypeOK, g_call_ids!IdsOf
  <2> QED BY <2>1 DEF Event, Events
<1>6. Len(g_events') = Len(g_events) + 1 /\ g_events'[Len(g_events) + 1] = e
  BY <1>3, <1>4, <1>5, AppendProperties
<1> QED BY <1>5, <1>6 DEF Last, Event

-----------------------------------------------------------------------------
(***************************************************************************)
(* The call table, the ended calls, the waiting events and the client's    *)
(* calls keep their types, whatever step of call_create fails.             *)
(***************************************************************************)
THEOREM TypeCorrect == Spec => []TypeOK
BY InitTyped, NextTyped, PTL DEF Spec

(***************************************************************************)
(* As long as dlg_set_transport_by_t() does not fail in call_create, every *)
(* id in use is the name of the one live call at its address: a lookup by  *)
(* address (on_state_changed, on_rx_response) finds the right id.          *)
(***************************************************************************)
THEOREM IdsCorrect == "transport" \notin FailingSteps => (Spec => []IdsDenoteLiveCalls)
<1> SUFFICES ASSUME "transport" \notin FailingSteps PROVE Spec => []IdsDenoteLiveCalls
  OBVIOUS
<1>1. TypeOK => g_call_ids!TypeOK
  BY DEF TypeOK
<1>2. TypeOK /\ IInv /\ [Next]_vars => IInv'
  BY <1>1, NextIInv
<1>3. IInv => IdsDenoteLiveCalls
  BY DEF IInv
<1> QED BY <1>2, <1>3, InitIInv, TypeCorrect, PTL DEF Spec

LEMMA ClientInvariance ==
  "transport" \notin FailingSteps => (Spec => [](TypeOK /\ IInv /\ ClientInv))
<1> SUFFICES ASSUME "transport" \notin FailingSteps
             PROVE  Spec => [](TypeOK /\ IInv /\ ClientInv)
  OBVIOUS
<1>1. Init => TypeOK /\ IInv /\ ClientInv
  BY InitTyped, InitIInv, InitClientInv
<1>2. TypeOK /\ IInv /\ ClientInv /\ [Next]_vars => (TypeOK /\ IInv /\ ClientInv)'
  <2>1. TypeOK => g_call_ids!TypeOK
    BY DEF TypeOK
  <2> QED BY <2>1, NextTyped, NextIInv, NextClientInv
<1> QED BY <1>1, <1>2, PTL DEF Spec

(***************************************************************************)
(* As long as dlg_set_transport_by_t() does not fail in call_create: once  *)
(* it has read the waiting events the client holds ids in use only, each   *)
(* by the live call it stands for, and every id in use but those of the    *)
(* calls that are unnamed (serve_client, call_create).                     *)
(***************************************************************************)
THEOREM ViewCorrect == "transport" \notin FailingSteps => (Spec => []ViewAgrees)
BY ClientInvariance, PTL DEF ClientInv

(***************************************************************************)
(* Under the same condition, a call_ended that waits names a call that the *)
(* client knows by the time it reads it, and the one that ended, unless    *)
(* the call that ended is unnamed or an unnamed one took its place.        *)
(***************************************************************************)
THEOREM EndedCorrect == "transport" \notin FailingSteps => (Spec => []EndedNamesItsCall)
BY ClientInvariance, PTL DEF ClientInv

(***************************************************************************)
(* Under the same condition, on_rx_response() reports a response of a call *)
(* that is alive under the id of that call, though it looks for the id by  *)
(* an address that calls before it had, and in g_LastCalls.                *)
(***************************************************************************)
THEOREM ResponsesCorrect == "transport" \notin FailingSteps => (Spec => LiveResponsesNameTheirCall)
<1> SUFFICES ASSUME "transport" \notin FailingSteps PROVE Spec => LiveResponsesNameTheirCall
  OBVIOUS
<1>1. TypeOK /\ IInv /\ ClientInv =>
        [\A k \in DOMAIN calls : RxResponse(k) /\ calls[k].session = "ALIVE"
                                    => Last(g_events').id = calls[k].id]_vars
  BY ResponseOfLive
<1> QED BY <1>1, ClientInvariance, PTL DEF LiveResponsesNameTheirCall
=============================================================================
