-------------------------- MODULE OutOfDialogProofs --------------------------
(***************************************************************************)
(* For any number of requests, accounts and transports and any size of the *)
(* tables: answers, responses and statuses name their request or account,  *)
(* and what is read after it is gone is what ReadsWhatIsThere names.       *)
(***************************************************************************)
EXTENDS OutOfDialog, SequenceTheorems, WellFoundedInduction, TLAPS

Structures == [is_uac : BOOLEAN, pending : {"raw", "clone", "none"}, id : 0 .. IdsMax, of : Nat]

-----------------------------------------------------------------------------
(* Requests. *)

\* What is in memory is about one request, which has no answer yet if it waits for one, and
\* which the client was told of if it was kept.
Cell(a) == memory[a] # None =>
             LET m == memory[a]
                 r == requests[m.of]
             IN  /\ m \in Structures
                 /\ m.of \in DOMAIN requests
                 /\ m.pending # "none" /\ r.id # None => r.finals = 0
                 /\ m.pending = "raw" => r.id = None
                 /\ a[1] = Heap => m.id < IdsMax /\ (m.id = r.id \/ r.full)

RequestType == [way : {"in", "out"}, id : MaybeIds, finals : Nat, by : SUBSET Nat,
                reported : MaybeIds, full : BOOLEAN]

\* The properties, for one request.
Entry(n) == LET r == requests[n]
            IN  /\ r \in RequestType
                /\ r.by \subseteq RequestIds
                /\ r.id \in RequestIds \cup {None}
                /\ \A id \in r.by \ stale : r.id = id
                /\ r.finals <= 1 \/ r.by \cap stale # {}
                /\ r.reported # None => r.reported = r.id \/ r.full

\* An id whose memory was not taken leads to its own request, if the client knows it.
Leads(id) == id \notin stale =>
               /\ Request(id) # None
               /\ \/ requests[Request(id).of].id = id
                  \/ \A n \in DOMAIN requests : requests[n].id # id

UasInv == /\ g_request_ids \in Seq(Addrs)
          /\ Len(g_request_ids) <= IdsMax
          /\ memory \in [Addrs -> Structures \cup {None}]
          /\ requests \in Seq(RequestType)
          /\ stale \subseteq RequestIds
          /\ \A a \in Addrs : Cell(a)
          /\ \A a, b \in Addrs : memory[a] # None /\ memory[b] # None /\ memory[a].of = memory[b].of
                                   => a = b
          /\ \A n \in DOMAIN requests : Entry(n)
          /\ \A id \in RequestIds : Leads(id)

LEMMA NoneIsNothing == None \notin Nat /\ None \notin Structures
<1>1. IdsMax \in Nat
  BY BoundsAssumption
<1>2. Structures \subseteq [is_uac : BOOLEAN, pending : {"raw", "clone", "none"}, id : Nat, of : Nat]
  BY <1>1 DEF Structures
<1> QED BY <1>2, NoneAssumption

LEMMA UasFacts ==
  ASSUME UasInv
  PROVE  /\ IdsMax \in Nat \ {0}
         /\ Len(g_request_ids) \in Nat
         /\ DOMAIN g_request_ids = 1 .. Len(g_request_ids)
         /\ \A id \in RequestIds : id \in Nat /\ g_request_ids[id + 1] \in Addrs
         /\ Len(requests) \in Nat
         /\ DOMAIN requests = 1 .. Len(requests)
         /\ \A n \in DOMAIN requests : requests[n] \in RequestType
<1>1. IdsMax \in Nat \ {0}
  BY BoundsAssumption
<1>2. /\ Len(g_request_ids) \in Nat
      /\ DOMAIN g_request_ids = 1 .. Len(g_request_ids)
      /\ Len(requests) \in Nat
      /\ DOMAIN requests = 1 .. Len(requests)
  BY LenProperties DEF UasInv
<1>3. ASSUME NEW id \in RequestIds PROVE id \in Nat /\ g_request_ids[id + 1] \in Addrs
  <2>1. id \in Nat /\ id + 1 \in 1 .. Len(g_request_ids)
    BY <1>2 DEF RequestIds
  <2> QED BY <2>1, ElementOfSeq DEF UasInv
<1>4. \A n \in DOMAIN requests : requests[n] \in RequestType
  BY DEF UasInv, Entry
<1> QED BY <1>1, <1>2, <1>3, <1>4

(***************************************************************************)
(* Memory is taken away, and the ids that lead there are stale from then   *)
(* on.                                                                     *)
(***************************************************************************)
LEMMA MemoryTaken ==
  ASSUME UasInv, UNCHANGED <<g_request_ids, requests>>,
         memory' \in [Addrs -> Structures \cup {None}],
         \A a \in Addrs : memory'[a] \in {memory[a], None},
         stale \subseteq stale', stale' \subseteq RequestIds,
         \A id \in RequestIds \ stale' : memory'[g_request_ids[id + 1]] = memory[g_request_ids[id + 1]]
  PROVE  UasInv'
<1>1. RequestIds' = RequestIds
  BY DEF RequestIds
<1>2. \A a \in Addrs : Cell(a)'
  BY DEF UasInv, Cell
<1>3. \A n \in DOMAIN requests : Entry(n)'
  <2> SUFFICES ASSUME NEW n \in DOMAIN requests PROVE Entry(n)'
    OBVIOUS
  <2>1. Entry(n)
    BY DEF UasInv
  <2> QED BY <1>1, <2>1 DEF Entry
<1>4. \A id \in RequestIds' : Leads(id)'
  <2> SUFFICES ASSUME NEW id \in RequestIds PROVE Leads(id)'
    BY <1>1
  <2>1. Leads(id)
    BY DEF UasInv
  <2> QED BY <2>1 DEF Leads, Request
<1>5. \A a, b \in Addrs : memory'[a] # None /\ memory'[b] # None /\ memory'[a].of = memory'[b].of
                            => a = b
  BY DEF UasInv
<1> QED BY <1>1, <1>2, <1>3, <1>4, <1>5 DEF UasInv

(***************************************************************************)
(* A request more, at a place whose ids are stale, with an id or without.  *)
(***************************************************************************)
LEMMA RequestAdded ==
  ASSUME UasInv, NEW a \in Addrs, NEW m \in Structures, NEW r \in RequestType,
         memory' \in [Addrs -> Structures \cup {None}],
         memory'[a] = m, m.of = Len(requests) + 1,
         \A b \in Addrs \ {a} : memory'[b] \in {memory[b], None},
         requests' = Append(requests, r),
         r.by = {}, r.reported = None, r.finals <= 1,
         m.pending # "none" /\ r.id # None => r.finals = 0,
         m.pending = "raw" => r.id = None,
         a[1] = Heap => m.id < IdsMax /\ (m.id = r.id \/ r.full),
         \/ g_request_ids' = g_request_ids /\ r.id = None
         \/ /\ g_request_ids' = Append(g_request_ids, a) /\ Len(g_request_ids) < IdsMax
            /\ r.id \in {None, Len(g_request_ids)},
         stale \subseteq stale', stale' \subseteq RequestIds,
         \A id \in RequestIds \ stale' :
            /\ g_request_ids[id + 1] # a
            /\ memory'[g_request_ids[id + 1]] = memory[g_request_ids[id + 1]]
  PROVE  UasInv'
<1> DEFINE n == Len(requests)
           k == Len(g_request_ids)
<1>1. /\ IdsMax \in Nat \ {0} /\ k \in Nat /\ n \in Nat
      /\ DOMAIN requests = 1 .. n
      /\ RequestIds = 0 .. k - 1
      /\ k <= IdsMax
      /\ g_request_ids \in Seq(Addrs)
      /\ requests \in Seq(RequestType)
  BY UasFacts DEF RequestIds, UasInv
<1>2. /\ requests' \in Seq(RequestType)
      /\ DOMAIN requests' = 1 .. n + 1
      /\ \A i \in 1 .. n : requests'[i] = requests[i]
      /\ requests'[n + 1] = r
  BY <1>1, AppendProperties, LenProperties
<1>3. \/ g_request_ids' = g_request_ids /\ r.id = None /\ RequestIds' = 0 .. k - 1
      \/ /\ RequestIds' = 0 .. k /\ k < IdsMax /\ r.id \in {None, k}
         /\ g_request_ids'[k + 1] = a
         /\ Len(g_request_ids') = k + 1
         /\ g_request_ids' \in Seq(Addrs)
         /\ \A id \in 0 .. k - 1 : g_request_ids'[id + 1] = g_request_ids[id + 1]
  <2>1. CASE g_request_ids' = g_request_ids /\ r.id = None
    BY <1>1, <2>1 DEF RequestIds
  <2>2. CASE /\ g_request_ids' = Append(g_request_ids, a) /\ k < IdsMax
             /\ r.id \in {None, k}
    <3>1. /\ g_request_ids' \in Seq(Addrs)
          /\ Len(g_request_ids') = k + 1
          /\ \A i \in 1 .. k : g_request_ids'[i] = g_request_ids[i]
          /\ g_request_ids'[k + 1] = a
      BY <1>1, <2>2, AppendProperties
    <3>2. RequestIds' = 0 .. k
      BY <1>1, <3>1 DEF RequestIds
    <3>3. \A id \in 0 .. k - 1 : id + 1 \in 1 .. k
      BY <1>1
    <3> QED BY <2>2, <3>1, <3>2, <3>3
  <2> QED BY <2>1, <2>2
<1>4. /\ RequestIds \subseteq RequestIds'
      /\ g_request_ids' \in Seq(Addrs) /\ Len(g_request_ids') <= IdsMax
      /\ r.id \in RequestIds' \cup {None}
      /\ \A id \in RequestIds : g_request_ids'[id + 1] = g_request_ids[id + 1]
      /\ \A id \in RequestIds' \ RequestIds : id = k /\ g_request_ids'[id + 1] = a
  BY <1>1, <1>3
<1>5. \A b \in Addrs : Cell(b)'
  <2> SUFFICES ASSUME NEW b \in Addrs PROVE Cell(b)'
    OBVIOUS
  <2>1. CASE b = a
    BY <1>2, <1>1, <2>1 DEF Cell
  <2>2. CASE b # a
    <3>1. Cell(b) /\ memory'[b] \in {memory[b], None}
      BY <2>2 DEF UasInv
    <3> QED BY <1>1, <1>2, <3>1 DEF Cell
  <2> QED BY <2>1, <2>2
<1>6. \A b, c \in Addrs : memory'[b] # None /\ memory'[c] # None /\ memory'[b].of = memory'[c].of
                            => b = c
  <2>1. \A b \in Addrs \ {a} : memory'[b] # None => memory'[b] = memory[b] /\ memory'[b].of # n + 1
    BY <1>1 DEF UasInv, Cell
  <2> QED BY <2>1 DEF UasInv
<1>7. \A i \in DOMAIN requests' : Entry(i)'
  <2> SUFFICES ASSUME NEW i \in DOMAIN requests' PROVE Entry(i)'
    OBVIOUS
  <2>1. CASE i = n + 1
    BY <1>2, <1>4, <2>1 DEF Entry
  <2>2. CASE i \in 1 .. n
    <3>1. Entry(i) /\ requests'[i] = requests[i]
      BY <1>1, <1>2, <2>2 DEF UasInv
    <3> QED BY <1>4, <3>1 DEF Entry
  <2> QED BY <1>1, <1>2, <2>1, <2>2
<1>8. \A id \in RequestIds' : Leads(id)'
  <2> SUFFICES ASSUME NEW id \in RequestIds', id \notin stale' PROVE Leads(id)'
    BY DEF Leads
  <2>1. CASE id \in RequestIds
    <3>1. Leads(id) /\ id \notin stale /\ Request(id)' = Request(id)
      BY <1>4, <2>1 DEF UasInv, Request
    <3>2. Request(id) # None /\ Request(id).of \in 1 .. n
      <4>1. g_request_ids[id + 1] \in Addrs
        BY <2>1, UasFacts
      <4>2. Cell(g_request_ids[id + 1])
        BY <4>1 DEF UasInv
      <4> QED BY <1>1, <3>1, <4>2 DEF Leads, Cell, Request
    <3>3. r.id # id
      BY <1>1, <1>3, <2>1, NoneIsNothing
    <3> QED BY <1>1, <1>2, <3>1, <3>2, <3>3 DEF Leads
  <2>2. CASE id \notin RequestIds
    <3>1. id = k /\ Request(id)' = m
      BY <1>4, <2>2 DEF Request
    <3>2. \A i \in 1 .. n : requests'[i].id # k
      <4>1. \A i \in 1 .. n : requests[i].id \in RequestIds \cup {None}
        BY <1>1 DEF UasInv, Entry
      <4> QED BY <1>1, <1>2, <4>1, NoneIsNothing
    <3>3. r.id = k \/ r.id # k
      OBVIOUS
    <3> QED BY <1>1, <1>2, <3>1, <3>2, <3>3, NoneIsNothing DEF Leads
  <2> QED BY <2>1, <2>2
<1>9. stale' \subseteq RequestIds'
  BY <1>4
<1> QED BY <1>2, <1>4, <1>5, <1>6, <1>7, <1>8, <1>9 DEF UasInv

LEMMA HeapIsNoSocket == \A s \in Sockets, c, d \in Cells : <<s, c>> # <<Heap, d>> /\ s # Heap
BY HeapAssumption

\* What a packet leaves of the memory, and which ids it makes stale.
LEMMA WipedLeaves ==
  ASSUME UasInv, NEW s \in Sockets
  PROVE  /\ Wiped(s) \in [Addrs -> Structures \cup {None}]
         /\ \A a \in Addrs : Wiped(s)[a] \in {memory[a], None}
         /\ stale \cup StandsIn(s) \subseteq RequestIds
         /\ \A id \in RequestIds \ (stale \cup StandsIn(s)) :
              /\ g_request_ids[id + 1][1] # s
              /\ Wiped(s)[g_request_ids[id + 1]] = memory[g_request_ids[id + 1]]
<1>1. Wiped(s) = [a \in Addrs |-> IF a[1] = s THEN None ELSE memory[a]]
  BY DEF Wiped
<1>2. memory \in [Addrs -> Structures \cup {None}] /\ stale \subseteq RequestIds
  BY DEF UasInv
<1>3. \A id \in RequestIds : g_request_ids[id + 1] \in Addrs
  BY UasFacts
<1> QED BY <1>1, <1>2, <1>3 DEF StandsIn

LEMMA RxOtherInv == ASSUME UasInv, NEW s \in Sockets, RxOther(s) PROVE UasInv'
<1>1. /\ memory' = Wiped(s) /\ stale' = stale \cup StandsIn(s)
      /\ UNCHANGED <<g_request_ids, requests>>
  BY DEF RxOther
<1> QED BY <1>1, WipedLeaves, MemoryTaken

LEMMA RxRequestInv == ASSUME UasInv, NEW s \in Sockets, RxRequest(s) PROVE UasInv'
<1>1. PICK c \in Cells :
        \/ /\ HasNoId
           /\ Arrives(s, <<s, c>>, "raw", None, 0)
           /\ UNCHANGED g_request_ids
        \/ /\ ~HasNoId
           /\ \/ Arrives(s, <<s, c>>, "raw", None, 1)
              \/ Arrives(s, <<s, c>>, "clone", NewId, 0)
           /\ g_request_ids' = Append(g_request_ids, <<s, c>>)
  BY DEF RxRequest
<1> DEFINE a == <<s, c>>
           k == Len(g_request_ids)
<1>2. a \in Addrs /\ a[1] = s /\ a[1] # Heap
  BY HeapIsNoSocket DEF Addrs
<1>3. /\ k \in Nat /\ k <= IdsMax /\ IdsMax \in Nat \ {0} /\ Len(requests) \in Nat
      /\ (~HasNoId => k < IdsMax)
  BY UasFacts DEF UasInv, HasNoId
<1>4. PICK pending \in {"raw", "clone"}, id \in {None, k}, finals \in {0, 1} :
        /\ Arrives(s, a, pending, id, finals)
        /\ pending = "raw" => id = None
        /\ id # None => finals = 0
        /\ \/ g_request_ids' = g_request_ids /\ id = None
           \/ g_request_ids' = Append(g_request_ids, a) /\ k < IdsMax
  BY <1>1, <1>3 DEF NewId
<1> DEFINE m == [is_uac |-> FALSE, pending |-> pending, id |-> k, of |-> Len(requests) + 1]
           r == History("in", id, finals)
<1>5. /\ memory' = [Wiped(s) EXCEPT ![a] = m]
      /\ requests' = Append(requests, r)
      /\ stale' = stale \cup StandsIn(s)
  BY <1>4 DEF Arrives
<1>6. m \in Structures /\ m.of = Len(requests) + 1 /\ m.pending = pending
  BY <1>3 DEF Structures
<1>7. /\ r \in RequestType /\ r.by = {} /\ r.reported = None /\ r.finals = finals /\ r.id = id
  <2>1. id \in MaybeIds
    BY <1>3, <1>4 DEF MaybeIds
  <2> QED BY <2>1 DEF RequestType, History, MaybeIds
<1>8. /\ memory' \in [Addrs -> Structures \cup {None}]
      /\ memory'[a] = m
      /\ \A b \in Addrs \ {a} : memory'[b] \in {memory[b], None}
  BY <1>2, <1>5, <1>6, WipedLeaves
<1>9. /\ stale \subseteq stale' /\ stale' \subseteq RequestIds
      /\ \A i \in RequestIds \ stale' :
            /\ g_request_ids[i + 1] # a
            /\ memory'[g_request_ids[i + 1]] = memory[g_request_ids[i + 1]]
  <2>1. \A i \in RequestIds : g_request_ids[i + 1] \in Addrs
    BY UasFacts
  <2>2. \A i \in RequestIds \ stale' :
            /\ g_request_ids[i + 1] # a
            /\ Wiped(s)[g_request_ids[i + 1]] = memory[g_request_ids[i + 1]]
    BY <1>2, <1>5, WipedLeaves
  <2>3. \A b \in Addrs \ {a} : memory'[b] = Wiped(s)[b]
    BY <1>5, WipedLeaves
  <2> QED BY <1>5, <2>1, <2>2, <2>3, WipedLeaves
<1> HIDE DEF m, r, a
<1> QED BY <1>2, <1>4, <1>5, <1>6, <1>7, <1>8, <1>9, RequestAdded

LEMMA RequestCreateInv == ASSUME UasInv, RequestCreate PROVE UasInv'
<1>1. PICK c \in Cells :
        /\ memory[<<Heap, c>>] = None
        /\ memory' = [memory EXCEPT ![<<Heap, c>>] =
                         [is_uac |-> TRUE, pending |-> "none", id |-> IF HasNoId THEN 0 ELSE NewId,
                          of |-> Len(requests) + 1]]
        /\ g_request_ids' = IF HasNoId THEN g_request_ids ELSE Append(g_request_ids, <<Heap, c>>)
  BY DEF RequestCreate
<1> DEFINE a == <<Heap, c>>
           k == Len(g_request_ids)
           m == [is_uac |-> TRUE, pending |-> "none", id |-> IF HasNoId THEN 0 ELSE NewId,
                 of |-> Len(requests) + 1]
           r == History("out", IF HasNoId THEN None ELSE k, 0)
<1>2. a \in Addrs
  BY DEF Addrs
<1>3. /\ k \in Nat /\ k <= IdsMax /\ IdsMax \in Nat \ {0} /\ Len(requests) \in Nat
      /\ (HasNoId <=> k = IdsMax)
  BY UasFacts DEF UasInv, HasNoId
<1>4. requests' = Append(requests, r) /\ stale' = stale
  BY DEF RequestCreate
<1>5. /\ m \in Structures /\ m.of = Len(requests) + 1 /\ m.pending = "none"
      /\ m.id = IF HasNoId THEN 0 ELSE k
  BY <1>3 DEF Structures, NewId
<1>6. /\ r \in RequestType /\ r.by = {} /\ r.reported = None /\ r.finals = 0
      /\ r.id = (IF HasNoId THEN None ELSE k) /\ r.full = HasNoId
  <2>1. (IF HasNoId THEN None ELSE k) \in MaybeIds
    BY <1>3 DEF MaybeIds
  <2> QED BY <2>1 DEF RequestType, History, MaybeIds, HasNoId
<1>7. /\ memory' \in [Addrs -> Structures \cup {None}]
      /\ memory'[a] = m
      /\ \A b \in Addrs \ {a} : memory'[b] = memory[b]
  BY <1>1, <1>2, <1>5 DEF UasInv
<1>8. stale \subseteq stale' /\ stale' \subseteq RequestIds
  BY <1>4 DEF UasInv
<1>9. \A i \in RequestIds \ stale' :
            /\ g_request_ids[i + 1] # a
            /\ memory'[g_request_ids[i + 1]] = memory[g_request_ids[i + 1]]
  <2> SUFFICES ASSUME NEW i \in RequestIds \ stale
               PROVE  /\ g_request_ids[i + 1] # a
                      /\ memory'[g_request_ids[i + 1]] = memory[g_request_ids[i + 1]]
    BY <1>4
  <2>1. memory[g_request_ids[i + 1]] # None
    BY DEF UasInv, Leads, Request
  <2>2. g_request_ids[i + 1] \in Addrs
    BY UasFacts
  <2> QED BY <1>1, <1>7, <2>1, <2>2
<1>10. \/ g_request_ids' = g_request_ids /\ r.id = None
       \/ /\ g_request_ids' = Append(g_request_ids, a) /\ k < IdsMax
          /\ r.id \in {None, k}
  BY <1>1, <1>3, <1>6
<1>11. m.id < IdsMax /\ (m.id = r.id \/ r.full)
  BY <1>3, <1>5, <1>6
<1> HIDE DEF m, r, a
<1> QED BY <1>2, <1>4, <1>5, <1>6, <1>7, <1>8, <1>9, <1>10, <1>11, RequestAdded

\* The response to a request is reported.
LEMMA RequestCallbackInv ==
  ASSUME UasInv, NEW c \in Cells, RequestCallback(c), UNCHANGED <<fault, faulted>>
  PROVE  UasInv'
<1> DEFINE m == memory[<<Heap, c>>]
<1>1. /\ m # None
      /\ requests' = [requests EXCEPT ![m.of].reported = m.id]
      /\ UNCHANGED <<g_request_ids, memory, stale>>
  BY DEF RequestCallback, Fault, Up
<1>2. /\ m.of \in DOMAIN requests
      /\ m.id \in 0 .. IdsMax - 1
      /\ m.id = requests[m.of].id \/ requests[m.of].full
  <2>1. <<Heap, c>> \in Addrs /\ <<Heap, c>>[1] = Heap
    BY DEF Addrs
  <2>2. Cell(<<Heap, c>>)
    BY <2>1 DEF UasInv
  <2>3. IdsMax \in Nat
    BY BoundsAssumption
  <2> QED BY <1>1, <2>1, <2>2, <2>3 DEF Cell, Structures
<1> DEFINE r == [requests[m.of] EXCEPT !.reported = m.id]
<1>3. r \in RequestType
  <2>1. requests[m.of] \in RequestType /\ m.id \in MaybeIds
    BY <1>2, UasFacts DEF MaybeIds
  <2> HIDE DEF m
  <2> QED BY <2>1 DEF RequestType
<1>4. requests' = [requests EXCEPT ![m.of] = r]
  BY <1>1, <1>2
<1>5. /\ requests' \in Seq(RequestType)
      /\ DOMAIN requests' = DOMAIN requests
      /\ \A i \in DOMAIN requests : requests'[i] = IF i = m.of THEN r ELSE requests[i]
  <2>1. requests \in Seq(RequestType) /\ m.of \in 1 .. Len(requests)
    BY <1>2, UasFacts DEF UasInv
  <2> QED BY <1>3, <1>4, <2>1, ExceptSeq, LenProperties
<1>6. requests[m.of] \in RequestType
  BY <1>2, UasFacts
<1>7. /\ r.id = requests[m.of].id /\ r.full = requests[m.of].full /\ r.finals = requests[m.of].finals
      /\ r.by = requests[m.of].by /\ r.reported = m.id
  BY <1>6 DEF RequestType
<1>8. \A i \in DOMAIN requests : /\ requests'[i].id = requests[i].id
                                 /\ requests'[i].full = requests[i].full
                                 /\ requests'[i].finals = requests[i].finals
                                 /\ requests'[i].by = requests[i].by
                                 /\ requests'[i] \in RequestType
                                 /\ requests'[i].reported = IF i = m.of THEN m.id ELSE requests[i].reported
  BY <1>3, <1>5, <1>7, UasFacts
<1> HIDE DEF r
<1>9. RequestIds' = RequestIds
  BY <1>1 DEF RequestIds
<1>10. \A a \in Addrs : Cell(a)'
  <2> SUFFICES ASSUME NEW a \in Addrs PROVE Cell(a)'
    OBVIOUS
  <2>1. Cell(a)
    BY DEF UasInv
  <2> QED BY <1>1, <1>5, <1>8, <2>1 DEF Cell
<1>11. \A n \in DOMAIN requests' : Entry(n)'
  <2> SUFFICES ASSUME NEW n \in DOMAIN requests PROVE Entry(n)'
    BY <1>5
  <2>1. Entry(n)
    BY DEF UasInv
  <2> QED BY <1>1, <1>2, <1>8, <1>9, <2>1 DEF Entry
<1>12. \A id \in RequestIds' : Leads(id)'
  <2> SUFFICES ASSUME NEW id \in RequestIds, id \notin stale PROVE Leads(id)'
    BY <1>1, <1>9 DEF Leads
  <2>1. Leads(id) /\ Request(id)' = Request(id)
    BY <1>1 DEF UasInv, Request
  <2>2. Request(id) # None /\ Request(id).of \in DOMAIN requests
    <3>1. g_request_ids[id + 1] \in Addrs
      BY UasFacts
    <3>2. Cell(g_request_ids[id + 1])
      BY <3>1 DEF UasInv
    <3> QED BY <2>1, <3>2 DEF Leads, Cell, Request
  <2> QED BY <1>5, <1>8, <2>1, <2>2 DEF Leads
<1> QED BY <1>1, <1>5, <1>9, <1>10, <1>11, <1>12 DEF UasInv

LEMMA TransactionEndsInv == ASSUME UasInv, NEW c \in Cells, TransactionEnds(c) PROVE UasInv'
<1> DEFINE a == <<Heap, c>>
<1>1. /\ memory' = [memory EXCEPT ![a] = None]
      /\ stale' = stale \cup {id \in RequestIds : g_request_ids[id + 1] = a}
      /\ UNCHANGED <<g_request_ids, requests>>
  BY DEF TransactionEnds
<1>2. memory \in [Addrs -> Structures \cup {None}] /\ a \in Addrs /\ stale \subseteq RequestIds
  BY DEF UasInv, Addrs
<1>3. \A id \in RequestIds : g_request_ids[id + 1] \in Addrs
  BY UasFacts
<1> HIDE DEF a
<1>4. /\ memory' \in [Addrs -> Structures \cup {None}]
      /\ \A b \in Addrs : memory'[b] \in {memory[b], None}
      /\ stale \subseteq stale' /\ stale' \subseteq RequestIds
      /\ \A id \in RequestIds \ stale' : memory'[g_request_ids[id + 1]] = memory[g_request_ids[id + 1]]
  BY <1>1, <1>2, <1>3
<1> QED BY <1>1, <1>4, MemoryTaken

\* The request q, answered under id.
Recorded(q, id, final) ==
  [q EXCEPT !.by = @ \cup {id}, !.finals = IF final THEN @ + 1 ELSE @]

LEMMA AnswerRecorded ==
  ASSUME NEW q \in RequestType, NEW id \in Nat, NEW final \in BOOLEAN, NEW r,
         r = Recorded(q, id, final)
  PROVE  /\ r \in RequestType
         /\ r.id = q.id /\ r.full = q.full /\ r.reported = q.reported
         /\ r.by = q.by \cup {id}
         /\ r.finals = IF final THEN q.finals + 1 ELSE q.finals
<1>1. /\ q.by \cup {id} \in SUBSET Nat
      /\ (IF final THEN q.finals + 1 ELSE q.finals) \in Nat
  BY DEF RequestType
<1> QED BY <1>1 DEF RequestType, Recorded

\* A request is answered.  Under an id that is not stale it is the one the client means.
LEMMA RequestRespondInv ==
  ASSUME UasInv, NEW id \in RequestIds, RequestRespond(id), Request(id) # None, fault' # "reason"
  PROVE  UasInv' /\ (\/ UNCHANGED <<fault, faulted>>
                     \/ fault' = "respond" /\ faulted' = id /\ id \in stale)
<1> DEFINE a == g_request_ids[id + 1]
           m == memory[a]
           n == m.of
<1>1. a \in Addrs /\ id \in Nat
  BY UasFacts
<1>2. PICK final \in BOOLEAN :
        /\ Answered(id, final)
        /\ memory' = [memory EXCEPT ![a] = ForgetPending(@, final)]
        /\ IF final /\ m.pending = "raw"
           THEN fault' = "respond" /\ faulted' = id
           ELSE UNCHANGED <<fault, faulted>>
  BY DEF RequestRespond, Request, Fault, uas
<1>3. /\ id \in Told /\ m # None /\ m.pending # "none"
      /\ UNCHANGED <<g_request_ids, stale>>
  BY DEF RequestRespond, Request, Fault, uas
<1>4. /\ m \in Structures /\ n \in DOMAIN requests
      /\ requests[n].id # None => requests[n].finals = 0
      /\ m.pending = "raw" => requests[n].id = None
  BY <1>1, <1>3 DEF UasInv, Cell
<1>5. id \notin stale => requests[n].id = id
  <2>1. \E i \in DOMAIN requests : requests[i].id = id
    BY <1>3 DEF Told
  <2> QED BY <2>1 DEF UasInv, Leads, Request
<1> DEFINE r == [requests[n] EXCEPT !.by = @ \cup {id}, !.finals = IF final THEN @ + 1 ELSE @]
           kept == ForgetPending(m, final)
<1>6. requests[n] \in RequestType
  BY <1>4, UasFacts
<1>7. /\ r \in RequestType
      /\ r.id = requests[n].id /\ r.full = requests[n].full /\ r.reported = requests[n].reported
      /\ r.by = requests[n].by \cup {id}
      /\ r.finals = IF final THEN requests[n].finals + 1 ELSE requests[n].finals
  <2>1. PICK q \in RequestType : q = requests[n]
    BY <1>6
  <2> DEFINE t == Recorded(q, id, final)
  <2>2. /\ t \in RequestType
        /\ t.id = q.id /\ t.full = q.full /\ t.reported = q.reported
        /\ t.by = q.by \cup {id}
        /\ t.finals = IF final THEN q.finals + 1 ELSE q.finals
    <3>1. id \in Nat
      BY <1>1
    <3> QED BY <3>1, AnswerRecorded
  <2>3. r = t
    BY <2>1 DEF Recorded
  <2> QED BY <2>1, <2>2, <2>3
<1>8. requests' = [requests EXCEPT ![n] = r]
  BY <1>2, <1>4 DEF Answered, Request
<1>9. /\ kept \in Structures /\ kept.of = n /\ kept.id = m.id
      /\ kept.pending = IF final THEN "none" ELSE m.pending
  BY <1>4 DEF ForgetPending, Structures
<1>10. memory' = [memory EXCEPT ![a] = kept]
  BY <1>2
<1>11. /\ requests' \in Seq(RequestType)
       /\ DOMAIN requests' = DOMAIN requests
       /\ \A i \in DOMAIN requests : requests'[i] = IF i = n THEN r ELSE requests[i]
  <2>1. requests \in Seq(RequestType) /\ n \in 1 .. Len(requests)
    BY <1>4, UasFacts DEF UasInv
  <2> QED BY <1>7, <1>8, <2>1, ExceptSeq, LenProperties
<1>12. /\ memory' \in [Addrs -> Structures \cup {None}]
       /\ memory'[a] = kept
       /\ \A b \in Addrs \ {a} : memory'[b] = memory[b]
  BY <1>1, <1>9, <1>10 DEF UasInv
<1>13. \A b \in Addrs \ {a} : memory[b] # None => memory[b].of # n
  BY <1>1, <1>3 DEF UasInv
<1> HIDE DEF r, kept
<1>14. RequestIds' = RequestIds
  BY <1>3 DEF RequestIds
<1>15. \A b \in Addrs : Cell(b)'
  <2> SUFFICES ASSUME NEW b \in Addrs PROVE Cell(b)'
    OBVIOUS
  <2>1. Cell(b)
    BY DEF UasInv
  <2>2. CASE b = a
    BY <1>3, <1>4, <1>7, <1>9, <1>11, <1>12, <2>1, <2>2 DEF Cell
  <2>3. CASE b # a
    BY <1>11, <1>12, <1>13, <2>1, <2>3 DEF Cell
  <2> QED BY <2>2, <2>3
<1>16. \A b, c \in Addrs : memory'[b] # None /\ memory'[c] # None /\ memory'[b].of = memory'[c].of
                             => b = c
  BY <1>3, <1>9, <1>12 DEF UasInv
<1>17. \A i \in DOMAIN requests' : Entry(i)'
  <2> SUFFICES ASSUME NEW i \in DOMAIN requests PROVE Entry(i)'
    BY <1>11
  <2>1. Entry(i)
    BY DEF UasInv
  <2>2. CASE i # n
    BY <1>3, <1>11, <1>14, <2>1, <2>2 DEF Entry
  <2>3. CASE i = n
    <3>1. /\ requests'[i] = r
          /\ r.by \subseteq RequestIds
          /\ r.id \in RequestIds \cup {None}
          /\ r.reported # None => r.reported = r.id \/ r.full
      BY <1>7, <1>11, <2>1, <2>3 DEF Entry
    <3>2. \A j \in r.by \ stale : r.id = j
      BY <1>5, <1>7, <2>1, <2>3 DEF Entry
    <3>3. r.finals <= 1 \/ r.by \cap stale # {}
      <4>1. CASE id \in stale
        BY <1>7, <4>1
      <4>2. CASE id \notin stale
        <5>1. requests[n].finals = 0
          BY <1>1, <1>4, <1>5, <4>2, NoneIsNothing
        <5> QED BY <1>7, <5>1
      <4> QED BY <4>1, <4>2
    <3> QED BY <1>3, <1>7, <1>14, <3>1, <3>2, <3>3 DEF Entry
  <2> QED BY <2>2, <2>3
<1>18. \A j \in RequestIds' : Leads(j)'
  <2> SUFFICES ASSUME NEW j \in RequestIds, j \notin stale PROVE Leads(j)'
    BY <1>3, <1>14 DEF Leads
  <2> DEFINE b == g_request_ids[j + 1]
  <2>1. b \in Addrs /\ memory[b] # None /\ memory[b].of \in DOMAIN requests
    <3>1. b \in Addrs
      BY UasFacts
    <3> QED BY <3>1 DEF UasInv, Leads, Cell, Request
  <2>2. memory'[b] # None /\ memory'[b].of = memory[b].of
    BY <1>9, <1>12, <2>1, NoneIsNothing
  <2>3. \A i \in DOMAIN requests : requests'[i].id = requests[i].id
    BY <1>7, <1>11
  <2>4. Leads(j)
    BY DEF UasInv
  <2> QED BY <1>3, <1>11, <2>1, <2>2, <2>3, <2>4 DEF Leads, Request
<1>19. \/ UNCHANGED <<fault, faulted>>
       \/ fault' = "respond" /\ faulted' = id /\ id \in stale
  BY <1>1, <1>2, <1>4, <1>5, NoneIsNothing
<1> QED BY <1>3, <1>11, <1>12, <1>14, <1>15, <1>16, <1>17, <1>18, <1>19 DEF UasInv
-----------------------------------------------------------------------------
(* Accounts. *)

AccountType == [id : MaybeIds, sent : {"no", "once", "refreshing"}, reported : SUBSET Nat]

\* The id the client has of an account leads to its registration.
Registered(n) == LET r == accounts[n]
                 IN  /\ r.id # None => r.id \in AccountIds /\ regc[g_account_ids[r.id + 1]] = n
                     /\ r.reported \subseteq AccountIds
                     /\ r.reported \subseteq {r.id} \cup LeftBehind

\* What has been sent has an id, which get_id() finds.
HasId(a) == regc[a] # None /\ accounts[regc[a]].sent # "no" => Stands(a) # {}

RegInv == /\ g_account_ids \in Seq(RegcAddrs)
          /\ Len(g_account_ids) <= IdsMax
          /\ accounts \in Seq(AccountType)
          /\ regc \in [RegcAddrs -> DOMAIN accounts \cup {None}]
          /\ \A a, b \in RegcAddrs : regc[a] # None /\ regc[a] = regc[b] => a = b
          /\ \A n \in DOMAIN accounts : Registered(n)
          /\ \A a \in RegcAddrs : HasId(a)

LEMMA RegFacts ==
  ASSUME RegInv
  PROVE  /\ IdsMax \in Nat \ {0}
         /\ Len(g_account_ids) \in Nat
         /\ AccountIds = 0 .. Len(g_account_ids) - 1
         /\ \A id \in AccountIds : id \in Nat /\ g_account_ids[id + 1] \in RegcAddrs
         /\ Len(accounts) \in Nat
         /\ DOMAIN accounts = 1 .. Len(accounts)
         /\ \A n \in DOMAIN accounts : accounts[n] \in AccountType
         /\ None \notin DOMAIN accounts
<1>1. IdsMax \in Nat \ {0}
  BY BoundsAssumption
<1>2. /\ Len(g_account_ids) \in Nat
      /\ DOMAIN g_account_ids = 1 .. Len(g_account_ids)
      /\ Len(accounts) \in Nat
      /\ DOMAIN accounts = 1 .. Len(accounts)
  BY LenProperties DEF RegInv
<1>3. ASSUME NEW id \in AccountIds PROVE id \in Nat /\ g_account_ids[id + 1] \in RegcAddrs
  <2>1. id \in Nat /\ id + 1 \in 1 .. Len(g_account_ids)
    BY <1>2 DEF AccountIds
  <2> QED BY <2>1, ElementOfSeq DEF RegInv
<1>4. \A n \in DOMAIN accounts : accounts[n] \in AccountType
  BY ElementOfSeq, <1>2 DEF RegInv
<1>5. None \notin DOMAIN accounts
  BY <1>2, NoneIsNothing
<1> QED BY <1>1, <1>2, <1>3, <1>4, <1>5 DEF AccountIds

(***************************************************************************)
(* An account more, with a registration or without, and with an id or not. *)
(***************************************************************************)
LEMMA AccountAdded ==
  ASSUME RegInv, NEW a \in RegcAddrs, NEW r \in AccountType,
         regc[a] = None, r.sent = "no", r.reported = {},
         accounts' = Append(accounts, r),
         regc' \in {regc, [regc EXCEPT ![a] = Len(accounts) + 1]},
         \/ g_account_ids' = g_account_ids /\ r.id = None
         \/ /\ g_account_ids' = Append(g_account_ids, a) /\ Len(g_account_ids) < IdsMax
            /\ r.id # None => r.id = Len(g_account_ids) /\ regc' # regc
  PROVE  RegInv'
<1> DEFINE n == Len(accounts)
           k == Len(g_account_ids)
<1>1. /\ IdsMax \in Nat \ {0} /\ k \in Nat /\ n \in Nat /\ k <= IdsMax
      /\ AccountIds = 0 .. k - 1
      /\ DOMAIN accounts = 1 .. n
      /\ g_account_ids \in Seq(RegcAddrs) /\ accounts \in Seq(AccountType)
      /\ None \notin Nat
  BY RegFacts, NoneIsNothing DEF RegInv
<1>2. /\ accounts' \in Seq(AccountType)
      /\ DOMAIN accounts' = 1 .. n + 1
      /\ \A i \in 1 .. n : accounts'[i] = accounts[i]
      /\ accounts'[n + 1] = r
  BY <1>1, AppendProperties, LenProperties
<1>3. /\ AccountIds \subseteq AccountIds'
      /\ g_account_ids' \in Seq(RegcAddrs) /\ Len(g_account_ids') <= IdsMax
      /\ \A id \in AccountIds : g_account_ids'[id + 1] = g_account_ids[id + 1]
      /\ r.id # None => /\ r.id = k /\ k \in AccountIds'
                        /\ g_account_ids'[k + 1] = a /\ regc' # regc
  <2>1. CASE g_account_ids' = g_account_ids /\ r.id = None
    BY <1>1, <2>1 DEF AccountIds
  <2>2. CASE /\ g_account_ids' = Append(g_account_ids, a) /\ k < IdsMax
             /\ r.id # None => r.id = k /\ regc' # regc
    <3>1. /\ g_account_ids' \in Seq(RegcAddrs)
          /\ Len(g_account_ids') = k + 1
          /\ \A i \in 1 .. k : g_account_ids'[i] = g_account_ids[i]
          /\ g_account_ids'[k + 1] = a
      BY <1>1, <2>2, AppendProperties
    <3>2. AccountIds' = 0 .. k
      BY <1>1, <3>1 DEF AccountIds
    <3>3. \A id \in 0 .. k - 1 : id + 1 \in 1 .. k
      BY <1>1
    <3> QED BY <1>1, <2>2, <3>1, <3>2, <3>3
  <2> QED BY <2>1, <2>2
<1>4. /\ regc' \in [RegcAddrs -> 1 .. n + 1 \cup {None}]
      /\ \A b \in RegcAddrs \ {a} : regc'[b] = regc[b]
      /\ regc'[a] \in {None, n + 1}
      /\ regc' # regc => regc'[a] = n + 1
      /\ \A b \in RegcAddrs : regc[b] \in 1 .. n \cup {None}
  BY <1>1 DEF RegInv
<1>5. \A b, c \in RegcAddrs : regc'[b] # None /\ regc'[b] = regc'[c] => b = c
  <2>1. \A b \in RegcAddrs \ {a} : regc'[b] # n + 1
    BY <1>1, <1>4
  <2> QED BY <1>4, <2>1 DEF RegInv
<1>6. LeftBehind \subseteq LeftBehind'
  <2>1. ASSUME NEW id \in LeftBehind PROVE id \in LeftBehind'
    <3>1. id \in AccountIds /\ id # k /\ id \in Nat
      BY <1>1 DEF LeftBehind
    <3>2. r.id # id
      BY <1>1, <1>3, <3>1
    <3>3. \A i \in 1 .. n : accounts'[i].id # id
      BY <1>1, <1>2, <2>1 DEF LeftBehind
    <3>4. \A i \in 1 .. n + 1 : accounts'[i].id # id
      BY <1>1, <1>2, <3>2, <3>3
    <3> QED BY <1>2, <1>3, <3>1, <3>4 DEF LeftBehind
  <2> QED BY <2>1
<1>7. \A i \in DOMAIN accounts' : Registered(i)'
  <2> SUFFICES ASSUME NEW i \in 1 .. n + 1 PROVE Registered(i)'
    BY <1>2
  <2>1. CASE i = n + 1
    BY <1>1, <1>2, <1>3, <1>4, <2>1 DEF Registered
  <2>2. CASE i \in 1 .. n
    <3>1. Registered(i) /\ accounts'[i] = accounts[i]
      BY <1>1, <1>2, <2>2 DEF RegInv
    <3>2. ASSUME accounts[i].id # None
          PROVE  accounts[i].id \in AccountIds' /\ regc'[g_account_ids'[accounts[i].id + 1]] = i
      <4> DEFINE b == g_account_ids[accounts[i].id + 1]
      <4>1. accounts[i].id \in AccountIds /\ regc[b] = i
        BY <3>1, <3>2 DEF Registered
      <4>2. b \in RegcAddrs /\ b # a
        BY <1>1, <4>1, <2>2, RegFacts
      <4> QED BY <1>3, <1>4, <4>1, <4>2
    <3> QED BY <1>3, <1>6, <3>1, <3>2 DEF Registered
  <2> QED BY <1>1, <2>1, <2>2
<1>8. \A b \in RegcAddrs : HasId(b)'
  <2> SUFFICES ASSUME NEW b \in RegcAddrs PROVE HasId(b)'
    OBVIOUS
  <2>1. HasId(b)
    BY DEF RegInv
  <2>2. Stands(b) \subseteq Stands(b)'
    BY <1>3 DEF Stands
  <2>3. CASE b = a
    BY <1>2, <1>4, <2>3 DEF HasId
  <2>4. CASE b # a
    BY <1>1, <1>2, <1>4, <2>1, <2>2, <2>4 DEF HasId
  <2> QED BY <2>3, <2>4
<1> QED BY <1>2, <1>3, <1>4, <1>5, <1>7, <1>8 DEF RegInv

(***************************************************************************)
(* What is sent, and what is reported under ids it may have.               *)
(***************************************************************************)
LEMMA AccountsChanged ==
  ASSUME RegInv, UNCHANGED <<g_account_ids, regc>>,
         accounts' \in Seq(AccountType), DOMAIN accounts' = DOMAIN accounts,
         \A n \in DOMAIN accounts :
            /\ accounts'[n].id = accounts[n].id
            /\ accounts'[n].reported \subseteq AccountIds
            /\ accounts'[n].reported \subseteq {accounts[n].id} \cup LeftBehind,
         \A a \in RegcAddrs : HasId(a)'
  PROVE  RegInv'
<1>1. AccountIds' = AccountIds
  BY DEF AccountIds
<1>2. LeftBehind' = LeftBehind
  <2>1. {accounts'[n].id : n \in DOMAIN accounts'} = {accounts[n].id : n \in DOMAIN accounts}
    OBVIOUS
  <2> QED BY <1>1, <2>1 DEF LeftBehind
<1>3. \A n \in DOMAIN accounts' : Registered(n)'
  BY <1>1, <1>2 DEF RegInv, Registered
<1> QED BY <1>3 DEF RegInv

LEMMA AccountCreateInv ==
  ASSUME RegInv, NEW a \in RegcAddrs, AccountCreate(a)
  PROVE  RegInv' /\ UNCHANGED <<fault, faulted>>
<1>1. IdsMax \in Nat \ {0} /\ Len(g_account_ids) \in Nat
  BY RegFacts
<1>2. PICK id \in MaybeIds :
        /\ accounts' = Account(id)
        /\ regc[a] = None
        /\ regc' \in {regc, [regc EXCEPT ![a] = Len(accounts) + 1]}
        /\ \/ g_account_ids' = g_account_ids /\ id = None
           \/ /\ g_account_ids' = Append(g_account_ids, a) /\ Len(g_account_ids) < IdsMax
              /\ id # None => id = Len(g_account_ids) /\ regc' # regc
  <2>1. CASE CreateFailsEarly(a)
    BY <2>1 DEF MaybeIds, CreateFailsEarly, Registers
  <2>2. CASE CreateFailsWithId(a)
    BY <2>2 DEF MaybeIds, CreateFailsWithId, TakesId
  <2>3. CASE CreateSucceeds(a)
    <3>1. Len(accounts) + 1 # None
      BY RegFacts, NoneIsNothing
    <3>2. regc' # regc
      BY <2>3, <3>1 DEF CreateSucceeds, Registers, RegInv
    <3>3. Len(g_account_ids) \in MaybeIds
      BY <1>1, <2>3 DEF CreateSucceeds, TakesId, MaybeIds
    <3> QED BY <2>3, <3>2, <3>3 DEF CreateSucceeds, Registers, TakesId
  <2> QED BY <2>1, <2>2, <2>3 DEF AccountCreate
<1>3. PICK r \in AccountType : r = [id |-> id, sent |-> "no", reported |-> {}]
  BY DEF AccountType
<1>4. /\ r.id = id /\ r.sent = "no" /\ r.reported = {}
      /\ accounts' = Append(accounts, r)
  BY <1>2, <1>3 DEF Account
<1>5. RegInv'
  BY <1>2, <1>4, AccountAdded
<1> QED BY <1>5 DEF AccountCreate

LEMMA OneAccountChanged ==
  ASSUME NEW s \in Seq(AccountType), NEW n \in DOMAIN s, NEW r \in AccountType
  PROVE  LET t == [s EXCEPT ![n] = r]
         IN  /\ t \in Seq(AccountType) /\ DOMAIN t = DOMAIN s
             /\ \A i \in DOMAIN s : t[i] = IF i = n THEN r ELSE s[i]
BY ExceptSeq, LenProperties

\* REGISTER is sent for an account the client was told of, which has its id.
LEMMA SendsInv ==
  ASSUME RegInv, NEW id \in AccountIds, NEW how \in {"once", "refreshing"}, Sends(id, how)
  PROVE  RegInv' /\ UNCHANGED <<fault, faulted>>
<1> DEFINE a == g_account_ids[id + 1]
<1>1. a \in RegcAddrs /\ id \in Nat
  BY RegFacts
<1>2. PICK n \in DOMAIN accounts : n = regc[a]
  BY <1>1 DEF Sends, RegInv
<1>3. PICK q \in AccountType : q = accounts[n]
  BY RegFacts
<1> DEFINE r == [q EXCEPT !.sent = how]
<1>4. r \in AccountType /\ r.id = q.id /\ r.reported = q.reported
  BY DEF AccountType
<1>5. accounts' = [accounts EXCEPT ![n] = r] /\ UNCHANGED <<g_account_ids, regc, fault, faulted>>
  BY <1>2, <1>3 DEF Sends
<1>6. /\ accounts' \in Seq(AccountType) /\ DOMAIN accounts' = DOMAIN accounts
      /\ \A i \in DOMAIN accounts : accounts'[i] = IF i = n THEN r ELSE accounts[i]
  BY <1>4, <1>5, OneAccountChanged DEF RegInv
<1> HIDE DEF r
<1>7. \A b \in RegcAddrs : HasId(b)'
  <2> SUFFICES ASSUME NEW b \in RegcAddrs, regc[b] # None, accounts'[regc[b]].sent # "no"
               PROVE  Stands(b)' # {}
    BY <1>5 DEF HasId
  <2>1. regc[b] \in DOMAIN accounts /\ HasId(b)
    BY DEF RegInv
  <2>2. Stands(b)' = Stands(b)
    BY <1>5 DEF Stands, AccountIds
  <2>3. CASE regc[b] = n
    <3>1. b = a
      BY <1>1, <1>2, <2>3 DEF RegInv
    <3> QED BY <2>2, <3>1 DEF Stands
  <2>4. CASE regc[b] # n
    BY <1>6, <2>1, <2>2, <2>4 DEF HasId
  <2> QED BY <2>3, <2>4
<1>8. \A i \in DOMAIN accounts : /\ accounts'[i].id = accounts[i].id
                                 /\ accounts'[i].reported = accounts[i].reported
  BY <1>3, <1>4, <1>6
<1>9. \A i \in DOMAIN accounts : Registered(i)
  BY DEF RegInv
<1> QED BY <1>5, <1>6, <1>7, <1>8, <1>9, AccountsChanged DEF Registered

LEMMA LeastExists ==
  ASSUME NEW T, T \subseteq Nat, T # {}
  PROVE  \E x \in T : \A y \in T : x <= y
<1>1. PICK x \in T : \A y \in T : ~ (<<y, x>> \in OpToRel(<, Nat))
  BY WFMin, NatLessThanWellFounded
<1>2. ASSUME NEW y \in T PROVE ~ (y < x)
  BY <1>1 DEF OpToRel
<1> QED BY <1>2

(***************************************************************************)
(* The least id of an address is that of its account, or one no account    *)
(* has.                                                                    *)
(***************************************************************************)
LEMMA OnRegistrationStatusInv ==
  ASSUME RegInv, NEW a \in RegcAddrs, OnRegistrationStatus(a)
  PROVE  RegInv' /\ UNCHANGED <<fault, faulted>>
<1>1. PICK n \in DOMAIN accounts : n = regc[a]
  BY DEF OnRegistrationStatus, RegInv
<1>2. PICK q \in AccountType : q = accounts[n]
  BY RegFacts
<1>3. PICK id : id = GetId(a)
  OBVIOUS
<1>4. id \in AccountIds /\ id \in Nat /\ g_account_ids[id + 1] = a
  <2>1. Stands(a) # {}
    BY <1>1 DEF OnRegistrationStatus, RegInv, HasId
  <2>2. Stands(a) \subseteq Nat
    BY RegFacts DEF Stands
  <2>3. \E i \in Stands(a) : \A j \in Stands(a) : i <= j
    BY <2>1, <2>2, LeastExists
  <2>4. id \in Stands(a)
    BY <1>3, <2>3 DEF GetId
  <2> QED BY <2>2, <2>4 DEF Stands
<1> DEFINE once == IF q.sent = "once" THEN "no" ELSE q.sent
           r == [q EXCEPT !.reported = @ \cup {id}, !.sent = IF @ = "once" THEN "no" ELSE @]
<1>5. /\ r \in AccountType /\ r.id = q.id /\ r.reported = q.reported \cup {id}
      /\ r.sent # "no" => q.sent # "no"
  <2>1. q.reported \cup {id} \in SUBSET Nat /\ once \in {"no", "once", "refreshing"}
    BY <1>4 DEF AccountType
  <2> QED BY <2>1 DEF AccountType
<1>6. accounts' = [accounts EXCEPT ![n] = r] /\ UNCHANGED <<g_account_ids, regc, fault, faulted>>
  BY <1>1, <1>2, <1>3 DEF OnRegistrationStatus
<1>7. /\ accounts' \in Seq(AccountType) /\ DOMAIN accounts' = DOMAIN accounts
      /\ \A i \in DOMAIN accounts : accounts'[i] = IF i = n THEN r ELSE accounts[i]
  BY <1>5, <1>6, OneAccountChanged DEF RegInv
<1> HIDE DEF r
<1>8. id = q.id \/ id \in LeftBehind
  <2>1. SUFFICES ASSUME NEW i \in DOMAIN accounts, accounts[i].id = id
                 PROVE  i = n
    BY <1>2, <1>4 DEF LeftBehind
  <2>2. accounts[i].id # None
    BY <1>4, <2>1, NoneIsNothing
  <2>3. regc[g_account_ids[accounts[i].id + 1]] = i
    BY <2>2 DEF RegInv, Registered
  <2> QED BY <1>1, <1>4, <2>1, <2>3
<1>9. \A b \in RegcAddrs : HasId(b)'
  <2> SUFFICES ASSUME NEW b \in RegcAddrs, regc[b] # None, accounts'[regc[b]].sent # "no"
               PROVE  Stands(b)' # {}
    BY <1>6 DEF HasId
  <2>1. regc[b] \in DOMAIN accounts /\ HasId(b)
    BY DEF RegInv
  <2>2. Stands(b)' = Stands(b)
    BY <1>6 DEF Stands, AccountIds
  <2> QED BY <1>2, <1>5, <1>7, <2>1, <2>2 DEF HasId
<1>10. ASSUME NEW i \in DOMAIN accounts
       PROVE  /\ accounts'[i].id = accounts[i].id
              /\ accounts'[i].reported \subseteq AccountIds
              /\ accounts'[i].reported \subseteq {accounts[i].id} \cup LeftBehind
  <2>1. Registered(i)
    BY DEF RegInv
  <2> QED BY <1>2, <1>4, <1>5, <1>7, <1>8, <2>1 DEF Registered
<1> QED BY <1>6, <1>7, <1>9, <1>10, AccountsChanged

LEMMA ShutdownInv ==
  ASSUME RegInv, Shutdown
  PROVE  RegInv' /\ (\/ UNCHANGED <<fault, faulted>>
                     \/ fault' = "shutdown" /\ faulted' \in LeftBehind')
<1>1. CASE \E id \in AccountIds : regc[g_account_ids[id + 1]] = None /\ Fault("shutdown", id)
  <2>1. PICK id \in AccountIds : regc[g_account_ids[id + 1]] = None /\ Fault("shutdown", id)
    BY <1>1
  <2>2. id \in LeftBehind
    <3>1. ASSUME NEW n \in DOMAIN accounts PROVE accounts[n].id # id
      <4>1. id # None /\ None # n
        BY RegFacts, NoneIsNothing
      <4> QED BY <2>1, <4>1 DEF RegInv, Registered
    <3> QED BY <3>1 DEF LeftBehind
  <2>3. UNCHANGED registrations /\ fault' = "shutdown" /\ faulted' = id
    BY <2>1 DEF Fault
  <2> QED BY <2>2, <2>3
         DEF registrations, RegInv, Registered, HasId, Stands, LeftBehind, AccountIds
<1>2. CASE /\ accounts' = [n \in DOMAIN accounts |->
                             IF \E id \in AccountIds : regc[g_account_ids[id + 1]] = n
                             THEN [accounts[n] EXCEPT !.sent = "once"] ELSE accounts[n]]
           /\ UNCHANGED <<g_account_ids, regc, fault, faulted>>
  <2>1. DOMAIN accounts' = DOMAIN accounts
    BY <1>2
  <2>2. ASSUME NEW n \in DOMAIN accounts
        PROVE  /\ accounts'[n] \in AccountType
               /\ accounts'[n].id = accounts[n].id
               /\ accounts'[n].reported = accounts[n].reported
               /\ \/ accounts'[n].sent = accounts[n].sent
                  \/ \E id \in AccountIds : regc[g_account_ids[id + 1]] = n
    <3>1. PICK q \in AccountType : q = accounts[n]
      BY RegFacts
    <3> DEFINE r == [q EXCEPT !.sent = "once"]
    <3>2. r \in AccountType /\ r.id = q.id /\ r.reported = q.reported
      BY DEF AccountType
    <3>3. CASE \E id \in AccountIds : regc[g_account_ids[id + 1]] = n
      <4>1. accounts'[n] = r
        BY <1>2, <3>1, <3>3
      <4> QED BY <3>1, <3>2, <3>3, <4>1
    <3>4. CASE ~ \E id \in AccountIds : regc[g_account_ids[id + 1]] = n
      <4>1. accounts'[n] = q
        BY <1>2, <3>1, <3>4
      <4> QED BY <3>1, <4>1
    <3> QED BY <3>3, <3>4
  <2>3. accounts' \in Seq(AccountType)
    <3>1. accounts' = [n \in 1 .. Len(accounts) |-> accounts'[n]] /\ Len(accounts) \in Nat
      BY <1>2, RegFacts
    <3>2. \A n \in 1 .. Len(accounts) : accounts'[n] \in AccountType
      BY <2>2, RegFacts
    <3> QED BY <3>1, <3>2
  <2>4. \A a \in RegcAddrs : HasId(a)'
    <3> SUFFICES ASSUME NEW a \in RegcAddrs, regc[a] # None, accounts'[regc[a]].sent # "no"
                 PROVE  Stands(a)' # {}
      BY <1>2 DEF HasId
    <3>1. regc[a] \in DOMAIN accounts /\ HasId(a)
      BY DEF RegInv
    <3>2. Stands(a)' = Stands(a)
      BY <1>2 DEF Stands, AccountIds
    <3>3. CASE accounts'[regc[a]].sent = accounts[regc[a]].sent
      BY <3>1, <3>2, <3>3 DEF HasId
    <3>4. CASE \E id \in AccountIds : regc[g_account_ids[id + 1]] = regc[a]
      <4>1. PICK id \in AccountIds : regc[g_account_ids[id + 1]] = regc[a]
        BY <3>4
      <4>2. g_account_ids[id + 1] = a
        BY <4>1, RegFacts DEF RegInv
      <4> QED BY <3>2, <4>2 DEF Stands
    <3> QED BY <2>2, <3>1, <3>3, <3>4
  <2>5. \A i \in DOMAIN accounts : Registered(i)
    BY DEF RegInv
  <2> QED BY <1>2, <2>1, <2>2, <2>3, <2>4, <2>5, AccountsChanged DEF Registered
<1> QED BY <1>1, <1>2 DEF Shutdown

-----------------------------------------------------------------------------
(* The whole. *)

FaultInv == /\ fault \in {"none", "respond", "reason", "timeout", "shutdown"}
            /\ faulted \in MaybeIds
            /\ fault = "respond" => faulted \in stale
            /\ fault = "shutdown" => faulted \in LeftBehind

IInv == UasInv /\ RegInv /\ FaultInv /\ g_shutting_down \in BOOLEAN

LEMMA UasUnchanged == ASSUME UasInv, UNCHANGED uas PROVE UasInv'
BY DEF uas, UasInv, Cell, Entry, Leads, Request, RequestIds

LEMMA RegUnchanged ==
  ASSUME RegInv, UNCHANGED registrations
  PROVE  RegInv' /\ LeftBehind' = LeftBehind
BY DEF registrations, RegInv, Registered, HasId, Stands, LeftBehind, AccountIds

LEMMA InitIInv == Init => IInv
<1> SUFFICES ASSUME Init PROVE IInv
  OBVIOUS
<1>1. /\ g_request_ids = <<>> /\ Len(g_request_ids) = 0 /\ RequestIds = {}
      /\ requests = <<>> /\ DOMAIN requests = {}
      /\ g_account_ids = <<>> /\ Len(g_account_ids) = 0 /\ AccountIds = {}
      /\ accounts = <<>> /\ DOMAIN accounts = {}
      /\ IdsMax \in Nat \ {0}
  BY BoundsAssumption DEF Init, RequestIds, AccountIds
<1>2. UasInv
  BY <1>1 DEF Init, UasInv, Cell
<1>3. RegInv
  BY <1>1 DEF Init, RegInv, HasId
<1> QED BY <1>2, <1>3 DEF Init, IInv, FaultInv, MaybeIds

LEMMA NextIInv == IInv /\ [Next]_vars => IInv'
<1> SUFFICES ASSUME IInv, [Next]_vars PROVE IInv'
  OBVIOUS
<1>1. UasInv /\ RegInv /\ FaultInv /\ g_shutting_down \in BOOLEAN
  BY DEF IInv
<1>2. ASSUME UasInv', UNCHANGED <<registrations, g_shutting_down>>, stale \subseteq stale',
             \/ UNCHANGED <<fault, faulted>>
             \/ fault' \in {"reason", "timeout"} /\ faulted' \in RequestIds \cup {None}
             \/ fault' = "respond" /\ faulted' \in RequestIds /\ faulted' \in stale
      PROVE  IInv'
  <2>1. RegInv' /\ LeftBehind' = LeftBehind
    BY <1>1, <1>2, RegUnchanged
  <2>2. RequestIds \subseteq MaybeIds
    BY <1>1, UasFacts DEF MaybeIds, UasInv, RequestIds
  <2>3. FaultInv'
    BY <1>1, <1>2, <2>1, <2>2 DEF FaultInv, MaybeIds
  <2> QED BY <1>1, <1>2, <2>1, <2>3 DEF IInv
<1>3. ASSUME RegInv', UNCHANGED uas, g_shutting_down' \in BOOLEAN, Up,
             \/ UNCHANGED <<fault, faulted>>
             \/ fault' = "shutdown" /\ faulted' \in LeftBehind'
      PROVE  IInv'
  <2>1. UasInv'
    BY <1>1, <1>3, UasUnchanged
  <2>2. LeftBehind' \subseteq MaybeIds
    <3>1. PICK l \in Nat : l = Len(g_account_ids)' /\ l <= IdsMax
      BY <1>3, BoundsAssumption DEF RegInv
    <3>2. 0 .. l - 1 \subseteq 0 .. IdsMax - 1
      BY <3>1, BoundsAssumption
    <3> QED BY <3>1, <3>2 DEF MaybeIds, LeftBehind, AccountIds
  <2>3. FaultInv'
    BY <1>1, <1>3, <2>2 DEF FaultInv, Up, uas
  <2> QED BY <1>3, <2>1, <2>3 DEF IInv
<1>4. ASSUME NEW s \in Sockets, RxOther(s) PROVE IInv'
  BY <1>1, <1>2, <1>4, RxOtherInv DEF RxOther
<1>5. ASSUME NEW s \in Sockets, RxRequest(s) PROVE IInv'
  <2>1. stale \subseteq stale'
    BY <1>5 DEF RxRequest, Arrives
  <2> QED BY <1>1, <1>2, <1>5, <2>1, RxRequestInv DEF RxRequest
<1>6. ASSUME NEW id \in RequestIds, RequestRespond(id) PROVE IInv'
  <2>1. UNCHANGED <<stale, registrations, g_shutting_down>>
    BY <1>6 DEF RequestRespond, Fault, uas
  <2>2. CASE Request(id) = None
    <3>1. id \in stale
      <4>1. \E n \in DOMAIN requests : requests[n].id = id
        BY <1>6 DEF RequestRespond, Told
      <4> QED BY <1>1, <2>2, <4>1 DEF UasInv, Leads
    <3>2. UNCHANGED uas /\ fault' = "respond" /\ faulted' = id
      BY <1>6, <2>2 DEF RequestRespond, Fault
    <3> QED BY <1>1, <1>2, <2>1, <3>1, <3>2, UasUnchanged
  <2>3. CASE fault' = "reason" /\ Request(id) # None
    <3>1. UNCHANGED uas /\ faulted' = id
      BY <1>1, <1>6, <2>3 DEF RequestRespond, Fault, Up
    <3> QED BY <1>1, <1>2, <2>1, <2>3, <3>1, UasUnchanged
  <2>4. CASE fault' # "reason" /\ Request(id) # None
    BY <1>1, <1>2, <1>6, <2>1, <2>4, RequestRespondInv
  <2> QED BY <2>2, <2>3, <2>4
<1>7. CASE RequestCreate
  BY <1>1, <1>2, <1>7, RequestCreateInv DEF RequestCreate
<1>8. ASSUME NEW c \in Cells, RequestCallback(c) PROVE IInv'
  <2>1. UNCHANGED <<stale, registrations, g_shutting_down>>
    BY <1>8 DEF RequestCallback, Fault, uas
  <2>2. CASE UNCHANGED <<fault, faulted>>
    BY <1>1, <1>2, <1>8, <2>1, <2>2, RequestCallbackInv
  <2>3. CASE ~ UNCHANGED <<fault, faulted>>
    <3>1. UNCHANGED uas /\ fault' = "timeout" /\ faulted' = None
      BY <1>8, <2>3 DEF RequestCallback, Fault
    <3> QED BY <1>1, <1>2, <2>1, <3>1, UasUnchanged
  <2> QED BY <2>2, <2>3
<1>9. ASSUME NEW c \in Cells, TransactionEnds(c) PROVE IInv'
  BY <1>1, <1>2, <1>9, TransactionEndsInv DEF TransactionEnds
<1>10. ASSUME NEW a \in RegcAddrs, AccountCreate(a) PROVE IInv'
  BY <1>1, <1>3, <1>10, AccountCreateInv DEF AccountCreate
<1>11. ASSUME NEW a \in RegcAddrs, OnRegistrationStatus(a) PROVE IInv'
  BY <1>1, <1>3, <1>11, OnRegistrationStatusInv DEF OnRegistrationStatus
<1>12. ASSUME NEW id \in AccountIds, AccountRegister(id) \/ AccountUnregister(id) PROVE IInv'
  <2>1. PICK how \in {"once", "refreshing"} : Sends(id, how)
    BY <1>12 DEF AccountRegister, AccountUnregister
  <2> QED BY <1>1, <1>3, <2>1, SendsInv DEF Sends
<1>13. CASE Shutdown
  BY <1>1, <1>3, <1>13, ShutdownInv DEF Shutdown, Fault
<1>14. CASE UNCHANGED vars
  BY <1>1, <1>2, <1>14, UasUnchanged DEF vars, uas
<1> QED BY <1>4, <1>5, <1>6, <1>7, <1>8, <1>9, <1>10, <1>11, <1>12, <1>13, <1>14 DEF Next

LEMMA SpecIInv == Spec => []IInv
<1> QED BY InitIInv, NextIInv, PTL DEF Spec

LEMMA IInvTypeOK == IInv => TypeOK
<1> SUFFICES ASSUME IInv PROVE TypeOK
  OBVIOUS
<1>1. /\ UasInv /\ RegInv /\ FaultInv /\ g_shutting_down \in BOOLEAN
      /\ Len(requests) \in Nat /\ DOMAIN requests = 1 .. Len(requests)
      /\ Len(accounts) \in Nat /\ DOMAIN accounts = 1 .. Len(accounts)
  BY UasFacts, RegFacts DEF IInv
<1>2. memory \in [Addrs -> Contents(Len(requests)) \cup {None}]
  <2>1. ASSUME NEW a \in Addrs, memory[a] # None
        PROVE  memory[a] \in Contents(Len(requests))
    <3>1. memory[a] \in Structures /\ memory[a].of \in 1 .. Len(requests)
      BY <1>1, <2>1 DEF UasInv, Cell
    <3> QED BY <3>1 DEF Structures, Contents
  <2>2. memory \in [Addrs -> Structures \cup {None}]
    BY <1>1 DEF UasInv
  <2> QED BY <2>1, <2>2
<1>3. requests \in Seq([way : {"in", "out"}, id : MaybeIds, finals : Nat,
                        by : SUBSET RequestIds, reported : MaybeIds, full : BOOLEAN])
  <2> DEFINE R == [way : {"in", "out"}, id : MaybeIds, finals : Nat,
                   by : SUBSET RequestIds, reported : MaybeIds, full : BOOLEAN]
  <2>1. ASSUME NEW n \in 1 .. Len(requests) PROVE requests[n] \in R
    <3>1. requests[n] \in RequestType /\ requests[n].by \subseteq RequestIds
      BY <1>1 DEF UasInv, Entry
    <3> QED BY <3>1 DEF RequestType
  <2>2. requests = [n \in 1 .. Len(requests) |-> requests[n]]
    BY <1>1 DEF UasInv
  <2> HIDE DEF R
  <2>3. requests \in Seq(R)
    BY <1>1, <2>1, <2>2
  <2> QED BY <2>3 DEF R
<1>4. accounts \in Seq([id : MaybeIds, sent : {"no", "once", "refreshing"},
                        reported : SUBSET AccountIds])
  <2> DEFINE R == [id : MaybeIds, sent : {"no", "once", "refreshing"}, reported : SUBSET AccountIds]
  <2>1. ASSUME NEW n \in 1 .. Len(accounts) PROVE accounts[n] \in R
    <3>1. accounts[n] \in AccountType /\ accounts[n].reported \subseteq AccountIds
      BY <1>1, RegFacts DEF RegInv, Registered
    <3> QED BY <3>1 DEF AccountType
  <2>2. accounts = [n \in 1 .. Len(accounts) |-> accounts[n]]
    BY <1>1 DEF RegInv
  <2> HIDE DEF R
  <2>3. accounts \in Seq(R)
    BY <1>1, <2>1, <2>2
  <2> QED BY <2>3 DEF R
<1> QED BY <1>1, <1>2, <1>3, <1>4 DEF TypeOK, UasInv, RegInv, FaultInv

(***************************************************************************)
(* The tables and the memory behind them have their types.                 *)
(***************************************************************************)
THEOREM TypeCorrect == Spec => []TypeOK
<1> QED BY SpecIInv, IInvTypeOK, PTL

(***************************************************************************)
(* For any number of requests: request_respond answers the request whose   *)
(* id it is given, unless another packet has taken its memory.             *)
(***************************************************************************)
THEOREM AnswersCorrect == Spec => []AnswersItsRequest
<1>1. IInv => AnswersItsRequest
  BY DEF IInv, UasInv, Entry, AnswersItsRequest
<1> QED BY SpecIInv, <1>1, PTL

(***************************************************************************)
(* For any number of requests: none has two final answers, unless the      *)
(* second was meant for one whose memory another packet has taken.         *)
(***************************************************************************)
THEOREM FinalsCorrect == Spec => []OneFinal
<1>1. IInv => OneFinal
  BY DEF IInv, UasInv, Entry, OneFinal
<1> QED BY SpecIInv, <1>1, PTL

(***************************************************************************)
(* For any number of requests: the response to a request of ours is        *)
(* reported under its id, unless there was none left for it.               *)
(***************************************************************************)
THEOREM ReportsCorrect == Spec => []ReportedUnderItsId
<1>1. IInv => ReportedUnderItsId
  BY DEF IInv, UasInv, Entry, ReportedUnderItsId
<1> QED BY SpecIInv, <1>1, PTL

(***************************************************************************)
(* For any number of accounts: registration_status names the account its   *)
(* registration belongs to, or an id a failing account_create left behind. *)
(***************************************************************************)
THEOREM StatusCorrect == Spec => []StatusNamesAccount
<1>1. IInv => StatusNamesAccount
  BY DEF IInv, RegInv, Registered, StatusNamesAccount
<1> QED BY SpecIInv, <1>1, PTL

(***************************************************************************)
(* For any number of requests and accounts: what request_respond was       *)
(* reading when it took the server down is the structure of a request      *)
(* which another packet had overwritten since, or one of ours that was     *)
(* over; what shutdown was reading is an id a failing account_create left. *)
(***************************************************************************)
THEOREM ReadsCorrect == Spec => []ReadsWhatIsThere
<1>1. IInv => ReadsWhatIsThere
  BY DEF IInv, FaultInv, ReadsWhatIsThere
<1> QED BY SpecIInv, <1>1, PTL
=============================================================================
