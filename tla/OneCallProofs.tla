---------------------------- MODULE OneCallProofs ----------------------------
(***************************************************************************)
(* Proofs about the three modules that follow one call from its beginning  *)
(* to its end: the id it gets (IdManager), how its requests are answered   *)
(* (CallAnswering), and how it is closed while its audio is at work        *)
(* (MediaShutdown).                                                        *)
(***************************************************************************)
EXTENDS IdManager, CallAnswering, MediaShutdown, FiniteSetTheorems, SequenceTheorems, TLAPS

-----------------------------------------------------------------------------
(***************************************************************************)
(* The id table, for every capacity and every set of pointers: it keeps    *)
(* its types, never loses or doubles an id, and implements the quarantine  *)
(* allocator.                                                              *)
(***************************************************************************)

LEMMA IdsInitIInv == Init => IInv
<1> SUFFICES ASSUME Init PROVE IInv
  OBVIOUS
<1> USE CapacityAssumption
<1>1. /\ ids \in Seq(AllIds)
      /\ Len(ids) = Capacity
      /\ DOMAIN ids = 1 .. Capacity
  BY DEF Init, AllIds
<1>2. InUse = {} /\ id_map \in [InUse -> Vals]
  BY DEF Init, InUse
<1>3. FreeIds = AllIds
  <2>1. \A i \in AllIds : i + 1 \in DOMAIN ids /\ ids[i + 1] = i
    BY <1>1 DEF Init, AllIds
  <2>2. \A k \in DOMAIN ids : ids[k] \in AllIds
    BY <1>1 DEF Init, AllIds
  <2> QED BY <2>1, <2>2 DEF FreeIds
<1>4. NoDuplicates
  BY <1>1 DEF Init, NoDuplicates
<1>5. Accounted
  BY <1>1, <1>2, FS_EmptySet DEF Accounted
<1> QED BY <1>1, <1>2, <1>3, <1>4, <1>5 DEF IInv, TypeOK, Partition

(***************************************************************************)
(* What one step does to the buffer.                                       *)
(***************************************************************************)
LEMMA AddIds ==
  ASSUME IInv, NEW val \in Vals, Add(val)
  PROVE  /\ Len(ids) \in Nat \ {0}
         /\ NextId = ids[1] /\ NextId \in AllIds /\ NextId \notin InUse
         /\ ids' \in Seq(AllIds)
         /\ DOMAIN ids = 1 .. Len(ids)
         /\ DOMAIN ids' = 1 .. Len(ids) - 1
         /\ Len(ids') = Len(ids) - 1
         /\ \A k \in DOMAIN ids' : ids'[k] = ids[k + 1]
         /\ InUse' = InUse \cup {NextId}
         /\ FreeIds' = FreeIds \ {NextId}
<1>1. ids \in Seq(AllIds) /\ ids # <<>>
  BY DEF IInv, TypeOK, Add, CanAdd
<1>2. /\ Len(ids) \in Nat \ {0}
      /\ DOMAIN ids = 1 .. Len(ids)
      /\ NextId = ids[1]
      /\ NextId \in AllIds
      /\ ids' \in Seq(AllIds)
      /\ Len(ids') = Len(ids) - 1
      /\ DOMAIN ids' = 1 .. Len(ids) - 1
      /\ \A k \in DOMAIN ids' : ids'[k] = ids[k + 1]
  BY <1>1, HeadTailProperties, LenProperties DEF Add, NextId
<1>3. NextId \in FreeIds
  BY <1>2 DEF FreeIds
<1>4. NextId \notin InUse
  BY <1>3 DEF IInv, Partition
<1>5. InUse' = InUse \cup {NextId}
  BY DEF Add, InUse
<1>6. FreeIds' = FreeIds \ {NextId}
  <2>1. NoDuplicates
    BY DEF IInv, Partition
  <2>2. \A k \in DOMAIN ids' : k + 1 \in DOMAIN ids /\ ids[k + 1] # NextId
    BY <1>2, <2>1 DEF NoDuplicates
  <2>3. \A j \in DOMAIN ids : ids[j] # NextId =>
            j - 1 \in DOMAIN ids' /\ ids'[j - 1] = ids[j]
    BY <1>2
  <2> QED BY <1>2, <2>2, <2>3 DEF FreeIds
<1> QED BY <1>2, <1>4, <1>5, <1>6

LEMMA RemoveIds ==
  ASSUME IInv, NEW id, Remove(id)
  PROVE  /\ id \in AllIds /\ id \in InUse /\ id \notin FreeIds
         /\ Len(ids) \in Nat /\ Len(ids) < Capacity
         /\ ids' \in Seq(AllIds)
         /\ DOMAIN ids = 1 .. Len(ids)
         /\ DOMAIN ids' = 1 .. Len(ids) + 1
         /\ Len(ids') = Len(ids) + 1
         /\ \A k \in DOMAIN ids : ids'[k] = ids[k]
         /\ ids'[Len(ids) + 1] = id
         /\ InUse' = InUse \ {id}
         /\ FreeIds' = FreeIds \cup {id}
<1> USE CapacityAssumption
<1>1. id \in InUse /\ id \in AllIds /\ id \notin FreeIds
  BY DEF IInv, TypeOK, Partition, Remove
<1>2. ids \in Seq(AllIds) /\ Len(ids) \in Nat /\ DOMAIN ids = 1 .. Len(ids)
  BY LenProperties DEF IInv, TypeOK
<1>3. Len(ids) < Capacity
  <2>1. IsFiniteSet(InUse) /\ Len(ids) + Cardinality(InUse) = Capacity
    BY DEF IInv, Accounted
  <2>2. Cardinality(InUse) \in Nat /\ Cardinality(InUse) # 0
    BY <1>1, <2>1, FS_CardinalityType, FS_EmptySet
  <2> QED BY <1>2, <2>1, <2>2
<1>4. ids' = Append(ids, id)
  BY <1>3 DEF Remove, PushBack
<1>5. /\ ids' \in Seq(AllIds)
      /\ Len(ids') = Len(ids) + 1
      /\ DOMAIN ids' = 1 .. Len(ids) + 1
      /\ \A k \in DOMAIN ids : ids'[k] = ids[k]
      /\ ids'[Len(ids) + 1] = id
  BY <1>1, <1>2, <1>4, AppendProperties, LenProperties
<1>6. InUse' = InUse \ {id}
  BY DEF Remove, InUse
<1>7. FreeIds' = FreeIds \cup {id}
  <2>1. \A k \in DOMAIN ids' : k \in DOMAIN ids \/ k = Len(ids) + 1
    BY <1>2, <1>5
  <2>2. Len(ids) + 1 \in DOMAIN ids' /\ DOMAIN ids \subseteq DOMAIN ids'
    BY <1>2, <1>5
  <2> QED BY <1>5, <2>1, <2>2 DEF FreeIds
<1> QED BY <1>1, <1>2, <1>3, <1>5, <1>6, <1>7

LEMMA AddIInv ==
  ASSUME IInv, NEW val \in Vals, Add(val)
  PROVE  IInv'
<1> USE AddIds
<1>1. TypeOK'
  <2>1. id_map' \in [InUse' -> Vals]
    BY DEF IInv, TypeOK, Add, InUse
  <2> QED BY <2>1 DEF IInv, TypeOK, AllIds
<1>2. NoDuplicates'
  <2> SUFFICES ASSUME NEW j \in DOMAIN ids', NEW k \in DOMAIN ids',
                      ids'[j] = ids'[k]
               PROVE  j = k
    BY DEF NoDuplicates
  <2>1. /\ j \in Nat /\ k \in Nat
        /\ j + 1 \in DOMAIN ids /\ k + 1 \in DOMAIN ids
        /\ ids[j + 1] = ids[k + 1]
    OBVIOUS
  <2>2. j + 1 = k + 1
    BY <2>1 DEF IInv, Partition, NoDuplicates
  <2> QED BY <2>1, <2>2
<1>3. (FreeIds \cap InUse = {})' /\ (FreeIds \cup InUse = AllIds)'
  BY DEF IInv, Partition, AllIds
<1>4. Accounted'
  <2>1. /\ IsFiniteSet(InUse') 
        /\ Cardinality(InUse') = Cardinality(InUse) + 1
    BY FS_AddElement DEF IInv, Accounted
  <2>2. Cardinality(InUse) \in Nat
    BY FS_CardinalityType DEF IInv, Accounted
  <2> QED BY <2>1, <2>2, CapacityAssumption DEF IInv, Accounted
<1> QED BY <1>1, <1>2, <1>3, <1>4 DEF IInv, Partition

LEMMA RemoveIInv ==
  ASSUME IInv, NEW id, Remove(id)
  PROVE  IInv'
<1> USE RemoveIds
<1>1. TypeOK'
  <2>1. id_map' \in [InUse' -> Vals]
    BY DEF IInv, TypeOK, Remove, InUse
  <2> QED BY <2>1 DEF IInv, TypeOK, AllIds
<1>2. NoDuplicates'
  BY DEF IInv, Partition, NoDuplicates, FreeIds
<1>3. (FreeIds \cap InUse = {})' /\ (FreeIds \cup InUse = AllIds)'
  BY DEF IInv, Partition, AllIds
<1>4. Accounted'
  <2>1. /\ IsFiniteSet(InUse')
        /\ Cardinality(InUse') = Cardinality(InUse) - 1
    BY FS_RemoveElement DEF IInv, Accounted
  <2>2. Cardinality(InUse) \in Nat
    BY FS_CardinalityType DEF IInv, Accounted
  <2> QED BY <2>1, <2>2, CapacityAssumption DEF IInv, Accounted
<1> QED BY <1>1, <1>2, <1>3, <1>4 DEF IInv, Partition

LEMMA IdsNextIInv == IInv /\ [Next]_vars => IInv'
<1> SUFFICES ASSUME IInv, [Next]_vars PROVE IInv'
  OBVIOUS
<1>1. CASE \E val \in Vals : Add(val)
  BY <1>1, AddIInv
<1>2. CASE \E id \in AllIds : Remove(id)
  BY <1>2, RemoveIInv
<1>3. CASE \E val \in Vals : RemoveByVal(val)
  BY <1>3, RemoveIInv DEF RemoveByVal
<1>4. CASE UNCHANGED vars
  BY <1>4 DEF vars, IInv, TypeOK, Partition, Accounted, NoDuplicates,
              FreeIds, InUse, AllIds
<1> QED BY <1>1, <1>2, <1>3, <1>4 DEF Next

LEMMA IdsInvariance == Spec => []IInv
BY IdsInitIInv, IdsNextIInv, PTL DEF Spec

(***************************************************************************)
(* The table's variables keep their types, for every capacity.             *)
(***************************************************************************)
THEOREM IdsTypeCorrect == Spec => []TypeOK
BY IdsInvariance, PTL DEF IInv

(***************************************************************************)
(* No id is ever lost, doubled or both free and in use (idmanager.cpp).    *)
(***************************************************************************)
THEOREM NoIdLostOrDoubled == Spec => []Partition
BY IdsInvariance, PTL DEF IInv

-----------------------------------------------------------------------------
(***************************************************************************)
(* The queue against the quarantine: what is in front of each free id.     *)
(***************************************************************************)
LEMMA InitAhead == Init => Quarantine!Init
<1> SUFFICES ASSUME Init PROVE Quarantine!Init
  OBVIOUS
<1>1. /\ DOMAIN ids = 1 .. Capacity
      /\ \A k \in DOMAIN ids : ids[k] = k - 1
  BY DEF Init
<1>2. FreeIds = AllIds
  BY IdsInitIInv DEF IInv, Partition, Init, InUse
<1>3. ASSUME NEW i \in AllIds
      PROVE  Ahead(i) = {j \in AllIds : j < i}
  <2>1. ASSUME NEW x \in Ahead(i) PROVE x \in AllIds /\ x < i
    <3>1. PICK k \in DOMAIN ids, j \in DOMAIN ids :
             x = ids[k] /\ k < j /\ ids[j] = i
      BY <2>1 DEF Ahead
    <3> QED BY <1>1, <3>1, CapacityAssumption DEF AllIds
  <2>2. ASSUME NEW x \in AllIds, x < i PROVE x \in Ahead(i)
    <3>1. /\ x + 1 \in DOMAIN ids /\ i + 1 \in DOMAIN ids
          /\ ids[x + 1] = x /\ ids[i + 1] = i
          /\ x + 1 < i + 1
      BY <1>1, <2>2, CapacityAssumption DEF AllIds
    <3> QED BY <3>1 DEF Ahead
  <2> QED BY <2>1, <2>2
<1>4. [i \in FreeIds |-> Ahead(i)] = [i \in AllIds |-> {j \in AllIds : j < i}]
  BY <1>2, <1>3
<1> QED BY <1>4 DEF Init, Quarantine!Init

LEMMA AddAhead ==
  ASSUME IInv, NEW val \in Vals, Add(val)
  PROVE  /\ Ahead(NextId) = {}
         /\ \A i \in FreeIds' : Ahead(i)' = Ahead(i) \ {NextId}
<1> USE AddIds
<1>1. \A j, k \in DOMAIN ids : ids[j] = ids[k] => j = k
  BY DEF IInv, Partition, NoDuplicates
<1>2. Ahead(NextId) = {}
  <2>1. ASSUME NEW j \in DOMAIN ids, ids[j] = NextId PROVE j = 1
    BY <1>1, <2>1
  <2> QED BY <2>1 DEF Ahead
<1>3. ASSUME NEW i \in FreeIds'
      PROVE  Ahead(i)' = Ahead(i) \ {NextId}
  <2>1. ASSUME NEW x \in Ahead(i)' PROVE x \in Ahead(i) /\ x # NextId
    <3>1. PICK k \in DOMAIN ids', j \in DOMAIN ids' :
             x = ids'[k] /\ k < j /\ ids'[j] = i
      BY <2>1 DEF Ahead
    <3>2. /\ k + 1 \in DOMAIN ids /\ j + 1 \in DOMAIN ids
          /\ x = ids[k + 1] /\ k + 1 < j + 1 /\ ids[j + 1] = i
          /\ k + 1 # 1
      BY <3>1
    <3>3. x # NextId
      BY <1>1, <3>2
    <3> QED BY <3>2, <3>3 DEF Ahead
  <2>2. ASSUME NEW x \in Ahead(i), x # NextId PROVE x \in Ahead(i)'
    <3>1. PICK k \in DOMAIN ids, j \in DOMAIN ids :
             x = ids[k] /\ k < j /\ ids[j] = i
      BY <2>2 DEF Ahead
    <3>2. /\ k - 1 \in DOMAIN ids' /\ j - 1 \in DOMAIN ids'
          /\ k - 1 < j - 1
      BY <2>2, <3>1
    <3>3. /\ ids'[k - 1] = ids[(k - 1) + 1] /\ (k - 1) + 1 = k
          /\ ids'[j - 1] = ids[(j - 1) + 1] /\ (j - 1) + 1 = j
      <4>1. ids'[k - 1] = ids[(k - 1) + 1] /\ ids'[j - 1] = ids[(j - 1) + 1]
        BY <3>2
      <4> QED BY <4>1
    <3>4. ids'[k - 1] = x /\ ids'[j - 1] = i
      BY <3>1, <3>3
    <3> QED BY <3>2, <3>4 DEF Ahead
  <2> QED BY <2>1, <2>2
<1> QED BY <1>2, <1>3

LEMMA RemoveAhead ==
  ASSUME IInv, NEW id, Remove(id)
  PROVE  /\ Ahead(id)' = FreeIds
         /\ \A i \in FreeIds : Ahead(i)' = Ahead(i)
<1> USE RemoveIds
<1>1. ASSUME NEW j \in DOMAIN ids' PROVE j \in DOMAIN ids \/ j = Len(ids) + 1
  OBVIOUS
<1>2. Ahead(id)' = FreeIds
  <2>1. ASSUME NEW x \in Ahead(id)' PROVE x \in FreeIds
    <3>1. PICK k \in DOMAIN ids', j \in DOMAIN ids' :
             x = ids'[k] /\ k < j /\ ids'[j] = id
      BY <2>1 DEF Ahead
    <3>2. k \in DOMAIN ids
      BY <1>1, <3>1
    <3> QED BY <3>1, <3>2 DEF FreeIds
  <2>2. ASSUME NEW x \in FreeIds PROVE x \in Ahead(id)'
    <3>1. PICK k \in DOMAIN ids : x = ids[k]
      BY <2>2 DEF FreeIds
    <3>2. /\ k \in DOMAIN ids' /\ Len(ids) + 1 \in DOMAIN ids'
          /\ x = ids'[k] /\ k < Len(ids) + 1
      BY <3>1
    <3> QED BY <3>2 DEF Ahead
  <2> QED BY <2>1, <2>2
<1>3. ASSUME NEW i \in FreeIds PROVE Ahead(i)' = Ahead(i)
  <2>1. i # id
    BY <1>3
  <2>2. ASSUME NEW x \in Ahead(i)' PROVE x \in Ahead(i)
    <3>1. PICK k \in DOMAIN ids', j \in DOMAIN ids' :
             x = ids'[k] /\ k < j /\ ids'[j] = i
      BY <2>2 DEF Ahead
    <3>2. j \in DOMAIN ids /\ k \in DOMAIN ids
      BY <1>1, <2>1, <3>1
    <3> QED BY <3>1, <3>2 DEF Ahead
  <2>3. ASSUME NEW x \in Ahead(i) PROVE x \in Ahead(i)'
    <3>1. PICK k \in DOMAIN ids, j \in DOMAIN ids :
             x = ids[k] /\ k < j /\ ids[j] = i
      BY <2>3 DEF Ahead
    <3>2. k \in DOMAIN ids' /\ j \in DOMAIN ids'
      BY <3>1
    <3> QED BY <3>1, <3>2 DEF Ahead
  <2> QED BY <2>2, <2>3
<1> QED BY <1>2, <1>3

LEMMA AddAllocates ==
  ASSUME IInv, NEW val \in Vals, Add(val)
  PROVE  Quarantine!Next
<1> DEFINE before == [i \in FreeIds |-> Ahead(i)]
<1>1. NextId \in FreeIds
  BY AddIds DEF FreeIds
<1>2. id_map' = [j \in InUse \cup {NextId} |->
                    IF j = NextId THEN val ELSE id_map[j]]
  BY DEF Add
<1>3. before' = [j \in FreeIds \ {NextId} |-> before[j] \ {NextId}]
  BY AddIds, AddAhead
<1>4. Quarantine!Allocate(NextId, val)
  BY <1>1, <1>2, <1>3, AddAhead DEF Quarantine!Allocate, Quarantine!Free, InUse
<1> QED BY <1>1, <1>4 DEF Quarantine!Next, Quarantine!Free

LEMMA RemoveReleases ==
  ASSUME IInv, NEW id, Remove(id)
  PROVE  Quarantine!Next
<1> DEFINE before == [i \in FreeIds |-> Ahead(i)]
<1>1. id_map' = [j \in InUse \ {id} |-> id_map[j]]
  BY DEF Remove
<1>2. before' = [j \in FreeIds \cup {id} |->
                    IF j = id THEN FreeIds ELSE before[j]]
  BY RemoveIds, RemoveAhead
<1>3. Quarantine!Release(id)
  BY <1>1, <1>2 DEF Quarantine!Release, Quarantine!Free, InUse
<1> QED BY <1>3, RemoveIds DEF Quarantine!Next, InUse

LEMMA StepRefines == IInv /\ [Next]_vars => [Quarantine!Next]_(Quarantine!vars)
<1> SUFFICES ASSUME IInv, [Next]_vars
             PROVE  [Quarantine!Next]_(Quarantine!vars)
  OBVIOUS
<1>1. CASE \E val \in Vals : Add(val)
  BY <1>1, AddAllocates
<1>2. CASE \E id \in AllIds : Remove(id)
  BY <1>2, RemoveReleases
<1>3. CASE \E val \in Vals : RemoveByVal(val)
  BY <1>3, RemoveReleases DEF RemoveByVal
<1>4. CASE UNCHANGED vars
  <2>1. FreeIds' = FreeIds /\ \A i \in FreeIds : Ahead(i)' = Ahead(i)
    BY <1>4 DEF vars, FreeIds, Ahead
  <2> QED BY <1>4, <2>1 DEF vars, Quarantine!vars
<1> QED BY <1>1, <1>2, <1>3, <1>4 DEF Next

(***************************************************************************)
(* The id table implements the quarantine allocator: a released id comes   *)
(* back only after every id that was free when it was released.            *)
(***************************************************************************)
THEOREM IdsRefineQuarantine == Spec => ImplementsQuarantine
BY InitAhead, IdsInvariance, StepRefines, PTL
   DEF Spec, ImplementsQuarantine, Quarantine!Spec

-----------------------------------------------------------------------------
(***************************************************************************)
(* The answers, for calls of any length: the pending request is what it is *)
(* taken for, no request has two final responses, and respond answers the  *)
(* latest.                                                                 *)
(***************************************************************************)

AnsweringIInv == CallTyped /\ PendingMatches /\ OpenTransactions /\ AtMostOneFinal

ToldIInv == ClientTyped /\ ToldInOrder

LEMMA AnsweringInitIInv == AnsweringInit => AnsweringIInv
<1> SUFFICES ASSUME AnsweringInit PROVE AnsweringIInv
  OBVIOUS
<1>1. Latest = 0 /\ DOMAIN requests = {} /\ requests \in Seq(Requests)
  BY DEF AnsweringInit, Latest
<1>2. DOMAIN answers = {} /\ answers \in [{} -> Answer]
  BY DEF AnsweringInit
<1>3. CallTyped
  <2>1. answers \in [DOMAIN requests -> Answer]
    BY <1>1, <1>2
  <2>2. /\ invite_tsx \in 0 .. Latest
        /\ pending_rdata \in 0 .. Latest
        /\ sdp_for \in 0 .. Latest
    BY <1>1 DEF AnsweringInit, None
  <2> QED BY <1>1, <2>1, <2>2 DEF AnsweringInit, CallTyped
<1>4. PendingMatches /\ AtMostOneFinal
  BY <1>2 DEF AnsweringInit, PendingMatches, AtMostOneFinal
<1>5. OpenTransactions
  BY <1>1 DEF AnsweringInit, OpenTransactions, Alive
<1> QED BY <1>3, <1>4, <1>5 DEF AnsweringIInv

(***************************************************************************)
(* A new request is the latest, unanswered, and the others stay as they    *)
(* were.                                                                   *)
(***************************************************************************)
LEMMA ReceiveAppends ==
  ASSUME CallTyped, phase \in {"poll", "read"},
         NEW kind \in {"INVITE", "OTHER"}, NEW offer \in BOOLEAN, Receive(kind, offer)
  PROVE  /\ Latest \in Nat
         /\ Latest' = Latest + 1
         /\ requests' \in Seq(Requests)
         /\ DOMAIN requests = 1 .. Latest
         /\ DOMAIN answers = 1 .. Latest
         /\ DOMAIN requests' = 1 .. Latest + 1
         /\ answers' \in [DOMAIN requests' -> Answer]
         /\ requests'[Latest + 1].kind = kind /\ requests'[Latest + 1].during = phase
         /\ answers'[Latest + 1].finals = 0
         /\ \A r \in 1 .. Latest : /\ requests'[r] = requests[r]
                                   /\ answers'[r] = answers[r]
<1>1. /\ requests \in Seq(Requests)
      /\ Latest \in Nat
      /\ DOMAIN requests = 1 .. Latest
  BY LenProperties DEF CallTyped, Latest
<1>2. answers \in [1 .. Latest -> Answer]
  BY <1>1 DEF CallTyped, Answer
<1>3. answers \in Seq(Answer) /\ Len(answers) = Latest
  BY <1>1, <1>2
<1>4. [kind |-> kind, offer |-> offer, during |-> phase] \in Requests /\ Unanswered \in Answer
  BY DEF Requests, Unanswered, Answer, None
<1>5. /\ requests' = Append(requests, [kind |-> kind, offer |-> offer, during |-> phase])
      /\ answers' = Append(answers, Unanswered)
  BY DEF Receive
<1>6. /\ requests' \in Seq(Requests) /\ Len(requests') = Latest + 1
      /\ answers' \in Seq(Answer) /\ Len(answers') = Latest + 1
      /\ \A r \in 1 .. Latest : requests'[r] = requests[r] /\ answers'[r] = answers[r]
      /\ requests'[Latest + 1] = [kind |-> kind, offer |-> offer, during |-> phase]
      /\ answers'[Latest + 1] = Unanswered
  BY <1>1, <1>3, <1>4, <1>5, AppendProperties DEF Latest
<1>7. DOMAIN requests' = 1 .. Latest + 1 /\ answers' \in [1 .. Latest + 1 -> Answer]
  BY <1>6, LenProperties
<1> QED BY <1>1, <1>2, <1>6, <1>7 DEF Latest, Unanswered

LEMMA SendCounts ==
  ASSUME AnsweringIInv, NEW r \in 1 .. Latest, NEW code, NEW made_for \in Nat,
         answers[r].finals = 0, Send(r, code, made_for)
  PROVE  /\ answers' \in [DOMAIN requests -> Answer]
         /\ answers'[r].finals = (IF Final(code) THEN 1 ELSE 0)
         /\ \A q \in 1 .. Latest : q # r => answers'[q] = answers[q]
<1>1. /\ Latest \in Nat
      /\ DOMAIN requests = 1 .. Latest
  BY LenProperties DEF AnsweringIInv, CallTyped, Latest
<1>2. answers \in [1 .. Latest -> Answer]
  BY <1>1 DEF AnsweringIInv, CallTyped, Answer
<1>3. answers[r] \in Answer
  BY <1>2
<1>4. answers' = [answers EXCEPT ![r] = Answered(answers[r], code, made_for)]
  BY DEF Send
<1>5. Answered(answers[r], code, made_for) \in Answer
  BY <1>3 DEF Answered, Answer
<1> QED BY <1>1, <1>2, <1>4, <1>5 DEF Answered

LEMMA ReceiveKeepsOld ==
  ASSUME AnsweringIInv, phase \in {"poll", "read"},
         NEW kind \in {"INVITE", "OTHER"}, NEW offer \in BOOLEAN, Receive(kind, offer)
  PROVE  /\ Latest \in Nat /\ Latest' = Latest + 1
         /\ AtMostOneFinal'
         /\ requests'[Latest'].kind = kind /\ answers'[Latest'].finals = 0
         /\ requests' \in Seq(Requests) /\ answers' \in [DOMAIN requests' -> Answer]
         /\ \A r \in 1 .. Latest : requests'[r] = requests[r] /\ answers'[r] = answers[r]
         /\ requests'[Latest'].during = phase /\ waiting' = waiting
<1>1. CallTyped
  BY DEF AnsweringIInv
<1>2. AtMostOneFinal'
  <2> SUFFICES ASSUME NEW r \in DOMAIN answers' PROVE answers'[r].finals <= 1
    BY DEF AtMostOneFinal
  <2>1. r \in 1 .. Latest \/ r = Latest + 1
    BY <1>1, ReceiveAppends
  <2>2. r \in 1 .. Latest => answers[r].finals <= 1
    BY <1>1, ReceiveAppends DEF AnsweringIInv, AtMostOneFinal
  <2> QED BY <1>1, <2>1, <2>2, ReceiveAppends
<1> QED BY <1>1, <1>2, ReceiveAppends DEF Receive

LEMMA RxIInv ==
  ASSUME AnsweringIInv, phase \in {"poll", "read"},
         \/ \E offer \in BOOLEAN : RxInvite(offer) \/ RxReinvite(offer)
         \/ RxInDialog
  PROVE  AnsweringIInv'
<1>1. CASE \E offer \in BOOLEAN : RxInvite(offer) \/ RxReinvite(offer)
  <2>1. PICK offer \in BOOLEAN : RxInvite(offer) \/ RxReinvite(offer)
    BY <1>1
  <2>2. /\ Receive("INVITE", offer)
        /\ ProcessInvite(Latest + 1)
        /\ invite_tsx' = Latest + 1
        /\ UNCHANGED <<local_sdp_answer_already_set, sdp_for>>
        /\ inv_state' \in {"INCOMING", "CONFIRMED"}
    BY <2>1 DEF RxInvite, RxReinvite
  <2>3. /\ Latest \in Nat /\ Latest' = Latest + 1
        /\ AtMostOneFinal'
        /\ requests'[Latest'].kind = "INVITE" /\ answers'[Latest'].finals = 0
        /\ waiting' = waiting
        /\ requests' \in Seq(Requests) /\ answers' \in [DOMAIN requests' -> Answer]
    BY <2>2, ReceiveKeepsOld
  <2>4. /\ pending_rdata' = Latest' /\ pending_request' = "INVITE"
        /\ invite_tsx' = Latest' /\ Latest' \in Nat \ {0}
        /\ inv_initial_answer_required' \in BOOLEAN
    BY <2>2, <2>3 DEF ProcessInvite
  <2>5. CallTyped'
    <3>1. sdp_for' \in 0 .. Latest' /\ waiting' \in 0 .. Latest' /\ local_sdp_answer_already_set' \in BOOLEAN
      BY <2>2, <2>3 DEF AnsweringIInv, CallTyped
    <3> QED BY <2>2, <2>3, <2>4, <3>1 DEF CallTyped
  <2>6. PendingMatches'
    BY <2>3, <2>4 DEF PendingMatches, None
  <2>7. OpenTransactions'
    BY <2>3, <2>4 DEF OpenTransactions, None
  <2> QED BY <2>3, <2>5, <2>6, <2>7 DEF AnsweringIInv
<1>2. CASE RxInDialog
  <2>1. /\ Receive("OTHER", FALSE)
        /\ pending_rdata' = Latest + 1 /\ pending_request' = "OTHER"
        /\ UNCHANGED <<inv_state, invite_tsx, inv_initial_answer_required,
                       local_sdp_answer_already_set, sdp_for>>
    BY <1>2 DEF RxInDialog
  <2>2. /\ Latest \in Nat /\ Latest' = Latest + 1
        /\ AtMostOneFinal'
        /\ requests'[Latest'].kind = "OTHER" /\ answers'[Latest'].finals = 0
        /\ waiting' = waiting
        /\ requests' \in Seq(Requests) /\ answers' \in [DOMAIN requests' -> Answer]
        /\ \A r \in 1 .. Latest : requests'[r] = requests[r] /\ answers'[r] = answers[r]
    BY <2>1, ReceiveKeepsOld
  <2>3. CallTyped'
    <3>1. /\ invite_tsx' \in 0 .. Latest' /\ sdp_for' \in 0 .. Latest'
          /\ pending_rdata' \in 0 .. Latest' /\ waiting' \in 0 .. Latest'
      BY <2>1, <2>2 DEF AnsweringIInv, CallTyped
    <3> QED BY <2>1, <2>2, <3>1 DEF AnsweringIInv, CallTyped
  <2>4. PendingMatches'
    BY <2>1, <2>2 DEF PendingMatches, None
  <2>5. OpenTransactions'
    <3>1. invite_tsx # 0 => /\ invite_tsx \in 1 .. Latest
                            /\ requests[invite_tsx].kind = "INVITE"
                            /\ answers[invite_tsx].finals = 0
      BY DEF AnsweringIInv, CallTyped, OpenTransactions, None
    <3> QED BY <2>1, <2>2, <3>1 DEF OpenTransactions, None
  <2> QED BY <2>2, <2>3, <2>4, <2>5 DEF AnsweringIInv
<1> QED BY <1>1, <1>2

LEMMA RespondOtherIInv ==
  ASSUME AnsweringIInv, NEW code \in Codes, RespondOther(code)
  PROVE  AnsweringIInv'
<1>1. /\ pending_request = "OTHER"
      /\ pending_rdata \in 1 .. Latest
      /\ requests[pending_rdata].kind = "OTHER"
      /\ answers[pending_rdata].finals = 0
      /\ Send(pending_rdata, code, 0)
      /\ UNCHANGED <<waiting, inv_state, invite_tsx, inv_initial_answer_required,
                     local_sdp_answer_already_set, sdp_for, requests>>
      /\ \/ ~Final(code) /\ UNCHANGED <<pending_rdata, pending_request>>
         \/ Final(code) /\ pending_rdata' = 0 /\ pending_request' = "NONE"
  BY DEF RespondOther, OtherPending, AnsweringIInv, CallTyped, PendingMatches,
         OpenTransactions, None,
         ForgetPending, KeepPending
<1>2. /\ answers' \in [DOMAIN requests -> Answer]
      /\ answers'[pending_rdata].finals = (IF Final(code) THEN 1 ELSE 0)
      /\ \A q \in 1 .. Latest : q # pending_rdata => answers'[q] = answers[q]
  BY <1>1, SendCounts
<1>3. /\ Latest \in Nat
      /\ Latest' = Latest
      /\ DOMAIN requests = 1 .. Latest
      /\ DOMAIN answers = 1 .. Latest
  BY <1>1, LenProperties DEF Latest, AnsweringIInv, CallTyped
<1>4. CallTyped'
  <2>1. answers' \in [DOMAIN requests' -> Answer] /\ requests' \in Seq(Requests)
    BY <1>1, <1>2 DEF AnsweringIInv, CallTyped
  <2>2. pending_rdata' \in 0 .. Latest' /\ pending_request' \in {"NONE", "OTHER"}
    BY <1>1, <1>3 DEF AnsweringIInv, CallTyped
  <2>3. /\ invite_tsx' \in 0 .. Latest' /\ sdp_for' \in 0 .. Latest'
        /\ waiting' \in 0 .. Latest'
        /\ inv_initial_answer_required' \in BOOLEAN
        /\ local_sdp_answer_already_set' \in BOOLEAN
        /\ inv_state' \in {"NULL", "INCOMING", "CONFIRMED", "DISCONNECTED"}
    BY <1>1, <1>3 DEF AnsweringIInv, CallTyped
  <2> QED BY <2>1, <2>2, <2>3 DEF CallTyped
<1>5. PendingMatches'
  BY <1>1 DEF AnsweringIInv, PendingMatches, None
<1>6. OpenTransactions'
  <2>1. invite_tsx # 0 => /\ invite_tsx \in 1 .. Latest
                          /\ invite_tsx # pending_rdata
                          /\ requests[invite_tsx].kind = "INVITE"
                          /\ answers[invite_tsx].finals = 0
    BY <1>1 DEF AnsweringIInv, CallTyped, OpenTransactions, None
  <2> QED BY <1>1, <1>2, <1>3, <2>1 DEF AnsweringIInv, OpenTransactions, None
<1>7. AtMostOneFinal'
  BY <1>1, <1>2, <1>3 DEF AnsweringIInv, AtMostOneFinal
<1> QED BY <1>4, <1>5, <1>6, <1>7 DEF AnsweringIInv

LEMMA MediaType ==
  ASSUME AnsweringIInv, NEW code \in Codes
  PROVE  /\ MediaDone(code).sdp_for \in 0 .. Latest
         /\ MediaDone(code).already_set \in BOOLEAN
BY DEF AnsweringIInv, CallTyped, MediaDone, MakesSdp, PeerOffers, CarriesSdp, Found

\* Whatever builds the answer, it goes to a request that had no final yet.
LEMMA TargetOpen ==
  ASSUME AnsweringIInv, Alive, Target # None
  PROVE  Target \in 1 .. Latest /\ answers[Target].finals = 0
<1>1. CASE inv_initial_answer_required
  <2>1. Target = pending_rdata /\ pending_request \in {"INVITE", "OTHER"}
    BY <1>1 DEF AnsweringIInv, CallTyped, PendingMatches, Target
  <2> QED BY <1>1, <2>1 DEF AnsweringIInv, CallTyped, OpenTransactions, None
<1>2. CASE ~inv_initial_answer_required
  BY <1>2 DEF AnsweringIInv, CallTyped, OpenTransactions, Target, None
<1> QED BY <1>1, <1>2

LEMMA RespondInviteIInv ==
  ASSUME AnsweringIInv, ToldInOrder, NEW code \in Codes, RespondInvite(code)
  PROVE  AnsweringIInv'
<1>1. /\ Alive /\ Target # None
      /\ sdp_for' = MediaDone(code).sdp_for
      /\ Send(Target, code, sdp_for')
      /\ inv_initial_answer_required' = FALSE
      /\ local_sdp_answer_already_set' \in BOOLEAN
      /\ \/ /\ code = "2xx" /\ pending_rdata' = 0 /\ pending_request' = "NONE"
         \/ /\ code # "2xx" /\ UNCHANGED <<pending_rdata, pending_request>>
      /\ invite_tsx' = (IF Final(code) THEN 0 ELSE invite_tsx)
      /\ requests' = requests /\ waiting' = 0
      /\ inv_state' \in {"NULL", "INCOMING", "CONFIRMED", "DISCONNECTED"}
  BY MediaType DEF RespondInvite, AfterMedia, ForgetPending, KeepPending, None,
                   AnsweringIInv, CallTyped
<1>2. /\ Target \in 1 .. Latest /\ answers[Target].finals = 0
      /\ invite_tsx # 0 => /\ invite_tsx \in 1 .. Latest /\ requests[invite_tsx].kind = "INVITE"
                           /\ answers[invite_tsx].finals = 0
  BY <1>1, TargetOpen DEF AnsweringIInv, CallTyped, OpenTransactions, None
<1>3. sdp_for' \in 0 .. Latest
  BY <1>1, MediaType
<1>4. /\ answers' \in [DOMAIN requests -> Answer]
      /\ answers'[Target].finals = (IF Final(code) THEN 1 ELSE 0)
      /\ \A q \in 1 .. Latest : q # Target => answers'[q] = answers[q]
  BY <1>1, <1>2, <1>3, SendCounts
<1>5. /\ Latest \in Nat
      /\ Latest' = Latest
      /\ DOMAIN requests = 1 .. Latest
      /\ DOMAIN answers = 1 .. Latest
  BY <1>1, LenProperties DEF Latest, AnsweringIInv, CallTyped
<1>6. CallTyped'
  <2>1. answers' \in [DOMAIN requests' -> Answer] /\ requests' \in Seq(Requests)
    BY <1>1, <1>4 DEF AnsweringIInv, CallTyped
  <2>2. /\ pending_rdata' \in 0 .. Latest' /\ invite_tsx' \in 0 .. Latest'
        /\ sdp_for' \in 0 .. Latest' /\ waiting' \in 0 .. Latest'
        /\ pending_request' \in {"NONE", "INVITE", "OTHER"}
    BY <1>1, <1>3, <1>5 DEF AnsweringIInv, CallTyped
  <2> QED BY <1>1, <2>1, <2>2 DEF CallTyped
<1>7. PendingMatches'
  BY <1>1 DEF AnsweringIInv, PendingMatches, None
<1>8. OpenTransactions'
  <2>1. invite_tsx' # 0 => /\ requests'[invite_tsx'].kind = "INVITE"
                           /\ answers'[invite_tsx'].finals = 0
    BY <1>1, <1>2, <1>4, <1>5
  <2>2. pending_request' = "OTHER" => answers'[pending_rdata'].finals = 0
    <3> SUFFICES ASSUME pending_request' = "OTHER" PROVE answers'[pending_rdata'].finals = 0
      OBVIOUS
    <3>1. code # "2xx" /\ pending_request = "OTHER" /\ pending_rdata' = pending_rdata
      BY <1>1
    <3>2. ~Final(code)
      <4>1. waiting # None /\ Head(commands).does = code
        BY <3>1 DEF RespondInvite, AfterMedia, Executes
      <4> QED BY <3>1, <4>1 DEF ToldInOrder, CarriesSdp, Final
    <3>3. pending_rdata \in 1 .. Latest /\ answers[pending_rdata].finals = 0
      BY <3>1 DEF AnsweringIInv, CallTyped, PendingMatches, OpenTransactions, None
    <3> QED BY <1>4, <3>1, <3>2, <3>3
  <2>3. pending_rdata' \in {0, Latest'}
    BY <1>1, <1>5 DEF AnsweringIInv, OpenTransactions, None
  <2>4. Alive' /\ pending_request' = "INVITE" => invite_tsx' \in {0, pending_rdata'}
    BY <1>1 DEF AnsweringIInv, OpenTransactions, None
  <2> QED BY <1>1, <2>1, <2>2, <2>3, <2>4 DEF OpenTransactions, None
<1>9. AtMostOneFinal'
  BY <1>1, <1>2, <1>4, <1>5 DEF AnsweringIInv, AtMostOneFinal
<1> QED BY <1>6, <1>7, <1>8, <1>9 DEF AnsweringIInv

LEMMA RespondUnsentIInv ==
  ASSUME AnsweringIInv, NEW code \in Codes,
         RespondRefused(code) \/ RespondNotSent(code) \/ RespondInVain(code)
                              \/ RespondWaits(code)
  PROVE  AnsweringIInv'
<1>1. /\ sdp_for' \in {MediaDone(code).sdp_for, sdp_for}
      /\ waiting' \in {0, pending_rdata}
      /\ inv_initial_answer_required' \in {FALSE, inv_initial_answer_required}
      /\ local_sdp_answer_already_set'
           \in {MediaDone(code).already_set, local_sdp_answer_already_set}
      /\ \/ pending_rdata' = 0 /\ pending_request' = "NONE"
         \/ UNCHANGED <<pending_rdata, pending_request>>
      /\ UNCHANGED <<inv_state, invite_tsx, requests, answers>>
  BY DEF RespondRefused, RespondNotSent, RespondInVain, RespondWaits, AfterMedia,
         ForgetPending, KeepPending, None
<1>2. Latest' = Latest
  BY <1>1 DEF Latest
<1>3. CallTyped'
  <2>1. answers' \in [DOMAIN requests' -> Answer] /\ requests' \in Seq(Requests)
    BY <1>1 DEF AnsweringIInv, CallTyped
  <2>2. /\ pending_rdata' \in 0 .. Latest' /\ invite_tsx' \in 0 .. Latest'
        /\ waiting' \in 0 .. Latest'
        /\ pending_request' \in {"NONE", "INVITE", "OTHER"}
        /\ inv_state' \in {"NULL", "INCOMING", "CONFIRMED", "DISCONNECTED"}
    BY <1>1, <1>2, LenProperties DEF AnsweringIInv, CallTyped, Latest
  <2>3. sdp_for' \in 0 .. Latest' /\ local_sdp_answer_already_set' \in BOOLEAN
    BY <1>1, <1>2, MediaType DEF AnsweringIInv, CallTyped
  <2>4. inv_initial_answer_required' \in BOOLEAN
    BY <1>1 DEF AnsweringIInv, CallTyped
  <2> QED BY <2>1, <2>2, <2>3, <2>4 DEF CallTyped
<1>4. PendingMatches' /\ AtMostOneFinal'
  BY <1>1 DEF AnsweringIInv, PendingMatches, AtMostOneFinal, None
<1>5. OpenTransactions'
  <2>1. OpenTransactions /\ inv_initial_answer_required \in BOOLEAN
    BY DEF AnsweringIInv, CallTyped
  <2>2. pending_request' = "OTHER" => /\ pending_request = "OTHER"
                                      /\ pending_rdata' = pending_rdata
    BY <1>1
  <2>3. Alive' /\ pending_request' = "INVITE" =>
          /\ Alive /\ pending_request = "INVITE" /\ pending_rdata' = pending_rdata
          /\ inv_initial_answer_required' => inv_initial_answer_required
    BY <1>1 DEF Alive
  <2> QED BY <1>1, <1>2, <2>1, <2>2, <2>3 DEF OpenTransactions, None
<1> QED BY <1>3, <1>4, <1>5 DEF AnsweringIInv

LEMMA EndIInv ==
  ASSUME AnsweringIInv, Terminate \/ Disconnect
  PROVE  AnsweringIInv'
<1>1. CASE Terminate
  <2>1. CASE inv_state = "INCOMING" /\ invite_tsx # None
    <3>1. Send(invite_tsx, "3xx+", 0) /\ invite_tsx \in 1 .. Latest
          /\ answers[invite_tsx].finals = 0
      BY <1>1, <2>1 DEF Terminate, AnsweringIInv, CallTyped, OpenTransactions, None
    <3>2. /\ answers' \in [DOMAIN requests -> Answer]
          /\ answers'[invite_tsx].finals = 1
          /\ \A q \in 1 .. Latest : q # invite_tsx => answers'[q] = answers[q]
      BY <3>1, SendCounts DEF Final
    <3>3. /\ Latest \in Nat /\ Latest' = Latest
          /\ DOMAIN requests = 1 .. Latest /\ DOMAIN answers = 1 .. Latest
      BY <1>1, LenProperties DEF Latest, AnsweringIInv, CallTyped, Terminate
    <3>4. AtMostOneFinal'
      BY <3>1, <3>2, <3>3 DEF AnsweringIInv, AtMostOneFinal
    <3>5. CallTyped' /\ PendingMatches'
      <4>1. /\ UNCHANGED <<waiting, pending_request, pending_rdata, sdp_for, requests,
                           inv_initial_answer_required,
                           local_sdp_answer_already_set>>
            /\ inv_state' = "DISCONNECTED" /\ invite_tsx' = 0
        BY <1>1 DEF Terminate, None
      <4>2. answers' \in [DOMAIN requests' -> Answer] /\ requests' \in Seq(Requests)
        BY <3>2, <4>1 DEF AnsweringIInv, CallTyped
      <4>3. invite_tsx' \in 0 .. Latest'
        BY <3>1, <3>3, <4>1
      <4> QED BY <3>3, <4>1, <4>2, <4>3 DEF AnsweringIInv, CallTyped, PendingMatches,
                                            None
    <3>6. OpenTransactions'
      <4>1. pending_request = "OTHER" =>
              pending_rdata \in 1 .. Latest /\ pending_rdata # invite_tsx
        BY <3>1 DEF AnsweringIInv, CallTyped, PendingMatches, OpenTransactions, None
      <4> QED BY <1>1, <3>2, <3>3, <4>1
              DEF Terminate, AnsweringIInv, OpenTransactions, Alive, None
    <3> QED BY <3>4, <3>5, <3>6 DEF AnsweringIInv
  <2>2. CASE ~(inv_state = "INCOMING" /\ invite_tsx # None)
    BY <1>1, <2>2 DEF Terminate, AnsweringIInv, CallTyped, PendingMatches,
                      OpenTransactions,
                      AtMostOneFinal, Alive, Latest, None
  <2> QED BY <2>1, <2>2
<1>2. CASE Disconnect
  BY <1>2 DEF Disconnect, AnsweringIInv, CallTyped, PendingMatches, OpenTransactions,
              AtMostOneFinal, Alive, Latest
<1> QED BY <1>1, <1>2

LEMMA AnsweringNextIInv ==
  AnsweringIInv /\ ToldIInv /\ [AnsweringNext]_answering_vars => AnsweringIInv'
<1> SUFFICES ASSUME AnsweringIInv, ToldIInv, [AnsweringNext]_answering_vars
             PROVE  AnsweringIInv'
  OBVIOUS
<1>0. phase \in {"poll", "read"} /\ ToldInOrder
  BY DEF ToldIInv, ClientTyped
<1>1. CASE UNCHANGED call_vars
  BY <1>1 DEF call_vars, AnsweringIInv, CallTyped, PendingMatches,
              OpenTransactions, AtMostOneFinal,
              Alive, Latest
<1>2. CASE \E code \in Codes : RespondWaits(code) \/ Respond(code)
  BY <1>0, <1>2, RespondOtherIInv, RespondInviteIInv, RespondUnsentIInv DEF Respond
<1>3. CASE \/ \E offer \in BOOLEAN : RxInvite(offer) \/ RxReinvite(offer)
           \/ RxInDialog
  BY <1>0, <1>3, RxIInv
<1>4. CASE Terminate \/ Disconnect
  BY <1>4, EndIInv
<1>5. CASE Tell \/ StartRead \/ EndRead \/ Hear \/ Write \/ TerminateLater
  BY <1>1, <1>5 DEF Tell, StartRead, EndRead, Hear, Write, TerminateLater
<1>6. CASE UNCHANGED answering_vars
  BY <1>1, <1>6 DEF answering_vars
<1> QED BY <1>2, <1>3, <1>4, <1>5, <1>6 DEF AnsweringNext

LEMMA ToldInit == AnsweringInit => ToldIInv
BY DEF AnsweringInit, ToldIInv, ClientTyped, ToldInOrder, Latest, None

\* A step that leaves the client's side and the respond that waits, and adds requests of
\* this phase only.
LEMMA ToldKept ==
  ASSUME AnsweringIInv, ToldIInv, UNCHANGED <<client_vars, waiting>>,
         Latest' \in {Latest, Latest + 1},
         \A r \in 1 .. Latest : requests'[r] = requests[r],
         Latest' = Latest + 1 => requests'[Latest'].during = phase,
         invite_tsx' \in {invite_tsx, Latest'}
  PROVE  ToldIInv'
<1>1. Latest \in Nat
  BY LenProperties DEF Latest, AnsweringIInv, CallTyped
<1>2. ClientTyped'
  BY <1>1 DEF ToldIInv, ClientTyped, client_vars
<1>3. /\ told \in 0 .. Latest /\ waiting \in 0 .. Latest /\ invite_tsx \in 0 .. Latest
      /\ UNCHANGED <<phase, told, heard, commands, waiting>>
  BY DEF ToldIInv, ClientTyped, AnsweringIInv, CallTyped, client_vars
<1>4. phase = "read" => \A r \in told + 1 .. Latest' : Untold(r)'
  <2> SUFFICES ASSUME phase = "read", NEW r \in told + 1 .. Latest'
               PROVE  r > told' /\ requests'[r].during = "read"
    BY DEF Untold
  <2>1. CASE r \in told + 1 .. Latest
    <3>1. Untold(r) /\ r \in 1 .. Latest
      BY <1>1, <1>3, <2>1 DEF ToldIInv, ToldInOrder
    <3> QED BY <1>3, <3>1 DEF Untold
  <2>2. CASE r = Latest + 1 /\ Latest' = Latest + 1
    BY <1>1, <1>3, <2>2
  <2> QED BY <1>1, <1>3, <2>1, <2>2
<1>5. waiting # None /\ invite_tsx' # None => waiting <= invite_tsx'
  BY <1>1, <1>3 DEF ToldIInv, ToldInOrder, None
<1> QED BY <1>2, <1>3, <1>4, <1>5 DEF ToldIInv, ToldInOrder

\* A command is executed: it is taken off, and no respond waits behind it.
LEMMA ToldExecuted ==
  ASSUME AnsweringIInv, ToldIInv, NEW does, Executes(does), waiting' = None,
         UNCHANGED requests
  PROVE  ToldIInv'
<1>1. /\ commands' = Tail(commands) /\ commands # <<>> /\ commands \in Seq(Commands)
      /\ UNCHANGED <<phase, told, heard>>
  BY DEF Executes, ToldIInv, ClientTyped
<1>2. /\ commands' \in Seq(Commands) /\ Len(commands) \in Nat \ {0}
      /\ Len(commands') = Len(commands) - 1
      /\ \A n \in 1 .. Len(commands) - 1 : commands'[n] = commands[n + 1]
  BY <1>1, HeadTailProperties
<1>3. DOMAIN commands = 1 .. Len(commands) /\ DOMAIN commands' = 1 .. Len(commands) - 1
  BY <1>1, <1>2, LenProperties
<1>4. \A n \in DOMAIN commands' : commands'[n].meant <= heard
  BY <1>2, <1>3 DEF ToldIInv, ToldInOrder
<1>5. \A r : Untold(r)' = Untold(r)
  BY <1>1 DEF Untold
<1> QED BY <1>1, <1>2, <1>4, <1>5 DEF ToldIInv, ClientTyped, ToldInOrder, Latest

LEMMA ToldNext ==
  AnsweringIInv /\ ToldIInv /\ [AnsweringNext]_answering_vars => ToldIInv'
<1> SUFFICES ASSUME AnsweringIInv, ToldIInv, [AnsweringNext]_answering_vars
             PROVE  ToldIInv'
  OBVIOUS
<1>0. /\ Latest \in Nat /\ phase \in {"poll", "read"} /\ told \in 0 .. Latest
      /\ heard \in 0 .. told /\ commands \in Seq(Commands)
      /\ phase = "poll" => waiting = None
  BY LenProperties DEF ToldIInv, ToldInOrder, ClientTyped, AnsweringIInv, CallTyped, Latest
<1>1. ASSUME NEW kind \in {"INVITE", "OTHER"}, NEW offer \in BOOLEAN, Receive(kind, offer),
             invite_tsx' \in {invite_tsx, Latest + 1}
      PROVE  ToldIInv'
  <2>1. /\ Latest' = Latest + 1 /\ requests'[Latest'].during = phase
        /\ \A r \in 1 .. Latest : requests'[r] = requests[r]
    BY <1>0, <1>1, ReceiveKeepsOld
  <2> QED BY <1>1, <2>1, ToldKept DEF Receive
<1>2. CASE \/ \E offer \in BOOLEAN : RxInvite(offer) \/ RxReinvite(offer)
           \/ RxInDialog
  BY <1>1, <1>2 DEF RxInvite, RxReinvite, RxInDialog
<1>3. CASE Tell
  BY <1>0, <1>3 DEF Tell, call_vars, ToldIInv, ClientTyped, ToldInOrder, Latest
<1>4. CASE StartRead
  BY <1>0, <1>4 DEF StartRead, Read, call_vars, ToldIInv, ClientTyped, ToldInOrder, Latest
<1>5. CASE EndRead
  BY <1>0, <1>5 DEF EndRead, call_vars, ToldIInv, ClientTyped, ToldInOrder, Latest
<1>6. CASE Hear
  <2>1. \A r : Untold(r)' = Untold(r)
    BY <1>6 DEF Hear, call_vars, Untold
  <2>2. \A n \in DOMAIN commands : commands[n].meant <= heard'
    <3>1. \A n \in DOMAIN commands : commands[n] \in Commands
      BY <1>0
    <3> QED BY <1>0, <1>6, <3>1 DEF Hear, ToldIInv, ToldInOrder, Commands
  <2> QED BY <1>0, <1>6, <2>1, <2>2
          DEF Hear, call_vars, ToldIInv, ClientTyped, ToldInOrder, Latest
<1>7. CASE Write
  <2>1. PICK does \in Codes \cup {"terminate"} :
           commands' = Append(commands, [does |-> does, meant |-> heard])
    BY <1>7 DEF Write
  <2>0. told \in 0 .. Latest /\ heard \in 0 .. told /\ Latest \in Nat
    BY <1>0, LenProperties DEF CallTyped, Latest
  <2>2. PICK c \in Commands : c = [does |-> does, meant |-> heard]
    <3>1. heard \in Nat
      BY <2>0
    <3>2. [does |-> does, meant |-> heard] \in Commands
      BY <3>1 DEF Commands
    <3> QED BY <3>2
  <2>3. /\ commands' = Append(commands, c) /\ c.meant = heard
        /\ UNCHANGED <<phase, told, heard, call_vars>>
    BY <1>7, <2>1, <2>2 DEF Write
  <2>4. /\ commands' \in Seq(Commands) /\ Len(commands) \in Nat
        /\ Len(commands') = Len(commands) + 1 /\ commands'[Len(commands) + 1] = c
        /\ \A n \in 1 .. Len(commands) : commands'[n] = commands[n]
    BY <1>0, <2>3, AppendProperties
  <2>5. DOMAIN commands = 1 .. Len(commands) /\ DOMAIN commands' = 1 .. Len(commands) + 1
    BY <2>4, LenProperties
  <2>6. \A n \in DOMAIN commands' : commands'[n].meant <= heard
    BY <1>0, <2>3, <2>4, <2>5 DEF ToldIInv, ToldInOrder
  <2>7. commands # <<>> => commands' # <<>> /\ Head(commands') = Head(commands)
    BY <1>0, <2>4
  <2>8. \A r : Untold(r)' = Untold(r)
    BY <2>3 DEF call_vars, Untold
  <2> QED BY <1>0, <2>3, <2>4, <2>6, <2>7, <2>8
          DEF call_vars, ToldIInv, ClientTyped, ToldInOrder, Latest
<1>8. CASE \E code \in Codes : RespondWaits(code)
  <2>1. PICK code \in Codes : RespondWaits(code)
    BY <1>8
  <2>2. /\ phase = "read" /\ commands # <<>> /\ CarriesSdp(Head(commands).does)
        /\ waiting' = pending_rdata /\ UNCHANGED <<client_vars, requests, invite_tsx>>
    BY <2>1 DEF RespondWaits, MakesSdp
  <2>3. pending_rdata = Latest /\ invite_tsx \in {None, Latest}
    BY <2>1 DEF RespondWaits, AnsweringIInv, PendingMatches, OpenTransactions
  <2>4. \A r : Untold(r)' = Untold(r)
    BY <2>2 DEF client_vars, Untold
  <2> QED BY <1>0, <2>2, <2>3, <2>4
          DEF client_vars, ToldIInv, ClientTyped, ToldInOrder, Latest
<1>9. CASE \E code \in Codes : Respond(code)
  <2>1. PICK code \in Codes : Respond(code)
    BY <1>9
  <2>2. Executes(code) /\ waiting' = None /\ UNCHANGED requests
    BY <2>1 DEF Respond, RespondOther, OtherPending, RespondInvite, RespondRefused,
                RespondNotSent, RespondInVain, AfterMedia
  <2> QED BY <2>2, ToldExecuted
<1>10. CASE Terminate \/ TerminateLater
  <2>1. Executes("terminate") /\ UNCHANGED <<waiting, requests>>
    BY <1>10 DEF Terminate, TerminateLater, call_vars
  <2>2. waiting = None
    BY <2>1 DEF Executes, ToldIInv, ToldInOrder, CarriesSdp
  <2> QED BY <2>1, <2>2, ToldExecuted
<1>11. CASE Disconnect
  BY <1>11, ToldKept DEF Disconnect, Latest
<1>12. CASE UNCHANGED answering_vars
  BY <1>12, ToldKept DEF answering_vars, call_vars, Latest
<1> QED BY <1>2, <1>3, <1>4, <1>5, <1>6, <1>7, <1>8, <1>9, <1>10, <1>11, <1>12
        DEF AnsweringNext

LEMMA AnsweringInvariance == AnsweringSpec => [](AnsweringIInv /\ ToldIInv)
BY AnsweringInitIInv, AnsweringNextIInv, ToldInit, ToldNext, PTL DEF AnsweringSpec

(***************************************************************************)
(* The call's variables keep their types, however many requests come.      *)
(***************************************************************************)
THEOREM AnsweringTypeCorrect == AnsweringSpec => []AnsweringTypeOK
<1>1. AnsweringIInv /\ ToldIInv => AnsweringTypeOK
  BY DEF AnsweringIInv, ToldIInv, AnsweringTypeOK
<1> QED BY <1>1, AnsweringInvariance, PTL

(***************************************************************************)
(* pending_request always tells what pending_rdata is.                     *)
(***************************************************************************)
THEOREM PendingCorrect == AnsweringSpec => []PendingMatches
BY AnsweringInvariance, PTL DEF AnsweringIInv

(***************************************************************************)
(* No request is given two final responses.                                *)
(***************************************************************************)
THEOREM OneFinal == AnsweringSpec => []AtMostOneFinal
BY AnsweringInvariance, PTL DEF AnsweringIInv

(***************************************************************************)
(* respond answers the request that the server told the client of last,    *)
(* the one the client meant or a later one; only what came in during the   *)
(* same read is answered untold, or passed over.                           *)
(***************************************************************************)
THEOREM LatestAnswered == AnsweringSpec => AnswersTheLatest
<1>1. ASSUME AnsweringIInv, ToldIInv, NEW code \in Codes, NEW r \in DOMAIN answers,
             Respond(code), answers'[r] # answers[r]
      PROVE  /\ Head(commands).meant <= r
             /\ r <= told \/ Untold(r)
             /\ \A q \in r + 1 .. Latest : Untold(q)
  <2>1. /\ DOMAIN answers = 1 .. Latest /\ Latest \in Nat /\ told \in 0 .. Latest
        /\ heard \in 0 .. told /\ pending_rdata \in 0 .. Latest /\ invite_tsx \in 0 .. Latest
        /\ waiting \in 0 .. Latest
    BY <1>1, LenProperties DEF AnsweringIInv, CallTyped, ToldIInv, ClientTyped, Latest
  <2>2. Executes(code)
    BY <1>1 DEF Respond, RespondOther, RespondInvite, RespondRefused, RespondNotSent,
                RespondInVain, AfterMedia
  <2>3. Head(commands).meant \in Nat /\ Head(commands).meant <= heard
    <3>1. commands \in Seq(Commands) /\ commands # <<>>
      BY <1>1, <2>2 DEF Executes, ToldIInv, ClientTyped
    <3>2. 1 \in DOMAIN commands /\ Head(commands) = commands[1] /\ commands[1] \in Commands
      BY <3>1
    <3> QED BY <1>1, <3>2 DEF ToldIInv, ToldInOrder, Commands
  <2>4. \A q \in told + 1 .. Latest : Untold(q)
    BY <1>1, <2>2 DEF Executes, ToldIInv, ToldInOrder
  <2>5. told <= r
    <3>1. CASE r = pending_rdata
      BY <1>1, <2>1, <3>1 DEF AnsweringIInv, OpenTransactions, None
    <3>2. CASE RespondInvite(code) /\ r = invite_tsx
      <4>1. CASE waiting = None
        BY <1>1, <2>1, <3>2, <4>1
           DEF RespondInvite, AfterMedia, AnsweringIInv, OpenTransactions, None
      <4>2. CASE waiting # None
        BY <1>1, <2>1, <3>2, <4>2 DEF ToldIInv, ToldInOrder, None
      <4> QED BY <4>1, <4>2
    <3>3. CASE RespondOther(code)
      BY <1>1, <3>1, <3>3 DEF RespondOther, Send
    <3>4. CASE RespondInvite(code)
      <4>1. r = Target
        BY <1>1, <3>4 DEF RespondInvite, Send
      <4> QED BY <3>1, <3>2, <3>4, <4>1 DEF Target
    <3>5. ~(RespondRefused(code) \/ RespondNotSent(code) \/ RespondInVain(code))
      BY <1>1 DEF RespondRefused, RespondNotSent, RespondInVain
    <3> QED BY <1>1, <3>3, <3>4, <3>5 DEF Respond
  <2> QED BY <2>1, <2>3, <2>4, <2>5
<1>2. AnsweringIInv /\ ToldIInv =>
        [\A code \in Codes, r \in DOMAIN answers :
           Respond(code) /\ answers'[r] # answers[r] =>
              /\ Head(commands).meant <= r
              /\ r <= told \/ Untold(r)
              /\ \A q \in r + 1 .. Latest : Untold(q)]_answering_vars
  BY <1>1
<1> QED BY <1>2, AnsweringInvariance, PTL DEF AnswersTheLatest

-----------------------------------------------------------------------------
(***************************************************************************)
(* Proofs about MediaShutdown, whatever aggregation may be switched to.    *)
(***************************************************************************)

\* The main thread waits for the clock thread.
Stopping == main \in {"restarting", "dropping", "closing"}

\* A call without endpoints is closed for good: its clock was joined and its id
\* is gone, so that no callback of pjsip starts a clock for it again.
ClosedForGood == media_count = 0 => clock = "none" /\ ~in_call

StopsForACall == Stopping => in_call

\* The port of the clock thread runs, or the main thread is about to join it.
ClockHasPort == clock # "none" <=> master_port \in {"running", "stopping"}

StreamFirst == master_port # "none" \/ main = "restarting" => stream_port

StoppingIsMain == master_port = "stopping" => Stopping

\* OkMeansAudio, while the poll is still on.
AudioFlows == media_update = "ok" /\ reported /\ ~Stopping /\ master_port \notin {"none", "new"} =>
                clock # "none"

\* Between the stop and the start of a clock no event tells of it.
NotYetTold == main \in {"restarting", "dropping"} => ~reported

(***************************************************************************)
(* The inductive invariant.                                                *)
(***************************************************************************)
ShutdownIInv == /\ ShutdownTypeOK
                /\ ClosedForGood
                /\ StopsForACall
                /\ ClockHasPort
                /\ StreamFirst
                /\ StoppingIsMain
                /\ NotYetTold

LEMMA ShutdownInitIInv == ShutdownInit => ShutdownIInv /\ AudioFlows
<1> SUFFICES ASSUME ShutdownInit PROVE ShutdownIInv /\ AudioFlows
  OBVIOUS
<1>1. aggregation \in BOOLEAN
  BY AggregationAssumption, Zenon DEF ShutdownInit
<1>2. ShutdownTypeOK
  BY <1>1, Zenon DEF ShutdownInit, ShutdownTypeOK
<1>3. /\ ClosedForGood /\ StopsForACall /\ ClockHasPort /\ StreamFirst
      /\ StoppingIsMain /\ NotYetTold /\ AudioFlows
  BY DEF ShutdownInit, Stopping, ClosedForGood, StopsForACall, ClockHasPort, StreamFirst,
         StoppingIsMain, NotYetTold, AudioFlows
<1> QED BY <1>2, <1>3 DEF ShutdownIInv

\* The poll and the negotiations it runs.
LEMMA MainIInv ==
  ASSUME ShutdownIInv,
         \/ PollLocks \/ PollUnlocks
         \/ NegotiationFails \/ SetUp \/ StopToRestart \/ StopToDrop
         \/ Restart \/ RestartFails \/ RestartReturns \/ Drop
         \/ OnDisconnected \/ Close \/ SessionEnds
  PROVE  ShutdownIInv'
<1> USE DEF ShutdownIInv, ShutdownTypeOK, Stopping, ClosedForGood, StopsForACall,
            ClockHasPort, StreamFirst, StoppingIsMain, NotYetTold, port, news, call
<1>1. CASE PollLocks
  BY <1>1 DEF PollLocks
<1>2. CASE PollUnlocks
  BY <1>2 DEF PollUnlocks
<1>3. CASE NegotiationFails
  BY <1>3 DEF NegotiationFails, MediaUpdate, Update
<1>4. CASE SetUp
  <2>1. /\ MediaUpdate /\ UNCHANGED <<main, detecting>>
        /\ Update("ok") \/ Update("setup_failed")
    BY <1>4 DEF SetUp
  <2>2. \/ stream_port' = TRUE /\ CreateConf
        \/ UNCHANGED <<stream_port, master_port, clock>>
    BY <1>4 DEF SetUp
  <2>3. \/ stream_port' = TRUE /\ master_port' = "running" /\ clock' = "waiting"
        \/ stream_port' = TRUE /\ master_port' \in {"none", "new"} /\ clock' = clock
        \/ UNCHANGED <<stream_port, master_port, clock>>
    BY <2>2 DEF CreateConf, NewClock
  <2>4. main = "polling" /\ in_call /\ ~stream_port
    BY <1>4 DEF SetUp, MediaUpdate
  <2>5. media_update' \in {"ok", "setup_failed"} /\ reported' = TRUE
    BY <2>1 DEF Update
  <2>6. UNCHANGED <<g_mutex, main, detecting, aggregation, media_count, session, in_call>>
    BY <2>1 DEF MediaUpdate
  <2>7. clock = "none"
    BY <2>4
  <2> QED BY <2>3, <2>4, <2>5, <2>6, <2>7
<1>5. CASE StopToRestart \/ StopToDrop
  BY <1>5 DEF StopToRestart, StopToDrop, StopFor, MediaUpdate, Stop
<1>6. CASE Restart
  BY <1>6 DEF Restart, Restarting, Joined, CreateConf, NewClock, Update
<1>7. CASE RestartFails \/ RestartReturns
  BY <1>7 DEF RestartFails, RestartReturns, Restarting, Joined, CreateConf, NewClock, Update
<1>8. CASE Drop
  BY <1>8 DEF Drop, Joined, Update
<1>9. CASE OnDisconnected
  BY <1>9 DEF OnDisconnected, Disconnected, Stop
<1>10. CASE Close
  BY <1>10 DEF Close, Closing, Joined
<1>11. CASE SessionEnds
  BY <1>11 DEF SessionEnds
<1> QED BY <1>1, <1>2, <1>3, <1>4, <1>5, <1>6, <1>7, <1>8, <1>9, <1>10, <1>11

\* The commands, and the other two threads.
LEMMA OthersIInv ==
  ASSUME ShutdownIInv,
         \/ StartDetection \/ StopDetection \/ SetAggregation
         \/ ClockThread \/ CheckLocks \/ CheckUnlocks
  PROVE  ShutdownIInv'
<1> USE DEF ShutdownIInv, ShutdownTypeOK, Stopping, ClosedForGood, StopsForACall,
            ClockHasPort, StreamFirst, StoppingIsMain, NotYetTold, port, news, call
<1>1. CASE StartDetection \/ StopDetection
  BY <1>1 DEF StartDetection, StopDetection, Command
<1>2. CASE ClockThread
  BY <1>2 DEF ClockThread, ClockStep, Tick, FrameEnds, Quit, Digit, ReportDigit,
              WantLock, BufferDigit
<1>3. CASE CheckLocks \/ CheckUnlocks
  BY <1>3 DEF CheckLocks, CheckUnlocks
<1>4. CASE SetAggregation
  <2>1. aggregation' \in BOOLEAN
    BY <1>4, AggregationAssumption, Zenon DEF SetAggregation
  <2> QED BY <1>4, <2>1 DEF SetAggregation, Command
<1> QED BY <1>1, <1>2, <1>3, <1>4

LEMMA ShutdownNextIInv == ShutdownIInv /\ [ShutdownNext]_shutdown_vars => ShutdownIInv'
<1> SUFFICES ASSUME ShutdownIInv, [ShutdownNext]_shutdown_vars PROVE ShutdownIInv'
  OBVIOUS
<1>1. CASE ShutdownNext
  BY <1>1, MainIInv, OthersIInv DEF ShutdownNext
<1>2. CASE UNCHANGED shutdown_vars
  BY <1>2 DEF shutdown_vars, port, news, call, ShutdownIInv, ShutdownTypeOK, Stopping,
              ClosedForGood, StopsForACall, ClockHasPort, StreamFirst,
              StoppingIsMain, NotYetTold
<1> QED BY <1>1, <1>2

LEMMA ShutdownInvariance == ShutdownSpec => []ShutdownIInv
BY ShutdownInitIInv, ShutdownNextIInv, PTL DEF ShutdownSpec

(***************************************************************************)
(* The threads are where the code says; while the main thread is at work   *)
(* it holds g_mutex.                                                       *)
(***************************************************************************)
THEOREM ShutdownTypeCorrect == ShutdownSpec => []ShutdownTypeOK
BY ShutdownInvariance, PTL DEF ShutdownIInv

(***************************************************************************)
(* The assertion of on_inband_dtmf and on_bfsk_bit, that the detector's    *)
(* endpoint is found, never fails: close_media and on_state_changed join   *)
(* the clock thread before the endpoints go.                               *)
(***************************************************************************)
THEOREM AssertionHolds == ShutdownSpec => []DetectorFindsItsEndpoint
<1>1. ShutdownIInv => DetectorFindsItsEndpoint
  BY DEF ShutdownIInv, ShutdownTypeOK, ClosedForGood, DetectorFindsItsEndpoint
<1> QED BY <1>1, ShutdownInvariance, PTL

-----------------------------------------------------------------------------
LEMMA NextAudio ==
  ASSUME ShutdownIInv, AudioFlows, [ShutdownNext]_shutdown_vars
  PROVE  AudioFlows'
<1> USE DEF AudioFlows, ShutdownIInv, ShutdownTypeOK, Stopping, ClockHasPort,
            StoppingIsMain, NotYetTold, port, news, call
<1>1. CASE \/ PollLocks \/ PollUnlocks \/ CheckLocks \/ CheckUnlocks \/ SessionEnds
           \/ StartDetection \/ StopDetection \/ SetAggregation
  BY <1>1 DEF PollLocks, PollUnlocks, CheckLocks, CheckUnlocks, SessionEnds,
              StartDetection, StopDetection, SetAggregation, Command
<1>2. CASE NegotiationFails
  BY <1>2 DEF NegotiationFails, MediaUpdate, Update
<1>3. CASE SetUp
  BY <1>3 DEF SetUp, MediaUpdate, CreateConf, NewClock, Update
<1>4. CASE StopToRestart \/ StopToDrop \/ OnDisconnected
  BY <1>4 DEF StopToRestart, StopToDrop, StopFor, OnDisconnected, Disconnected
<1>5. CASE Restart
  BY <1>5 DEF Restart, Restarting, CreateConf, NewClock
<1>6. CASE RestartFails \/ RestartReturns
  BY <1>6 DEF RestartFails, RestartReturns, Restarting, Update
<1>7. CASE Drop \/ Close
  BY <1>7 DEF Drop, Close, Closing
<1>8. CASE ClockThread
  BY <1>8 DEF ClockThread, ClockStep, Tick, FrameEnds, Quit, Digit, ReportDigit,
              WantLock, BufferDigit
<1>9. CASE UNCHANGED shutdown_vars
  BY <1>9 DEF shutdown_vars
<1> QED BY <1>1, <1>2, <1>3, <1>4, <1>5, <1>6, <1>7, <1>8, <1>9 DEF ShutdownNext

(***************************************************************************)
(* A client told "ok" by media_update has audio whose clock runs, through  *)
(* any renegotiations and failures, but where the conference never had a   *)
(* clock that started, or the last negotiation ended without an event      *)
(* (restart_media_stream, create_audio_endpoint_conf).                     *)
(***************************************************************************)
THEOREM OkIsTrue == ShutdownSpec => []OkMeansAudio
<1>1. ShutdownIInv /\ AudioFlows /\ [ShutdownNext]_shutdown_vars => AudioFlows'
  BY NextAudio
<1>2. AudioFlows => OkMeansAudio
  BY DEF AudioFlows, OkMeansAudio, Stopping
<1> QED BY <1>1, <1>2, ShutdownInitIInv, ShutdownInvariance, PTL DEF ShutdownSpec
=============================================================================
