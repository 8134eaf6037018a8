------------------------------ MODULE IdManager ------------------------------
(***************************************************************************)
(* The id table behind every public handle of sip-lab (calls, transports,  *)
(* accounts, requests, subscriptions): src/src/idmanager.cpp.              *)
(*                                                                         *)
(* ids is the circular buffer of free ids, id_map the map from an id in    *)
(* use to the pointer it stands for.  Ids leave at the front of the buffer *)
(* and come back at its end.                                               *)
(***************************************************************************)
EXTENDS Naturals, Sequences, FiniteSets

CONSTANTS Capacity,   \* IDS_MAX, the capacity given to the constructor
          Vals        \* the pointers an id may stand for

ASSUME CapacityAssumption == Capacity \in Nat \ {0}

VARIABLES ids, id_map

vars == <<ids, id_map>>

AllIds == 0 .. Capacity - 1

FreeIds == {ids[k] : k \in DOMAIN ids}

InUse == DOMAIN id_map

-----------------------------------------------------------------------------
Init == /\ ids = [k \in 1 .. Capacity |-> k - 1]
        /\ id_map = [i \in {} |-> Vals]

\* A slip: a released id goes back to the front.
PushFront(s, i) == <<i>> \o s

\* boost::circular_buffer::push_back: a full buffer loses its front element.
PushBack(s, i) == Append(IF Len(s) = Capacity THEN Tail(s) ELSE s, i)

CanAdd == ids # <<>>

NextId == Head(ids)

\* add() with a free id; with none it returns false and changes nothing.
Add(val) == /\ CanAdd
            /\ id_map' = [i \in InUse \cup {NextId} |->
                             IF i = NextId THEN val ELSE id_map[i]]
            /\ ids' = Tail(ids)

\* A slip: the entry stays in the map.
RemoveKeepsEntry(id) == /\ id \in InUse
                        /\ ids' = PushBack(ids, id)
                        /\ UNCHANGED id_map

\* remove() of an id in use; for any other id it returns false.
Remove(id) == /\ id \in InUse
              /\ ids' = PushBack(ids, id)
              /\ id_map' = [i \in InUse \ {id} |-> id_map[i]]

\* The ids that stand for val; the map is walked in increasing order.
IdsOf(val) == {i \in InUse : id_map[i] = val}

\* get_id(): the first id the walk meets.
GetId(val) == CHOOSE i \in IdsOf(val) : \A j \in IdsOf(val) : i <= j

\* remove_by_val(): releases the id get_id() would return.
RemoveByVal(val) == /\ IdsOf(val) # {}
                    /\ Remove(GetId(val))

Next == \/ \E val \in Vals : Add(val)
        \/ \E id \in AllIds : Remove(id)
        \/ \E val \in Vals : RemoveByVal(val)

Spec == Init /\ [][Next]_vars

-----------------------------------------------------------------------------
\* The two halves of the table keep their types.
TypeOK == /\ ids \in Seq(AllIds)
          /\ id_map \in [InUse -> Vals]
          /\ InUse \subseteq AllIds

NoDuplicates == \A j, k \in DOMAIN ids : ids[j] = ids[k] => j = k

(***************************************************************************)
(* Every id is either free, exactly once, or in use, and never both: no    *)
(* id is lost by push_back on a full buffer, none is handed to two owners. *)
(* (add, remove and remove_by_val, idmanager.cpp lines 10-49.)             *)
(***************************************************************************)
Partition == /\ NoDuplicates
             /\ FreeIds \cap InUse = {}
             /\ FreeIds \cup InUse = AllIds

\* The buffer holds as many ids as are not in use: it never overflows.
Accounted == /\ IsFiniteSet(InUse)
             /\ Len(ids) + Cardinality(InUse) = Capacity

\* The inductive invariant.
IInv == TypeOK /\ Partition /\ Accounted

-----------------------------------------------------------------------------
\* What must be handed out before id i is: the ids in front of it.
Ahead(i) == {ids[k] : k \in {k \in DOMAIN ids :
                \E j \in DOMAIN ids : k < j /\ ids[j] = i}}

Quarantine == INSTANCE IdQuarantine
                WITH Ids <- AllIds, live <- id_map,
                     before <- [i \in FreeIds |-> Ahead(i)]

(***************************************************************************)
(* The table implements the quarantine allocator: a released id returns to *)
(* service only after every id that was free when it was released.  This   *)
(* is what keeps a late event for an ended call from naming a new call.    *)
(***************************************************************************)
ImplementsQuarantine == Quarantine!Spec
=============================================================================
