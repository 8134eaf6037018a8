----------------------------- MODULE CallTable -----------------------------
(***************************************************************************)
(* What the client may believe about calls.  A call is a Call structure in *)
(* a pool of its dialog; its public name is an id of g_call_ids, and what  *)
(* happens to it reaches the client as events that carry the id, through   *)
(* the queue g_events (src/src/sip.cpp).  serve_client() of                *)
(* src/src/server.cpp empties the queue before it reads; then it executes  *)
(* every line of what it read and writes the results at once, while the    *)
(* events of these commands wait until it polls again.                     *)
(*                                                                         *)
(* Pools are recycled, so two calls, one after the other, may live at one  *)
(* address.  calls numbers the calls ever made and is the history the      *)
(* properties refer to; the code sees addresses and ids only.              *)
(***************************************************************************)
EXTENDS Naturals, Sequences, FiniteSets, SequencesExt

CONSTANTS Addrs,      \* the addresses a Call may have
          IdsMax,     \* IDS_MAX, the ids of g_call_ids
          LastMax,    \* the capacity of g_LastCalls
          MaxCalls,   \* bound: calls made
          MaxEvents,  \* bound: events waiting in g_events
          FailingSteps, \* steps of call_create() that may fail: "media", "transport"
          None

ASSUME CallTableAssumption == /\ IdsMax \in Nat \ {0}
                              /\ LastMax \in Nat \ {0}
                              /\ MaxCalls \in Nat
                              /\ MaxEvents \in Nat
                              /\ FailingSteps \subseteq {"media", "transport"}

VARIABLES ids, id_map,   \* g_call_ids
          calls,         \* history: [addr, session, id] of every call; id is the
                         \* one it was given, or None
          g_LastCalls,   \* ended calls: [pCall, id], the latest last
          g_events,      \* [event, id, of, during]: of is the call it is about,
                         \* during the phase in which it was put there
          phase,         \* of serve_client(): "poll", or "read" while it executes
                         \* the lines of one read
          client,        \* the client's calls: id -> call
          unnamed        \* history: calls whose id the client never got, or will lose
                         \* when it reads of the call that had it before

vars == <<ids, id_map, calls, g_LastCalls, g_events, phase, client, unnamed>>

g_call_ids == INSTANCE IdManager WITH Capacity <- IdsMax, Vals <- Addrs

\* The calls that still occupy their address: all but those whose pool went back.
Holds(k) == calls[k].session # "FREED"

FreeAddrs == Addrs \ {calls[k].addr : k \in {k \in DOMAIN calls : Holds(k)}}

Newest == Len(calls)

-----------------------------------------------------------------------------
Init == /\ g_call_ids!Init
        /\ calls = <<>>
        /\ g_LastCalls = <<>>
        /\ g_events = <<>>
        /\ phase = "poll"
        /\ client = [i \in {} |-> 0]
        /\ unnamed = {}

Event(kind, id, k) == [event |-> kind, id |-> id, of |-> k, during |-> phase]

dispatch_event(e) == /\ Len(g_events) < MaxEvents
                     /\ g_events' = Append(g_events, e)

NewCall(a, session, id) ==
  /\ Newest < MaxCalls
  /\ a \in FreeAddrs
  /\ calls' = Append(calls, [addr |-> a, session |-> session, id |-> id])

\* on_rx_request(): an INVITE outside a dialog.  With no id left the call exists
\* (100 has been sent) and the client does not hear of it.  pjsip calls back when it is
\* polled; so does a command whose media wait for ICE, in the middle of a read.
RxInvite(a) ==
  /\ \/ /\ g_call_ids!Add(a)
        /\ NewCall(a, "ALIVE", g_call_ids!NextId)
        /\ dispatch_event(Event("incoming_call", g_call_ids!NextId, Newest + 1))
     \/ /\ ~g_call_ids!CanAdd
        /\ NewCall(a, "ALIVE", None)
        /\ UNCHANGED <<ids, id_map, g_events>>
  /\ UNCHANGED <<g_LastCalls, phase, client, unnamed>>

\* A slip: the socket is read while events wait.
ReadUndrained == phase = "poll" /\ phase' = "read"

\* Every event that waits is handed out before the socket is read.
Read == phase = "poll" /\ g_events = <<>> /\ phase' = "read"

StartRead == /\ Read
             /\ UNCHANGED <<ids, id_map, calls, g_LastCalls, g_events, client, unnamed>>

\* The last complete line of the buffer has been executed.
EndRead == /\ phase = "read" /\ phase' = "poll"
           /\ UNCHANGED <<ids, id_map, calls, g_LastCalls, g_events, client, unnamed>>

\* The call_ended of a call that ended in this read waits, and will take the id from
\* the client.
Overtakes(id) == \E n \in DOMAIN g_events : /\ g_events[n].event = "call_ended"
                                             /\ g_events[n].id = id
                                             /\ g_events[n].during = "read"

\* call_create(): the INVITE is on its way and the client is given the id at once.
CallCreate(a) ==
  /\ phase = "read"
  /\ g_call_ids!Add(a)
  /\ NewCall(a, "ALIVE", g_call_ids!NextId)
  /\ client' = [i \in DOMAIN client \cup {g_call_ids!NextId} |->
                   IF i = g_call_ids!NextId THEN Newest + 1 ELSE client[i]]
  /\ unnamed' = IF Overtakes(g_call_ids!NextId) THEN unnamed \cup {Newest + 1} ELSE unnamed
  /\ UNCHANGED <<g_LastCalls, g_events, phase>>

\* A callback that ran while the media waited for ICE has left an error behind, and the
\* client is told of that instead of the id.
CreateUnreported(a) ==
  /\ phase = "read"
  /\ g_call_ids!Add(a)
  /\ NewCall(a, "ALIVE", g_call_ids!NextId)
  /\ unnamed' = unnamed \cup {Newest + 1}
  /\ UNCHANGED <<g_LastCalls, g_events, phase, client>>

\* A slip: the id of a call that could not be sent is kept.
CreateFailsWithIdKeepsIt ==
  /\ phase = "read"
  /\ \E a \in FreeAddrs : g_call_ids!Add(a)
  /\ UNCHANGED <<calls, g_LastCalls, g_events, phase, client, unnamed>>

\* The INVITE cannot be made or sent: the id taken for it is released.
CreateFailsWithId ==
  /\ phase = "read"
  /\ FreeAddrs # {}
  /\ g_call_ids!CanAdd
  /\ ids' = g_call_ids!PushBack(Tail(ids), g_call_ids!NextId)
  /\ UNCHANGED <<id_map, calls, g_LastCalls, g_events, phase, client, unnamed>>

\* When process_media() fails the dialog is left as it is, and no id was taken; when
\* dlg_set_transport_by_t() does, it terminates the dialog and the id is not released.
CreateFails(a, step) ==
  /\ phase = "read"
  /\ IF step = "transport" THEN g_call_ids!Add(a) ELSE UNCHANGED <<ids, id_map>>
  /\ NewCall(a, IF step = "transport" THEN "FREED" ELSE "LEFT", None)
  /\ UNCHANGED <<g_LastCalls, g_events, phase, client, unnamed>>

-----------------------------------------------------------------------------
\* push_back on the circular buffer g_LastCalls.
Remember(a, id) ==
  g_LastCalls' = Append(IF Len(g_LastCalls) = LastMax THEN Tail(g_LastCalls)
                                                      ELSE g_LastCalls,
                        [pCall |-> a, id |-> id])

EndSession(k) == calls' = [calls EXCEPT ![k].session = "DISCONNECTED"]

\* on_state_changed() to DISCONNECTED: the id is looked up by address, released
\* and remembered.  Without an id the call ends unnoticed.  It is called when pjsip is
\* polled, and within a command that sends the final response to an INVITE.
Disconnect(k) ==
  LET a == calls[k].addr IN
  /\ calls[k].session = "ALIVE"
  /\ EndSession(k)
  /\ \/ /\ g_call_ids!RemoveByVal(a)
        /\ Remember(a, g_call_ids!GetId(a))
        /\ dispatch_event(Event("call_ended", g_call_ids!GetId(a), k))
     \/ /\ g_call_ids!IdsOf(a) = {}
        /\ UNCHANGED <<ids, id_map, g_LastCalls, g_events>>
  /\ UNCHANGED <<phase, client, unnamed>>

\* pjsip is done with the dialog: its pool goes back.
FreeDialog(k) == /\ calls[k].session = "DISCONNECTED"
                 /\ calls' = [calls EXCEPT ![k].session = "FREED"]
                 /\ UNCHANGED <<ids, id_map, g_LastCalls, g_events, phase, client, unnamed>>

\* find() on g_LastCalls: the first pair with the address.
Remembered(a) == {j \in DOMAIN g_LastCalls : g_LastCalls[j].pCall = a}

FirstRemembered(a) ==
  g_LastCalls[CHOOSE j \in Remembered(a) : \A l \in Remembered(a) : j <= l].id

\* A slip: the calls that ended are looked through first.
ResponseIdFromLast(a) == IF Remembered(a) # {} THEN FirstRemembered(a)
                         ELSE IF g_call_ids!IdsOf(a) # {} THEN g_call_ids!GetId(a)
                         ELSE None

\* The id on_rx_response() puts in its event, or None: no event.
ResponseId(a) == IF g_call_ids!IdsOf(a) # {} THEN g_call_ids!GetId(a)
                 ELSE IF Remembered(a) # {} THEN FirstRemembered(a)
                 ELSE None

\* on_rx_response(), for a call that lives or has just ended: the transaction
\* has moved, and ended the session, before the dialog sees the response.  A call
\* the client never heard of has sent no request.
RxResponse(k) ==
  LET a == calls[k].addr IN
  /\ calls[k].id # None
  /\ calls[k].session \in {"ALIVE", "DISCONNECTED"}
  /\ ResponseId(a) # None
  /\ dispatch_event(Event("response", ResponseId(a), k))
  /\ UNCHANGED <<ids, id_map, calls, g_LastCalls, phase, client, unnamed>>

\* What a line of the server tells the client.
Learns(view, e) ==
  CASE e.event = "incoming_call" ->
         [i \in DOMAIN view \cup {e.id} |-> IF i = e.id THEN e.of ELSE view[i]]
    [] e.event = "call_ended" -> Restrict(view, DOMAIN view \ {e.id})
    [] OTHER -> view

\* A slip: the newest event is taken.
PollNewest == /\ phase = "poll" /\ g_events # <<>>
              /\ g_events' = Front(g_events)
              /\ client' = Learns(client, Last(g_events))
              /\ UNCHANGED <<ids, id_map, calls, g_LastCalls, phase, unnamed>>

\* __pjw_poll() hands out the oldest event and serve_client() sends it.
Poll == /\ phase = "poll" /\ g_events # <<>>
        /\ g_events' = Tail(g_events)
        /\ client' = Learns(client, Head(g_events))
        /\ UNCHANGED <<ids, id_map, calls, g_LastCalls, phase, unnamed>>

Next == \/ \E a \in Addrs : \/ RxInvite(a)
                            \/ CallCreate(a) \/ CreateUnreported(a)
                            \/ \E step \in FailingSteps : CreateFails(a, step)
        \/ CreateFailsWithId
        \/ \E k \in DOMAIN calls : Disconnect(k) \/ FreeDialog(k) \/ RxResponse(k)
        \/ Poll \/ StartRead \/ EndRead

Spec == Init /\ [][Next]_vars
-----------------------------------------------------------------------------
Sessions == {"ALIVE", "DISCONNECTED", "FREED", "LEFT"}

MaybeId == g_call_ids!AllIds \cup {None}

Events == [event : {"incoming_call", "call_ended", "response"},
           id : g_call_ids!AllIds, of : Nat, during : {"poll", "read"}]

TypeOK == /\ g_call_ids!TypeOK
          /\ calls \in Seq([addr : Addrs, session : Sessions, id : MaybeId])
          /\ g_LastCalls \in Seq([pCall : Addrs, id : g_call_ids!AllIds])
          /\ Len(g_LastCalls) <= LastMax
          /\ g_events \in Seq(Events)
          /\ phase \in {"poll", "read"}
          /\ client \in [DOMAIN client -> Nat]
          /\ unnamed \subseteq Nat

LiveAt(a) == {k \in DOMAIN calls : calls[k].session = "ALIVE" /\ calls[k].addr = a}

(***************************************************************************)
(* Every id in use is the name of one call that is alive, the one it was   *)
(* given to, and no two ids stand for one address: get_id(), which returns *)
(* the first id of an address, returns the right one (call_create,         *)
(* on_rx_request, on_state_changed).                                       *)
(***************************************************************************)
IdsDenoteLiveCalls ==
  /\ \A i \in g_call_ids!InUse : \E k \in LiveAt(id_map[i]) : calls[k].id = i
  /\ \A i, j \in g_call_ids!InUse : id_map[i] = id_map[j] => i = j

\* What becomes of a view while it reads events, after the first n of them.
Views(view, events) ==
  LET seen[n \in Nat] == IF n = 0 THEN view ELSE Learns(seen[n - 1], events[n])
  IN  seen

\* The client's view once it has read the first n waiting events.
View(n) == Views(client, g_events)[n]

(***************************************************************************)
(* Once it has read what is waiting, the client holds ids of live calls    *)
(* only, and each for the call it stands for; and it holds every id in     *)
(* use, but for the calls that are unnamed: an error of a callback took    *)
(* the place of the id in the result of call_create, or that result        *)
(* overtook the call_ended of a call that ended under the same id in the   *)
(* same read (serve_client).  No event of an earlier poll is overtaken.    *)
(***************************************************************************)
ViewAgrees ==
  LET view == View(Len(g_events)) IN
  /\ DOMAIN view \subseteq g_call_ids!InUse
  /\ \A i \in DOMAIN view : view[i] \in LiveAt(id_map[i])
  /\ \A i \in g_call_ids!InUse \ DOMAIN view : LiveAt(id_map[i]) \subseteq unnamed

(***************************************************************************)
(* A call_ended names, to a client that has read the events before it, a   *)
(* call it knows, and the one that ended.  Only a call that is unnamed may *)
(* end unknown to the client, or stand in the place of the one that ended. *)
(***************************************************************************)
EndedNamesItsCall ==
  \A n \in DOMAIN g_events :
     g_events[n].event = "call_ended" /\ g_events[n].of \notin unnamed =>
        LET view == View(n - 1) IN
        /\ g_events[n].id \in DOMAIN view
        /\ view[g_events[n].id] \in {g_events[n].of} \cup unnamed

(***************************************************************************)
(* The response event of a call that is alive names that call, whatever    *)
(* has ended at its address before (on_rx_response).                       *)
(***************************************************************************)
LiveResponsesNameTheirCall ==
  [][\A k \in DOMAIN calls :
        RxResponse(k) /\ calls[k].session = "ALIVE"
           => Last(g_events').id = calls[k].id]_vars
=============================================================================
