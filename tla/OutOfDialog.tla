---------------------------- MODULE OutOfDialog ----------------------------
(***************************************************************************)
(* What happens outside dialogs (src/src/sip.cpp): requests that come in   *)
(* and are answered with request_respond, requests sent with               *)
(* request_create, and the registrations of accounts.                      *)
(*                                                                         *)
(* The client names a request or an account by an id; the table keeps the  *)
(* address of a structure under it, and gives no id back.  The structure   *)
(* of a request that came in lies in the memory in which its transport     *)
(* received it, which the next packet on that transport is received in;    *)
(* that of a request of ours goes with its transaction.  requests and      *)
(* accounts number what there has been and are the history the properties  *)
(* refer to.                                                               *)
(***************************************************************************)
EXTENDS Naturals, Sequences

CONSTANTS Sockets,      \* transports that packets come in through
          Cells,        \* places for a Request in the memory of each, and of ours
          RegcAddrs,    \* addresses a registration may have
          IdsMax,       \* IDS_MAX, the ids of each table
          MaxMade,      \* bound: requests and registrations there have been
          None

ASSUME BoundsAssumption == /\ IdsMax \in Nat \ {0}
                           /\ MaxMade \in Nat
ASSUME NoneAssumption ==
    /\ None \notin Nat
    /\ None \notin [is_uac : BOOLEAN, pending : {"raw", "clone", "none"}, id : Nat, of : Nat]

VARIABLES g_request_ids,  \* place k holds the address id k - 1 stands for
          memory,         \* address -> Request, or None where there is none any more
          requests,       \* what came of each request
          stale,          \* ids whose request another packet, or its own end, may have overwritten
          g_account_ids,
          regc,           \* address -> the account whose registration is there, or None
          accounts,       \* [id, sent, reported] of each
          g_shutting_down,
          fault,          \* why the server is gone
          faulted         \* the id whose structure it was after then, or None

uas == <<g_request_ids, memory, requests, stale>>
registrations == <<g_account_ids, regc, accounts>>
vars == <<uas, registrations, g_shutting_down, fault, faulted>>

Heap == "heap"
ASSUME HeapAssumption == Heap \notin Sockets
Addrs == (Sockets \cup {Heap}) \X Cells
RequestIds == 0 .. Len(g_request_ids) - 1
AccountIds == 0 .. Len(g_account_ids) - 1

Up == fault = "none"
More == Len(requests) + Len(accounts) < MaxMade

Init == /\ g_request_ids = <<>>
        /\ memory = [a \in Addrs |-> None]
        /\ requests = <<>>
        /\ stale = {}
        /\ g_account_ids = <<>>
        /\ regc = [a \in RegcAddrs |-> None]
        /\ accounts = <<>>
        /\ g_shutting_down = FALSE
        /\ fault = "none"
        /\ faulted = None

\* What is read where nothing is left may be anything: the server is taken to be gone.
Fault(why, id) == /\ fault' = why
                  /\ faulted' = id
                  /\ UNCHANGED <<uas, registrations, g_shutting_down>>

-----------------------------------------------------------------------------
(* Requests that come in. *)

\* The pool of a transport starts over with every packet.
Wiped(s) == [a \in Addrs |-> IF a[1] = s THEN None ELSE memory[a]]

StandsIn(s) == {id \in RequestIds : g_request_ids[id + 1][1] = s}

\* Any packet but an out-of-dialog request.
RxOther(s) == /\ Up
              /\ memory' = Wiped(s)
              /\ stale' = stale \cup StandsIn(s)
              /\ UNCHANGED <<g_request_ids, requests, registrations, g_shutting_down, fault, faulted>>

\* id is the one the client was told of, if any; finals counts the final answers, and by
\* holds the ids they and others were given under.
History(way, id, finals) ==
    [way |-> way, id |-> id, finals |-> finals, by |-> {}, reported |-> None,
     full |-> Len(g_request_ids) = IdsMax]

Arrives(s, a, pending, id, finals) ==
    /\ memory' = [Wiped(s) EXCEPT ![a] = [is_uac |-> FALSE, pending |-> pending,
                                          id |-> Len(g_request_ids), of |-> Len(requests) + 1]]
    /\ requests' = Append(requests, History("in", id, finals))
    /\ stale' = stale \cup StandsIn(s)

HasNoId == Len(g_request_ids) = IdsMax

\* A slip: the id is read before add() has set it.
NewIdBefore == IF Len(g_request_ids) = 0 THEN 0 ELSE Len(g_request_ids) - 1

\* The id add() returns.
NewId == Len(g_request_ids)

\* on_rx_request(), of a request that is not in a dialog and is neither INVITE nor
\* SUBSCRIBE.  Without an id nothing is answered; if it cannot be kept the answer is
\* 500, and the id stays; else 100 is sent and the client told.
RxRequest(s) ==
    /\ Up
    /\ ~g_shutting_down
    /\ More
    /\ \E c \in Cells :
         \/ /\ HasNoId
            /\ Arrives(s, <<s, c>>, "raw", None, 0)
            /\ UNCHANGED g_request_ids
         \/ /\ ~HasNoId
            /\ \/ Arrives(s, <<s, c>>, "raw", None, 1)
               \/ Arrives(s, <<s, c>>, "clone", NewId, 0)
            /\ g_request_ids' = Append(g_request_ids, <<s, c>>)
    /\ UNCHANGED <<registrations, g_shutting_down, fault, faulted>>

-----------------------------------------------------------------------------
(* Commands. *)

Told == {requests[n].id : n \in DOMAIN requests} \ {None}

Request(id) == memory[g_request_ids[id + 1]]

Answered(id, final) ==
    requests' = [requests EXCEPT ![Request(id).of].by = @ \cup {id},
                                 ![Request(id).of].finals = IF final THEN @ + 1 ELSE @]

\* A slip: what is answered stays pending.
KeepPending(request, final) == request

ForgetPending(request, final) ==
    IF final THEN [request EXCEPT !.pending = "none"] ELSE request

\* pjw_request_respond(): an answer to a request that came in and has had no final one.
\* After a final one what was kept of the request is freed, which only a clone can be.
\* code and reason may be left out, and are then not set.
RequestRespond(id) ==
    /\ Up
    /\ id \in Told
    /\ \/ Request(id) = None /\ Fault("respond", id)
       \/ /\ Request(id) # None
          /\ ~Request(id).is_uac
          /\ Request(id).pending # "none"
          /\ \/ /\ \E final \in BOOLEAN :
                     /\ Answered(id, final)
                     /\ memory' = [memory EXCEPT ![g_request_ids[id + 1]] = ForgetPending(@, final)]
                     /\ IF final /\ Request(id).pending = "raw"
                        THEN fault' = "respond" /\ faulted' = id
                        ELSE UNCHANGED <<fault, faulted>>
                /\ UNCHANGED <<g_request_ids, stale, registrations, g_shutting_down>>
             \/ Fault("reason", id)

\* pjw_request_create(): the request is sent before it has an id, and goes its way when
\* there is none; its id is 0 then.
RequestCreate ==
    /\ Up
    /\ More
    /\ \E c \in Cells :
         /\ memory[<<Heap, c>>] = None
         /\ memory' = [memory EXCEPT ![<<Heap, c>>] =
                          [is_uac |-> TRUE, pending |-> "none", id |-> IF HasNoId THEN 0 ELSE NewId,
                           of |-> Len(requests) + 1]]
         /\ g_request_ids' = IF HasNoId THEN g_request_ids ELSE Append(g_request_ids, <<Heap, c>>)
    /\ requests' = Append(requests, History("out", IF HasNoId THEN None ELSE Len(g_request_ids), 0))
    /\ UNCHANGED <<stale, registrations, g_shutting_down, fault, faulted>>

\* request_callback(): the final response is reported; a transaction that times out, or
\* whose transport fails, has none, and what is read for it is the timer.
RequestCallback(c) ==
    LET request == memory[<<Heap, c>>]
    IN /\ Up
       /\ request # None
       /\ requests[request.of].reported = None
       /\ \/ /\ requests' = [requests EXCEPT ![request.of].reported = request.id]
             /\ UNCHANGED <<g_request_ids, memory, stale, registrations, g_shutting_down, fault, faulted>>
          \/ Fault("timeout", None)

\* The transaction is over.
TransactionEnds(c) ==
    LET request == memory[<<Heap, c>>]
    IN /\ Up
       /\ request # None
       /\ requests[request.of].reported # None
       /\ memory' = [memory EXCEPT ![<<Heap, c>>] = None]
       /\ stale' = stale \cup {id \in RequestIds : g_request_ids[id + 1] = <<Heap, c>>}
       /\ UNCHANGED <<g_request_ids, requests, registrations, g_shutting_down, fault, faulted>>

-----------------------------------------------------------------------------
(* Accounts. *)

\* An account the client is told of by id, or of which it is told that it failed.
Account(id) == Append(accounts, [id |-> id, sent |-> "no", reported |-> {}])

Registers(a) == /\ regc[a] = None
                /\ regc' = [regc EXCEPT ![a] = Len(accounts) + 1]

TakesId(a) == /\ Len(g_account_ids) < IdsMax
              /\ g_account_ids' = Append(g_account_ids, a)

\* A slip: the client is told of an account whose registration was destroyed.
CreateFailsTold(a) == /\ regc[a] = None
                      /\ TakesId(a)
                      /\ accounts' = Account(Len(g_account_ids))
                      /\ UNCHANGED regc

\* pjsip_regc_init() and what follows fail: the registration is destroyed, and its id
\* stays.
CreateFailsWithId(a) == /\ regc[a] = None
                        /\ TakesId(a)
                        /\ accounts' = Account(None)
                        /\ UNCHANGED regc

\* Headers that are refused, or a table that is full, leave the registration there.
CreateFailsEarly(a) == /\ Registers(a)
                       /\ accounts' = Account(None)
                       /\ UNCHANGED g_account_ids

CreateSucceeds(a) == /\ Registers(a)
                     /\ TakesId(a)
                     /\ accounts' = Account(Len(g_account_ids))

\* pjw_account_create()
AccountCreate(a) == /\ Up
                    /\ More
                    /\ CreateFailsEarly(a) \/ CreateFailsWithId(a) \/ CreateSucceeds(a)
                    /\ UNCHANGED <<uas, g_shutting_down, fault, faulted>>

\* An account is named by its id; one request of a registration is under way at a time.
Sends(id, how) == /\ Up
                  /\ \E n \in DOMAIN accounts :
                       /\ accounts[n].id = id
                       /\ regc[g_account_ids[id + 1]] # None
                       /\ accounts[n].sent # "once"
                       /\ accounts' = [accounts EXCEPT ![regc[g_account_ids[id + 1]]].sent = how]
                  /\ UNCHANGED <<uas, g_account_ids, regc, g_shutting_down, fault, faulted>>

\* pjw_account_register(), with auto_refresh or without.
AccountRegister(id) == \E how \in {"once", "refreshing"} : Sends(id, how)

\* pjw_account_unregister(), which ends the refreshing.
AccountUnregister(id) == Sends(id, "once")

Stands(a) == {id \in AccountIds : g_account_ids[id + 1] = a}

\* A slip: the account that was made last.
LastId(a) == Len(g_account_ids) - 1

\* get_id(): the least id that stands for the address.
GetId(a) == CHOOSE id \in Stands(a) : \A other \in Stands(a) : id <= other

\* on_registration_status()
OnRegistrationStatus(a) ==
    /\ Up
    /\ ~g_shutting_down
    /\ regc[a] # None
    /\ accounts[regc[a]].sent # "no"
    /\ accounts' = [accounts EXCEPT ![regc[a]].reported = @ \cup {GetId(a)},
                                    ![regc[a]].sent = IF @ = "once" THEN "no" ELSE @]
    /\ UNCHANGED <<uas, g_account_ids, regc, g_shutting_down, fault, faulted>>

\* __pjw_shutdown() unregisters every account in the table, the ones whose registration
\* was destroyed too.
Shutdown ==
    /\ Up
    /\ ~g_shutting_down
    /\ \/ \E id \in AccountIds : /\ regc[g_account_ids[id + 1]] = None
                                  /\ Fault("shutdown", id)
       \/ /\ \A id \in AccountIds : regc[g_account_ids[id + 1]] # None
          /\ accounts' = [n \in DOMAIN accounts |->
                             IF \E id \in AccountIds : regc[g_account_ids[id + 1]] = n
                             THEN [accounts[n] EXCEPT !.sent = "once"] ELSE accounts[n]]
          /\ g_shutting_down' = TRUE
          /\ UNCHANGED <<uas, g_account_ids, regc, fault, faulted>>

Next == \/ \E s \in Sockets : RxOther(s) \/ RxRequest(s)
        \/ \E id \in RequestIds : RequestRespond(id)
        \/ RequestCreate
        \/ \E c \in Cells : RequestCallback(c) \/ TransactionEnds(c)
        \/ \E a \in RegcAddrs : AccountCreate(a) \/ OnRegistrationStatus(a)
        \/ \E id \in AccountIds : AccountRegister(id) \/ AccountUnregister(id)
        \/ Shutdown

Spec == Init /\ [][Next]_vars

-----------------------------------------------------------------------------
MaybeIds == (0 .. IdsMax - 1) \cup {None}

Contents(made) == [is_uac : BOOLEAN, pending : {"raw", "clone", "none"},
                   id : 0 .. IdsMax, of : 1 .. made]

TypeOK ==
    /\ g_request_ids \in Seq(Addrs) /\ Len(g_request_ids) <= IdsMax
    /\ memory \in [Addrs -> Contents(Len(requests)) \cup {None}]
    /\ requests \in Seq([way : {"in", "out"}, id : MaybeIds, finals : Nat,
                         by : SUBSET RequestIds, reported : MaybeIds, full : BOOLEAN])
    /\ stale \subseteq RequestIds
    /\ g_account_ids \in Seq(RegcAddrs) /\ Len(g_account_ids) <= IdsMax
    /\ regc \in [RegcAddrs -> DOMAIN accounts \cup {None}]
    /\ accounts \in Seq([id : MaybeIds, sent : {"no", "once", "refreshing"},
                         reported : SUBSET AccountIds])
    /\ g_shutting_down \in BOOLEAN
    /\ fault \in {"none", "respond", "reason", "timeout", "shutdown"}
    /\ faulted \in MaybeIds

(***************************************************************************)
(* request_respond answers the request whose id it is given, unless that   *)
(* is overwritten (pjw_request_respond).                                   *)
(***************************************************************************)
AnswersItsRequest ==
    \A n \in DOMAIN requests : \A id \in requests[n].by \ stale : requests[n].id = id

(***************************************************************************)
(* No request has two final answers, the 500 of on_rx_request included,    *)
(* unless the second was meant for one that is overwritten.                *)
(***************************************************************************)
OneFinal == \A n \in DOMAIN requests :
              requests[n].finals <= 1 \/ requests[n].by \cap stale # {}

(***************************************************************************)
(* The response to a request of ours is reported under the id              *)
(* request_create returned, unless it failed for want of an id after the   *)
(* request was sent (request_callback).                                    *)
(***************************************************************************)
ReportedUnderItsId ==
    \A n \in DOMAIN requests :
       requests[n].reported # None => requests[n].reported = requests[n].id \/ requests[n].full

\* Ids that a failing account_create has left in the table.
LeftBehind == AccountIds \ {accounts[n].id : n \in DOMAIN accounts}

(***************************************************************************)
(* registration_status names the account whose registration it is about,   *)
(* or an id that a failing account_create left behind with its address.    *)
(***************************************************************************)
StatusNamesAccount ==
    \A n \in DOMAIN accounts : accounts[n].reported \subseteq {accounts[n].id} \cup LeftBehind

(***************************************************************************)
(* request_respond never reads or frees a structure that is gone, unless   *)
(* since the very request it names was taken in another packet came in on  *)
(* the same transport (before its answer, or before an answer repeated),   *)
(* or that request is one of ours and its transaction is over.  Shutdown   *)
(* never reads a registration that is gone, unless a failing               *)
(* account_create left its id behind.  An answer without a reason, and a   *)
(* request of ours that times out, are not spoken of.                      *)
(***************************************************************************)
ReadsWhatIsThere == /\ fault = "respond" => faulted \in stale
                    /\ fault = "shutdown" => faulted \in LeftBehind
=============================================================================
