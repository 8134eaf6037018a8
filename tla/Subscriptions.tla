--------------------------- MODULE Subscriptions ---------------------------
(***************************************************************************)
(* Subscriptions of the client to the events of a peer, and of peers,      *)
(* called subscribers, to the client's (src/src/sip.cpp).  Each is a       *)
(* session of a dialog of its own, in whose memory its structure lies: the *)
(* dialog goes with its last session.  The dialog of a subscriber is       *)
(* created locked, which counts as a session, and is never unlocked.  The  *)
(* tables give no id back.                                                 *)
(*                                                                         *)
(* Commands and callbacks share one error string.  Most commands clear it  *)
(* when they begin and have failed if it is set when they end; some do     *)
(* neither.  Callbacks leave their errors in it, also those that run while *)
(* a command waits: a transport for its connection, a call for ICE.        *)
(***************************************************************************)
EXTENDS Naturals, Sequences

CONSTANTS Events,    \* packages of pjsip: one per event
          Accepts,   \* content types, which g_PackageSet knows packages by as well
          IdsMax,    \* IDS_MAX, the ids of each table
          MaxMade    \* bound: dialogs there have been

ASSUME BoundsAssumption == IdsMax \in Nat \ {0} /\ MaxMade \in Nat

VARIABLES g_PackageSet,        \* (event, accept) pairs asked for
          packages,            \* events pjsip knows
          g_subscription_ids,  \* place k holds the dialog id k - 1 stands for
          g_subscriber_ids,
          dialogs,             \* every dialog there has been, see Dialog
          told,                \* subscriber ids the client was told of, each for its own
          misled,              \* ids it was told of for a SUBSCRIBE that found the table full
          pjw_errorstring,     \* who left it: "none", "command" or "callback"
          waiting,             \* a command polls for events before it goes on
          result,              \* history: what the last command was answered, and if it failed
          meanwhile,           \* history: a callback failed while the last command waited
          g_shutting_down,
          fault

tables == <<g_PackageSet, packages, g_subscription_ids, g_subscriber_ids>>
known == <<told, misled>>
errors == <<pjw_errorstring, waiting, result, meanwhile>>
vars == <<tables, dialogs, known, errors, g_shutting_down, fault>>

Up == fault = "none"
Idle == Up /\ ~waiting
More == Len(dialogs) < MaxMade
SubscriptionIds == 0 .. Len(g_subscription_ids) - 1
SubscriberIds == 0 .. Len(g_subscriber_ids) - 1

Init == /\ g_PackageSet = {}
        /\ packages = {}
        /\ g_subscription_ids = <<>>
        /\ g_subscriber_ids = <<>>
        /\ dialogs = <<>>
        /\ pjw_errorstring = "none"
        /\ told = {}
        /\ misled = {}
        /\ waiting = FALSE
        /\ result = [ok |-> TRUE, failed |-> FALSE]
        /\ meanwhile = FALSE
        /\ g_shutting_down = FALSE
        /\ fault = "none"

\* sessions keep the memory of a dialog; sub is the state of its subscription; answers are
\* the final ones its SUBSCRIBE was given; pinned says if its transport was set, and notified
\* if the client has sent a NOTIFY in it.
Dialog(way, sessions, sub, answers, pinned) ==
    [way |-> way, sessions |-> sessions, sub |-> sub, answers |-> answers, pinned |-> pinned,
     notified |-> FALSE]

\* What is read where nothing is left may be anything: the server is taken to be gone.
Fault(why) == /\ fault' = why
              /\ UNCHANGED <<tables, dialogs, known, errors, g_shutting_down>>

-----------------------------------------------------------------------------
(* The error string. *)

\* A slip: a command starts with the error it finds.
NotCleared == pjw_errorstring

\* clear_error()
Cleared == "none"

\* A command that clears the string, and succeeds or fails.
Command(succeeds) == /\ pjw_errorstring' = IF succeeds THEN Cleared ELSE "command"
                     /\ result' = [ok |-> pjw_errorstring' = "none", failed |-> ~succeeds]
                     /\ meanwhile' = FALSE
                     /\ UNCHANGED waiting

\* Commands of other components that do not clear it, and are answered by what they return:
\* pjw_call_get_info(), those of the aggregation, the log level, the flags and the codecs.
KeepingCommand ==
    /\ Idle
    /\ \E succeeds \in BOOLEAN :
         /\ pjw_errorstring' = IF succeeds THEN pjw_errorstring ELSE "command"
         /\ result' = [ok |-> succeeds, failed |-> ~succeeds]
    /\ meanwhile' = FALSE
    /\ UNCHANGED <<waiting, tables, dialogs, known, g_shutting_down, fault>>

\* Commands of other components that clear it and then wait: callbacks run before they end.
CommandWaits == /\ Idle
                /\ pjw_errorstring' = Cleared
                /\ waiting' = TRUE
                /\ meanwhile' = FALSE
                /\ UNCHANGED <<result, tables, dialogs, known, g_shutting_down, fault>>

CommandEnds ==
    /\ Up
    /\ waiting
    /\ \E succeeds \in BOOLEAN :
         /\ pjw_errorstring' = IF succeeds THEN pjw_errorstring ELSE "command"
         /\ result' = [ok |-> pjw_errorstring' = "none", failed |-> ~succeeds]
    /\ waiting' = FALSE
    /\ UNCHANGED <<meanwhile, tables, dialogs, known, g_shutting_down, fault>>

CallbackFails == /\ pjw_errorstring' = "callback"
                 /\ meanwhile' = (meanwhile \/ waiting)
                 /\ UNCHANGED <<waiting, result>>

-----------------------------------------------------------------------------
(* Packages and subscriptions: commands. *)

\* register_pkg(), of an event that pjsip does not know yet or with a content type it
\* was already registered with.
RegisterPkg(event, accept) ==
    /\ <<event, accept>> \in g_PackageSet \/ event \notin packages
    /\ g_PackageSet' = g_PackageSet \cup {<<event, accept>>}
    /\ packages' = packages \cup {event}

\* A second content type for an event: pjsip asserts that it has none of the name.
RegisterTwice(event, accept) == /\ event \in packages
                                /\ <<event, accept>> \notin g_PackageSet
                                /\ Fault("package")

\* pjw_register_pkg()
RegisterCommand ==
    /\ Idle
    /\ \E event \in Events, accept \in Accepts :
         \/ /\ RegisterPkg(event, accept)
            /\ Command(TRUE)
            /\ UNCHANGED <<g_subscription_ids, g_subscriber_ids, dialogs, known,
                           g_shutting_down, fault>>
         \/ RegisterTwice(event, accept)

\* What of a subscription_create stays when it fails: nothing, or a package and a dialog
\* without an id.
CreateFails(event, accept) ==
    /\ \/ UNCHANGED <<g_PackageSet, packages, dialogs>>
       \/ /\ RegisterPkg(event, accept)
          /\ dialogs' = Append(dialogs, Dialog("out", 1, "left", {}, TRUE))
    /\ UNCHANGED <<g_subscription_ids, g_subscriber_ids>>
    /\ Command(FALSE)

\* pjw_subscription_create().  The contact is made of a field that a Transport of TCP or
\* TLS does not set.
SubscriptionCreate ==
    /\ Idle
    /\ More
    /\ \/ Fault("contact")
       \/ \E event \in Events, accept \in Accepts :
            \/ CreateFails(event, accept) /\ UNCHANGED <<known, g_shutting_down, fault>>
            \/ /\ RegisterPkg(event, accept)
               /\ Len(g_subscription_ids) < IdsMax
               /\ dialogs' = Append(dialogs, Dialog("out", 1, "new", {}, TRUE))
               /\ g_subscription_ids' = Append(g_subscription_ids, Len(dialogs) + 1)
               /\ Command(TRUE)
               /\ UNCHANGED <<g_subscriber_ids, known, g_shutting_down, fault>>
            \/ RegisterTwice(event, accept)

Gone(d) == dialogs[d].sessions = 0

\* pjw_subscription_subscribe(): SUBSCRIBE is sent, or it fails.
SubscriptionSubscribe(id) ==
    LET d == g_subscription_ids[id + 1]
    IN /\ Idle
       /\ \/ Gone(d) /\ Fault("subscribe")
          \/ /\ ~Gone(d)
             /\ \/ Command(FALSE) /\ UNCHANGED dialogs
                \/ /\ Command(TRUE)
                   /\ dialogs' = [dialogs EXCEPT ![d].sub = IF @ = "new" THEN "sent" ELSE @]
             /\ UNCHANGED <<tables, known, g_shutting_down, fault>>

-----------------------------------------------------------------------------
(* Subscriptions: what the peer and the clock do. *)

Subscribed(d) == dialogs[d].way = "out" /\ dialogs[d].sub \in {"sent", "accepted", "active"}

\* The id of a subscription that ends is not given back.
Becomes(d, sub) == dialogs' = [dialogs EXCEPT ![d].sub = sub]

\* client_on_evsub_state(), of a 2xx, and on_rx_notify(): the client is told under the
\* id of the structure.
RxAccepted(d) ==
    /\ Up
    /\ dialogs[d].way = "out" /\ dialogs[d].sub = "sent"
    /\ Becomes(d, "accepted") \/ Becomes(d, "terminated")
    /\ UNCHANGED <<tables, known, errors, g_shutting_down, fault>>

RxNotify(d) ==
    /\ Up
    /\ Subscribed(d)
    /\ Becomes(d, "active") \/ Becomes(d, "terminated")
    /\ UNCHANGED <<tables, known, errors, g_shutting_down, fault>>

\* SUBSCRIBE is refused or not answered: the subscription is over, and the client is not
\* told.
RxRefused(d) == /\ Up
                /\ Subscribed(d)
                /\ Becomes(d, "terminated")
                /\ UNCHANGED <<tables, known, errors, g_shutting_down, fault>>

\* on_client_refresh(), in time before the subscription expires.  Whether it fails or not,
\* whatever error there is then is sent to the client as an event, that of an older command
\* or callback too.
OnClientRefresh(d) ==
    /\ Up
    /\ Subscribed(d)
    /\ dialogs[d].sub # "sent"
    /\ CallbackFails \/ UNCHANGED errors
    /\ UNCHANGED <<tables, dialogs, known, g_shutting_down, fault>>

\* The session of what is over leaves its dialog, which goes when it was the last.
DialogEnds(d) == /\ Up
                 /\ dialogs[d].sub = "terminated"
                 /\ dialogs[d].sessions > 0
                 /\ dialogs' = [dialogs EXCEPT ![d].sessions = @ - 1, ![d].sub = "over"]
                 /\ UNCHANGED <<tables, known, errors, g_shutting_down, fault>>

-----------------------------------------------------------------------------
(* Subscribers. *)

\* A slip: the lock is released at the end.
LockReleased == 1

\* The sessions of the dialog of a subscriber: its lock, which is not released, and its
\* subscription.
LockAndSession == 2

Arrives(sessions, sub, answers, pinned) ==
    dialogs' = Append(dialogs, Dialog("in", sessions, sub, answers, pinned))

\* The id add() returns.
NewId == Len(g_subscriber_ids)

TakesId == /\ Len(g_subscriber_ids) < IdsMax
           /\ g_subscriber_ids' = Append(g_subscriber_ids, Len(dialogs) + 1)

Tells(ids) == told' = told \cup ids /\ UNCHANGED misled

\* The answer to a step that fails, which may not be made either.
Refusals == {{500}, {}}

\* pjsip_evsub_create_uas() fails.
NoSession == /\ \E answers \in Refusals : Arrives(LockAndSession - 1, "left", answers, FALSE)
             /\ UNCHANGED <<g_subscriber_ids, known, errors>>

\* There is no id.  status is that of the step before, which succeeded: nothing is answered,
\* and the client is told of an arbitrary id.
NoId == /\ Len(g_subscriber_ids) = IdsMax
        /\ Arrives(LockAndSession, "pending", {}, FALSE)
        /\ misled' = misled \/ \E id \in SubscriberIds : misled' = misled \cup {id}
        /\ UNCHANGED <<g_subscriber_ids, told, errors>>

\* dlg_set_transport() fails.  Its false is PJ_SUCCESS: nothing is answered, and the client
\* is told of the subscriber.
NotPinned == /\ TakesId
             /\ Arrives(LockAndSession, "pending", {}, FALSE)
             /\ Tells({NewId})
             /\ CallbackFails

\* A slip: the failure of the answer is taken for success.
NotAcceptedTold == /\ TakesId
                   /\ Arrives(LockAndSession, "pending", {}, TRUE)
                   /\ Tells({NewId})
                   /\ UNCHANGED errors

\* pjsip_evsub_accept() fails.
NotAccepted == /\ TakesId
               /\ \E answers \in Refusals : Arrives(LockAndSession, "pending", answers, TRUE)
               /\ UNCHANGED <<known, errors>>

\* The NOTIFY that follows the 200 fails: it is answered with 500 too.
NotNotified == /\ TakesId
               /\ \E answers \in Refusals :
                    Arrives(LockAndSession, "pending", {200} \cup answers, TRUE)
               /\ UNCHANGED <<known, errors>>

Accepted == /\ TakesId
            /\ Arrives(LockAndSession, "active", {200}, TRUE)
            /\ Tells({NewId})
            /\ UNCHANGED errors

\* process_subscribe_request(): the dialog, the subscription, its id, the transport, the
\* answer 200, a NOTIFY.  Without a dialog nothing stays.
RxSubscribe ==
    /\ Up
    /\ ~g_shutting_down
    /\ More
    /\ NoSession \/ NoId \/ NotPinned \/ NotAccepted \/ NotNotified \/ Accepted
    /\ UNCHANGED <<g_PackageSet, packages, g_subscription_ids, g_shutting_down, fault>>

Served(d) == dialogs[d].way = "in" /\ dialogs[d].sub \in {"pending", "active"}

IdsOf(d) == {id \in SubscriberIds : g_subscriber_ids[id + 1] = d}

\* server_on_evsub_rx_refresh(): SUBSCRIBE again, or for the last time, from a peer that has
\* got into the dialog.  The client is told under the id of the structure.  The error string
\* is cleared, for the errors of the callback.
RxRefresh(d) ==
    /\ Up
    /\ ~g_shutting_down
    /\ Served(d)
    /\ 200 \in dialogs[d].answers \/ dialogs[d].notified
    /\ Becomes(d, "active") \/ Becomes(d, "terminated")
    /\ Tells(IdsOf(d))
    /\ \/ CallbackFails
       \/ /\ pjw_errorstring' = Cleared
          /\ UNCHANGED <<waiting, result, meanwhile>>
    /\ UNCHANGED <<tables, g_shutting_down, fault>>

\* pjw_notify(), with any state of the subscription, by an id the client was told of.
\* pjw_notify_xfer() always fails, since no subscriber is created by REFER.
Notify(id) ==
    LET d == g_subscriber_ids[id + 1]
        subs == IF Served(d) THEN {"active", "terminated"} ELSE {dialogs[d].sub}
    IN /\ Idle
       /\ id \in told \cup misled
       /\ \/ Gone(d) /\ Fault("notify")
          \/ /\ ~Gone(d)
             /\ \/ Command(FALSE) /\ UNCHANGED dialogs
                \/ /\ \E sub \in subs :
                        dialogs' = [dialogs EXCEPT ![d].sub = sub, ![d].notified = TRUE]
                   /\ Command(TRUE)
             /\ UNCHANGED <<tables, known, g_shutting_down, fault>>

-----------------------------------------------------------------------------
\* __pjw_shutdown() unsubscribes all the table has, living or not.
Shutdown ==
    /\ Idle
    /\ ~g_shutting_down
    /\ \/ (\E id \in SubscriptionIds : Gone(g_subscription_ids[id + 1])) /\ Fault("shutdown")
       \/ /\ \A id \in SubscriptionIds : ~Gone(g_subscription_ids[id + 1])
          /\ g_shutting_down' = TRUE
          /\ dialogs' = [d \in DOMAIN dialogs |->
                           IF dialogs[d].way = "out" /\ dialogs[d].sub = "new"
                           THEN [dialogs[d] EXCEPT !.sub = "sent"] ELSE dialogs[d]]
          /\ UNCHANGED <<tables, known, errors, fault>>

Peer(d) == \/ RxAccepted(d)
           \/ RxNotify(d)
           \/ RxRefused(d)
           \/ RxRefresh(d)

Next == \/ RegisterCommand
        \/ SubscriptionCreate
        \/ \E id \in SubscriptionIds : SubscriptionSubscribe(id)
        \/ KeepingCommand
        \/ CommandWaits
        \/ CommandEnds
        \/ RxSubscribe
        \/ \E id \in SubscriberIds : Notify(id)
        \/ \E d \in DOMAIN dialogs : Peer(d) \/ OnClientRefresh(d) \/ DialogEnds(d)
        \/ Shutdown

Spec == Init /\ [][Next]_vars

-----------------------------------------------------------------------------
DialogType == [way : {"in", "out"}, sessions : 0 .. LockAndSession,
               sub : {"left", "new", "sent", "accepted", "pending", "active", "terminated", "over"},
               answers : SUBSET {200, 500}, pinned : BOOLEAN, notified : BOOLEAN]

TypeOK ==
    /\ g_PackageSet \subseteq Events \X Accepts
    /\ packages \subseteq Events
    /\ g_subscription_ids \in Seq(DOMAIN dialogs) /\ Len(g_subscription_ids) <= IdsMax
    /\ g_subscriber_ids \in Seq(DOMAIN dialogs) /\ Len(g_subscriber_ids) <= IdsMax
    /\ dialogs \in Seq(DialogType)
    /\ pjw_errorstring \in {"none", "command", "callback"}
    /\ told \subseteq SubscriberIds
    /\ misled \subseteq SubscriberIds
    /\ waiting \in BOOLEAN
    /\ result \in [ok : BOOLEAN, failed : BOOLEAN]
    /\ meanwhile \in BOOLEAN
    /\ g_shutting_down \in BOOLEAN
    /\ fault \in {"none", "package", "contact", "subscribe", "notify", "shutdown"}

(***************************************************************************)
(* The id of a subscriber leads to its structure as long as the server     *)
(* runs, also when its subscription is over (pjw_notify): its dialog stays *)
(* locked.  That of a subscription does until the subscription is over.    *)
(***************************************************************************)
HandlesLead ==
    /\ fault # "notify"
    /\ \A id \in SubscriberIds : ~Gone(g_subscriber_ids[id + 1])
    /\ \A id \in SubscriptionIds :
         LET d == g_subscription_ids[id + 1]
         IN dialogs[d].way = "out" /\ (Gone(d) => dialogs[d].sub = "over")

(***************************************************************************)
(* A command is answered with an error exactly when it failed itself, and  *)
(* not for what callbacks and commands before it left in the error string  *)
(* (clear_error, pjw_get_error).  One that waits is also answered with the *)
(* error of a callback that failed meanwhile.                              *)
(***************************************************************************)
ResultIsOwn ==
    /\ result.failed => ~result.ok
    /\ ~waiting /\ ~result.ok => result.failed \/ meanwhile

(***************************************************************************)
(* The client sends a NOTIFY only to a peer whose SUBSCRIBE had 200 for an *)
(* answer, unless the transport of its dialog could not be set, or it uses *)
(* an id that it was told of for another SUBSCRIBE, which found the table  *)
(* full: process_subscribe_request tells of both as if nothing had failed. *)
(***************************************************************************)
NotifiesAccepted ==
    \A id \in SubscriberIds :
       LET dialog == dialogs[g_subscriber_ids[id + 1]]
       IN dialog.notified => 200 \in dialog.answers \/ ~dialog.pinned \/ id \in misled
=============================================================================
