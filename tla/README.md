# sip-lab in TLA+

sip-lab lets a Node.js program play the part of SIP user agents: it makes and
answers calls, sends and recognises tones, plays and records media, registers
and subscribes. A JavaScript library (`src/index.js`) starts a server process
(`src/src/server.cpp`) and exchanges lines of JSON with it over a local socket;
the server's logic is one large file, `src/src/sip.cpp`, on top of pjsip and
pjmedia. This directory models that logic in TLA+, checks the models with TLC
and proves the theorems that matter most with TLAPS.

Contents: [the system](#the-system), [module by module](#module-by-module),
[runs](#the-runs-and-their-bounds), [fairness](#fairness),
[proofs](#what-is-proved), [disagreements](#where-the-code-and-what-is-said-of-it-disagree),
[what is left out](#what-is-not-modelled-and-why), [plan](#plan).

## The system

### Threads and locks

| Thread | Runs | Lock |
|---|---|---|
| main (server) | `serve_client`: `__pjw_poll` until no event is left, then one read and the commands it completes | `g_mutex` in `__pjw_poll` (so the callbacks of pjsip run under it) and in every `pjw_*` call |
| clock thread, one per audio endpoint | the ticks of the master port, and so the bridge, the ports and the tone detectors | `on_inband_dtmf`, `on_bfsk_bit` take `g_mutex`, only to buffer a digit |
| stream threads of pjmedia | `on_dtmf` (RFC 2833 digits) | as above |
| `digit_buffer_thread` | every 100 ms, `check_digit_buffers` | `g_mutex` |
| Node.js | `index.js`: one event loop | none needed |

Events go the other way: `dispatch_event` appends a line to the deque
`g_events`, `__pjw_poll` removes one, `serve_client` writes it to the socket and
the library emits it. `dispatch_event` takes no lock of its own.

### Components

| Component | State | Operations | Hard about it | Correct when | Modules |
|---|---|---|---|---|---|
| Id tables (`idmanager.cpp`) | circular buffer of free ids, map id -> pointer | add, get, get_id, remove, remove_by_val | the full buffer; reuse of ids | no id lost or doubled; released ids come back last | `IdManager`, `IdQuarantine`, `OneCallProofs` |
| Call answering | `pending_request`, `pending_rdata`, `inv_initial_answer_required`, `local_sdp_answer_already_set` of a Call | on_rx_request, on_rx_reinvite, process_invite, call_respond, call_terminate | respond names a call and not a request, and crosses events on its way; steps of respond fail one by one | one final answer per request; respond goes to the request told of last | `CallAnswering`, `OneCallProofs` |
| Call table and call events | `g_call_ids`, `g_LastCalls`, `g_events` | call_create, incoming INVITE, on_state_changed, on_rx_response, poll | addresses are reused; results overtake events of the same read; call_create fails in seven places | an id stands for one live call; the client's view follows the table; events name the right call | `CallTable`, `CallTableProofs` |
| DTMF and bfsk reporting | per-mode buffers and timestamps, two timers | detectors, check_digit_buffers, aggregation on/off | media threads without the lock; timers read early; full buffers | no digit lost, moved or split from its burst, and each reported, outside the cases the properties name | `DigitAggregation`, `AudioEndpointProofs` |
| Audio endpoint restart and shutdown | master port, clock thread, `g_mutex`, `media_count` | on_media_update, close_media, on_state_changed, start/stop of detection | main joins the clock thread, which takes main's lock | asserts hold, "ok" means audio, calls end | `MediaShutdown`, `OneCallProofs` |
| Client library and command server | `_connectPromise`, `_pending`, `_recvBuf`; `recv_buf` | _cmd, _connect, _onSocketData, _handleLine, _rejectAll; serve_client | torn, long and cut lines; server death | each command executed once, in order, and settled by its own answer | `CommandChannel`, `CommandService`, `JoinedSequences`, `CommandChannelProofs` |
| Transports (`pjw_transport_*`, `sip_transport_ws.c`) | `g_transport_ids`, `g_TransportMap`; the WebSocket objects | transport_create, destroy, get_info; connections that come and go; the lookup by tag | tags that collide; objects that outlive their entry or the reverse; transport_create polls while it connects | a tag leads to a transport of the table; no socket is left; the server stays up | `Transports`, `TransportsProofs` |
| Accounts and registration, out-of-dialog requests | `g_account_ids`, `g_request_ids`, and the memory the structures lie in | account_create, register, unregister, on_registration_status; request_create, request_callback, on_rx_request, request_respond | ids are never released; memory is overwritten or freed under them; ids are taken late or left behind | answers and reports name their request and account | `OutOfDialog`, `OutOfDialogProofs` |
| Subscriptions and subscribers | `g_subscription_ids`, `g_subscriber_ids`, `g_PackageSet`, the one `pjw_errorstring` | SUBSCRIBE both ways, NOTIFY, refresh, register_pkg | dialogs end under their ids; failures taken for successes | ids lead to memory that is there; a command gets its own error; only peers that were accepted get a NOTIFY | `Subscriptions`, `SubscriptionsProofs` |
| Media endpoints and SDP | `call->media[]`, `local_sdp`, the negotiation | process_media, create, respond, reinvite, on_rx_offer2, on_media_update, gen_media_json | renegotiation; polling inside a command while waiting for ICE; failures half way | line and endpoint are of one medium; transports are closed by someone | `MediaEndpoints`, `MediaProofs` |
| MRCP and TCP media | receive buffer, listening and connected sockets | on_accept_complete, on_connect_complete, on_data_read | message framing over a stream | each message reported once, whole | `TcpMedia`, `MediaProofs` |
| Feature ports | stream, stream port, conference, clock, and the ports of tones, players, detectors, fax, speech | start_*, stop_*, send_dtmf, restart_media_stream | the stream is replaced under the ports; slot 0; steps that fail one by one | what is called ok is wired; a stream or port is misused only behind a failure that is named | `AudioPorts`, `AudioEndpointProofs` |
| Shutdown | `g_shutting_down` | `__pjw_shutdown` | ids that name what is gone | nothing that is gone is read | parts of `OutOfDialog` and `Subscriptions` |
| Codecs, flags, log level | globals | set_codecs, set_flags, set_log_level | - | - | not modelled |
| Event templates | - | `make_evt_*` | the NUL in a buffer (modelled in `DigitAggregation`) | - | abstracted |
| N-API binding (`addon.cpp`, `index_napi.js`), detectors, fax and speech ports, chainlink ports, Rust port, samples | see [below](#what-is-not-modelled-and-why) | | | | not modelled |

How they interact: every handle of the public interface is an id of an id table.
`CallTable` instantiates `IdManager` for `g_call_ids`, whose ids come back; the
tables of requests, accounts, subscriptions and subscribers never release an id,
so there they are sequences. `CallAnswering` follows one call of the table from
its INVITE to its end; its `Disconnect` is the `Disconnect` of `CallTable`.

The media of one such call are looked at from four sides. `MediaEndpoints`, which
extends `TcpMedia`, has the endpoints and the lines of SDP, and its
`on_media_update` ends with media that are on or off. `AudioPorts` takes each
audio line as on or off and has what happens to the stream, the conference and the ports.
`MediaShutdown` has the mutex, and who waits for whom while an endpoint is
restarted or closed. `DigitAggregation` has the digits, with steps under
`g_mutex` taken as single actions.

`Transports` has what a call depends on outside itself: the transport an INVITE
came through, found by its tag. `OutOfDialog` and `Subscriptions` share
`on_rx_request` and `__pjw_shutdown` with the others; each has the part that
touches its own tables. `CommandChannel` is the way commands come in and results
go out; the events, which use the same socket, are the `Poll` actions of
`CallTable` and `DigitAggregation`.

## Module by module

Where one proof module is about several components, their specifications have names of
their own (`AnsweringSpec`, `ShutdownSpec`, `DetectorSpec`, `MediaSpec` and the `Init`,
`Next` and type invariants that go with them).

In all modules names follow the source, an action is a whole handler, and
histories (marked as such) record what the properties speak of and are read by
no guard. Operators introduced by "A slip" are plausible bugs, each the change of one
definition that some property has to notice; they are not part of `Next`.

**`IdManager`** (`idmanager.cpp:3-49`). `ids` is the `boost::circular_buffer` of
free ids, the front at 1, and `id_map` the `std::map`. `Add`, `Remove` and
`RemoveByVal` are the successful operations; an unsuccessful one returns false
and changes nothing. `PushBack` keeps the semantics of a full circular buffer
(the front element goes), although the invariant `Accounted` shows that it is
never full when pushed to. **`IdQuarantine`** is what callers rely on, without a queue: each free
id waits for a set of others. The refinement maps `before[i]` to the ids in
front of `i`. Late events carry ids, so it matters that an id just released is
the last to be used again.

**`CallAnswering`** (`on_rx_request`, `process_invite`, `on_rx_reinvite`,
`pjw_call_respond`, `pjw_call_terminate`, the loop of `serve_client`). One call, a bounded
number of requests of its peer, each INVITE with or without an offer, and the client:
events wait in the server (`told`), then in the socket (`heard`), while `commands` are on
their way. A request may come while the client's answer to an earlier one is in the socket;
respond then goes to the one `told` of last, which the client may not have read of, and
`AnswersTheLatest` says so. The socket is read only when every event has been sent
(`phase`), so a request the client was not told of is answered only if it came within the
read, in the wait for ICE of another command (`waiting`). `RespondInvite`, `RespondRefused` and
`RespondNotSent` are the three ways through `pjw_call_respond` for an INVITE: sent;
refused by pjsip because no transaction is open; and failed between `pending_request = -1`
and the send. `inv_state` and `invite_tsx` belong to pjsip's invite session and are
modelled as far as the code depends on them: an INVITE is refused while another is open,
`pjsip_inv_answer` needs an open transaction. Codes are four classes, since the code
compares with 183, 200 and 300 only.

**`CallTable`** (`call_create`, `on_rx_request`, `on_state_changed`, `on_rx_response`,
`dispatch_event`, `serve_client`). The code finds a call by the address of its `Call`,
which lies in a pool that pjsip recycles; so a call here has an address, and two calls may
have one address one after the other. `client` is the map from ids to calls that a careful
user of the library keeps: it learns of a call by the result of `call.create` or by
`incoming_call` and forgets it with `call_ended`. Events are written while `phase` is
"poll", until none is left; then the lines of one read are executed, as many as it brought,
and their results are written ahead of the events they cause. So the result of a
`call.create` may overtake the `call_ended` of the call whose id it reuses; such a call, and
one whose result showed the error of a callback instead of its id (`CreateUnreported`), is
`unnamed`. The constant `FailingSteps` says which
of the steps of `call_create` that do not undo everything may fail (`process_media`,
`dlg_set_transport_by_t`); the steps that do release the id are `CreateFailsWithId`.

**`DigitAggregation`** (`on_dtmf`, `on_inband_dtmf`, `on_bfsk_bit`, `check_digit_buffer`,
`check_bit_buffer`, `digit_buffer_thread`, `pjw_dtmf_aggregation_on/off`,
`pjw_bfsk_aggregation_on/off`, `__pjw_poll`). A detector tests the timer without the lock
(`Detect`), then either buffers the digit under the lock (`Buffer`) or pushes an event
without it. The unlocked push is two steps: read the end of the deque, write behind it;
`PushedAt` says what the deque is afterwards if others moved its ends meanwhile. Digits
are numbers in order of detection. Timestamps are milliseconds of the day, as in the code,
and 0 means that nothing waits. A burst of 257 digits fills the buffer of 257 bytes, and
the NUL behind it falls into the next field: `Overrun` keeps that. A behaviour has one of
the `Uses`: which detectors run, which timers the client sets, how many other events there
are, and when it starts. What the code loses or moves is in the model, and histories say
which digits it was: `dropped` (a full buffer), `clashed` (an event pushed while another
thread pushed), `parked` (waiting when the timer was switched off).

**`MediaShutdown`** (`__pjw_poll`, `on_media_update`, `restart_media_stream`,
`create_audio_endpoint_conf`, `close_media`, `on_state_changed`,
`on_inband_dtmf`, `digit_buffer_thread`). One call and one audio endpoint, the
three threads, and `g_mutex`. `pjmedia_master_port_stop` is two steps, to tell
the clock thread to quit and to join it (`Joined`). The clock thread goes
through a frame, in which a detector may report a digit: find the call, then find the endpoint
(with the `assert`), then take the lock or dispatch. A restart ends in one of three ways:
done (`Restart`), with "setup_failed" (`RestartFails`), or, where a feature cannot be connected to the
new stream, with no event at all (`RestartReturns`). `master_port` tells one that was
created and never started ("new") from one that runs; both, and none, are called "ok".

**`CommandChannel`** (`index.js:29-149`, `serve_client`). Lines travel in pieces; a read
takes any number of them, so a line may be torn anywhere, several may come in one read,
and one may be longer than `recv_buf`. The server may die at any moment. `Long` commands
do not fit the buffer; `Wordy` ones get an answer that `send_error` or `send_string` cuts,
which is then not JSON. **`CommandService`** is what a program relies on, without lines,
buffers and sockets: batches of commands whose promises wait are executed in order,
promises are answered behind that or rejected at any time, once. `CommandChannel`
implements it with the same three variables (`ImplementsService`); `ExecutedInOrder`
follows from it. Sequences of lines and of messages are joined by **`JoinedSequences`**, a
recursive function that proofs can be about.

**`Transports`** (`pjw_transport_create/destroy/get_info`, `build_transport_tag*`,
the lookup in `on_rx_request`, and `sip_transport_ws.c`). `g_transport_ids` keeps
for each id a tag and a pointer; what it points to is one of pjsip's objects in
`tp`: a socket, a factory, a WebSocket listener or connection. An object has a
life of its own (`up`, `closed`, `shut`, `freed`), because pjsip's references
and not the table decide when it goes. A read through a dangling pointer stops
the model with a `fault` that says which. `pjw_transport_create` of a WebSocket client is
two actions, since it polls pjsip in between: `ConnectWs` and `ConnectReturns`.
`careless` is a history: the client or a peer did one of the things the server
is known not to survive; `StaysUp` then shows that nothing else brings it down.

**`OutOfDialog`** (`pjw_request_create`, `request_callback`,
`pjw_request_respond`, `on_rx_request`, `pjw_account_*`,
`on_registration_status`, `__pjw_shutdown`). An id leads to an address and an address to
whatever is in `memory` there now: a `Request` that came in lies in the memory
its transport receives packets in, so the next packet (`RxOther`, `RxRequest`)
overwrites it, possibly with another `Request`. `requests` and `accounts` say
what came of each, `stale` which ids have lost theirs, and `faulted` the id whose structure
was read when it was gone.

**`Subscriptions`** (`pjw_register_pkg`, `pjw_subscription_create/subscribe`,
`client_on_evsub_state`, `on_client_refresh`, `process_subscribe_request`,
`pjw_notify`, `__pjw_shutdown`). Each subscription is the session of a dialog, in whose
pool its structure lies; `sessions` counts what keeps the dialog, the lock of
`pjsip_dlg_create_uas_and_inc_lock` among it. `pjw_errorstring` is the one error string, with
who left it: most commands clear it and end with an error if it is set (`Command`); those that do
neither keep it (`KeepingCommand`); one that waits for a connection or for ICE polls, so
callbacks fail within it (`CommandWaits`, `CommandEnds`). `process_subscribe_request` is one action per way through
(`RxSubscribe`), with each step that may fail: no answer at all, a 500 behind the 200, an
id of another subscriber (`misled`), a transport that was not set (`pinned`).

**`MediaEndpoints`** (`process_media` and the `create_*` behind it, the offers and answers
of `pjw_call_create`, `pjw_call_respond`, `pjw_call_reinvite` and `on_rx_offer2`,
`on_media_update`, `gen_media_json`, `close_media`). `ProcessMedia` takes a list item by
item through the state of the call, with one `mishap` at one item: refused before it
changes anything, a transport dropped, a failure behind the point where the endpoint is
stored, or the call ended by a poll in the wait for ICE candidates. `on_media_update` is a
step per line (`LineOff`, `LineAudio`, `LineMrcp`), because `LineAudio` may poll
(`IceDone`). The negotiator is pjmedia's and external: it matches lines by type and by
their rank among those of the type (`Partner`), in an answer (`Answer`) and in an offer
for a session that has lines already (`Reordered`). The peer's offers, in a re-INVITE's 2xx or in an UPDATE,
are answered at once by `on_rx_offer2`. A line that fails ends the update with its own status, or silently where
`restart_media_stream` does; a TCP socket that `start_tcp_media`, `create_tcp_socket` or
`on_accept_complete` leaves open is one of the `strays`. **`TcpMedia`** is the connection of
the mrcp endpoint: bytes are units, messages are sequences of them, and `on_data_read`
cuts whatever pieces arrive.

**`AudioPorts`** (`pjw_call_start_*`, `pjw_call_send_dtmf/bfsk`,
`audio_endpoint_stop_op`, `restart_media_stream`, `create_audio_endpoint_conf`,
`connect_feature_port_to_stream_port`, `close_media_endpoint`). A medium has a
stream, the stream's port, a conference, a clock and, for each feature, a port
that is made, added to the conference and linked to the stream's: three steps
that may each fail, leaving the ones before. `restart_media_stream` is a step, or two with ICE;
commands come between two updates, and not in the wait for ICE. The use of
a stream that was destroyed, of its port, or of a slot that is not the feature's stops the model with a `fault`
on a medium (`faulted`). One such use is not counted: every re-INVITE reads the format of
the old port and removes it (`sip.cpp:6109`, `6140`) after the old stream was destroyed
(`5998`). The port's structure lies in the pool of the dialog, which is still there, and
destroying a stream leaves it as it was; what is read is what the port was made with. Features that the code
handles by the same pattern are one class (`Classes`); each command is an action of its own.

## The runs and their bounds

| Run | Question | Bounds, and why they are enough |
|---|---|---|
| `ids` | Is an id ever lost, doubled or reused early? Does the table implement `IdQuarantine`? | 4 ids, 2 pointers: every order of use and release, a pointer under several ids, the empty and the full table. The theorems cover every capacity. |
| `answering` | Does respond always answer the request told of last, once? | 3 requests, 1 command on its way: an INVITE, a re-INVITE or an in-dialog request, each coming while the answer to the one before is written, sent, or waits for ICE. The theorems cover every number of both. |
| `call_table` | Does each id name one live call, does the client's view follow the table, do `call_ended` and `response` name the right call? | 3 calls, 3 addresses (symmetric), 2 ids, 2 remembered calls, 3 waiting events: addresses and ids are used again, also within one read, and the id table overflows. The theorems cover every number. `FailingSteps = {"media"}`. |
| `digits` | Is a digit lost, moved, split from its burst or never reported? | Six uses (`MCUses`): inband and bfsk aggregated beside another event; inband with its timer switched on and off; rfc2833 not aggregated, beside an event; two detectors not aggregated; a full rfc2833 buffer beside an inband one; a start 1 ms before midnight. Buffers of 2 (`MAXDIGITS = 1`) so that they fill up, up to 3 digits a detector, 4 ms. |
| `media_end` | Does a detector find its endpoint while the call is closed, does "ok" mean audio, and do calls end as long as nothing is aggregated? | everything unbounded; the state space is finite. Aggregation may be on or off, and any step may fail. |
| `media_deadlock` | Does each call end, with aggregation on? (No.) | as above |
| `channel` | Do library and server implement `CommandService` (each command runs at most once, in order, none after its promise was rejected, and no promise settles twice)? Is each answered by its own answer, and does each settle? | 5 commands, the second too long, the third with a cut answer, 2 pieces a line and a buffer of 3: lines torn across reads, an overflow with complete lines before and behind it. |
| `transports` | Do tags lead to their transport, is anything left bound, does the server survive what comes in, does connecting return? | udp, tcp, ws and its client, 2 ids, 2 objects, one port, one host: the second transport always competes with the first for port, tag and id. TLS is TCP under another name. |
| `out_of_dialog` | Do answers, responses and statuses name their request and account? | 3 requests and accounts for 2 ids each, 2 receiving transports with 2 places each, 2 addresses of registrations: both tables fill up, memory and addresses are used again. |
| `subscriptions` | Do ids lead to what is there, is a command answered with its own error, does a NOTIFY go only to a peer that was accepted? | 3 dialogs both ways for 2 ids each, 1 event with 2 content types: a full table, a package registered twice, callbacks that fail before, in and behind a command. |
| `media` | Do line and endpoint match through renegotiations that fail anywhere, is every transport closed by someone, are messages cut right? | audio with mrcp before, behind or off, offers in either order, with a line that is off, or none, 4 endpoints made, 3 commands and messages, a buffer of 6 for messages of 2 and 5 units: a body that looks like a header, a message torn, two in one piece, an overflow. |
| `audio_ports` | Is what was called ok wired, does a started feature go on, is a stream misused only behind a failure on the same medium? | 2 media, one with ICE, four classes of features, 3 negotiations and 2 commands: a feature before, between and after restarts, failing at each step; a clock that went missing in the second negotiation shows in the third. The theorems cover every number. |

What the passing runs show is in the comment of each property in its module. Several
properties excuse cases in which the code does not do what one would want; each excuse is
in the property's comment, is as narrow as TLC allows (a history tells exactly when it
applies) and is listed [below](#where-the-code-and-what-is-said-of-it-disagree). Deadlock
is checked only in `ids`, whose tables can always go on; the other models stop when their
bounds are reached, their call is over or the server is gone.

The scaling of data to bounds is by the same comparison that the code makes:
`MAXDIGITS`, `BufSize`, `MAX_TCP_DATA`, `LastMax` and `IdsMax` are constants of the modules and
only their order relative to what is put in matters. `DayMs` keeps its real
value; one use of `digits` starts just before midnight.

## Fairness

- `DigitAggregation`: time passes; the detectors finish what they began; the
  checker wakes every 100 ms and the main thread polls every 50 ms, each in an
  unconditional loop (`digit_buffer_thread`, `serve_client`). Weak fairness for each.
- `MediaShutdown`: the main thread polls for ever; it may find the mutex taken
  each time it looks, but its other holders keep it for a moment and sleep in between, hence
  strong fairness for taking the mutex (`PollLocks`, `BufferDigit`), and weak
  fairness for everything that is not about the mutex. A poll that runs the end
  of a session runs `on_state_changed`, and a frame of the clock ends.
- `CommandChannel`: the server comes up or dies, and reads while there is
  something to read (`select` in a loop); Node's event loop delivers what has
  happened. Weak fairness for each. Nothing forces a server to die.
- `Transports`: the wait for a WebSocket connection ends by the clock
  (`pjsip_ws_transport_connect` gives up after five seconds), so `ConnectReturns` is weakly fair; nothing else is.
- The other modules have no liveness property: what ends a call, answers a
  request or completes a negotiation is the client or the peer.

## What is proved

TLAPS checks these for every value of the constants, under the modules' named
assumptions on them (`CapacityAssumption` and so on: capacities are positive,
switches Boolean).

| Theorem | Says | Argument |
|---|---|---|
| `OneCallProofs!NoIdLostOrDoubled`, `IdsTypeCorrect` | `ids` is a permutation of the ids not in use | `IInv` = types, `Partition` and `Accounted`. `Partition` alone is not inductive: that `push_back` drops nothing needs the count `Len(ids) + Cardinality(InUse) = Capacity`. |
| `OneCallProofs!IdsRefineQuarantine` | the table implements `IdQuarantine` | `AddAhead` and `RemoveAhead` say how the ids ahead of each free id change: an `Add` takes the front away from all, a `Remove` puts everything free ahead of the id. |
| `OneCallProofs!PendingCorrect`, `OneFinal`, `LatestAnswered`, `AnsweringTypeCorrect` | `pending_request` tells what is pending; no request gets two finals; respond answers the request told of last, or one that came within the read | The strengthening is `OpenTransactions`: whatever a final answer can go to (the open INVITE, the pending in-dialog request) has had none, the pending request is the latest, and a pending INVITE is the open one. What the client was told of, and what came in which phase, is `ToldInOrder`: while the server reads commands, only requests of that read are untold. Without `OpenTransactions` a state with an answered request still pending would be a counterexample to induction. |
| `CallTableProofs!TypeCorrect` | types, whatever fails | A search by address finds an id of the table: least elements exist (`LeastExists`, from the well-foundedness of `<`). |
| `CallTableProofs!IdsCorrect` | each id names the one live call at its address, if `"transport" \notin FailingSteps` | `IdsDenoteLiveCalls` is inductive with the types of the calls: an id is added for an address that no other call holds, and `remove_by_val` removes the id of the call that ends because no other call has its address. With `"transport"` it is false: see below. |
| `CallTableProofs!ViewCorrect`, `EndedCorrect`, `ResponsesCorrect` | what the client will know when the waiting events are read is what is in the table, but for the calls that are `unnamed`; a `call_ended` names the call that ended, unless that call is unnamed or an unnamed one stands in its place; the response to a live call is reported under its id; all if `"transport" \notin FailingSteps` | `ClientInv`. The client's view is a recursive function over the waiting events (`Views`): that there is such a function is `FollowerExists`, and its equation `ViewsEquation`; what it does to the table is an induction over the number of events, done over a set of naturals (`NatSetInduction`). `ViewAgrees` needs that no two calls hold one address (`OneHolds`), that no free id is in use or free twice (`IdsApart`), that a live call is found under its id (`NamedLive`), and that while commands are read only events of that read wait (`ReadDrained`), since the result that overtakes a call's end is that of the same read: `Disconnect` removes by the address only, and an id given out twice or another call at the address would let the view and the table part. |
| `OneCallProofs!AssertionHolds` | `assert(media_id >= 0)` never fails, whatever step of a restart does | `ClosedForGood`: a call without endpoints has no clock thread and no id, and without an id no callback starts a clock. `StopsForACall` carries the id through the join. |
| `OneCallProofs!OkIsTrue`, `ShutdownTypeCorrect` | media reported "ok" has a clock that runs, unless its conference has no master port, or one never started, or its last restart returned without a word | `ClockHasPort` (there is a clock thread exactly while the port runs or stops) and `AudioFlows` (the property in the middle of a poll). |
| `SubscriptionsProofs!HandlesCorrect`, `ResultsCorrect`, `NotifiesCorrect`, `TypeCorrect` | an id leads to memory that is there as long as it has to; a command fails with an error of its own, or of a callback that ran while it waited; a NOTIFY goes to a peer whose SUBSCRIBE had 200, outside the two cases that are named | `Structure`: what keeps a dialog is known from its direction and from whether its subscription is over (`Keepers`), and an id names a dialog of its own direction (`TablesLead`). `HandlesLead` alone is not inductive: nothing in it says that a dialog which is still there has the sessions that the next step takes from it. Every action adds a dialog (`DialogAdded`), changes the state of one (`SubChanges`) or leaves all. |
| `OutOfDialogProofs!AnswersCorrect`, `FinalsCorrect`, `ReportsCorrect`, `TypeCorrect` | request_respond answers the request of its id, and none twice, unless the memory was taken; responses are reported under their id | `UasInv`: each place in memory is about one request, no two about the same, and what waits for an answer there has had none (`Cell`); an id outside `stale` still leads to its own (`Leads`). The properties alone say nothing of memory and are not inductive. Memory is taken (`MemoryTaken`), a request is added (`RequestAdded`), or one is answered (`RequestRespondInv`). |
| `OutOfDialogProofs!StatusCorrect`, `ReadsCorrect` | a status names its own account or an id left behind; what request_respond reads is there, unless the id it was given is `stale`, and what shutdown reads, unless an id was left behind | `RegInv`: the client's id of an account leads to its registration (`Registered`), no two accounts share an address, and what was sent has an id for `get_id()` to find (`HasId`); so the least id of the address is the account's, or no account's. |
| `TransportsProofs!TagsCorrect`, `ClientCorrect`, `SocketsCorrect`, `TypeCorrect` | a tag leads to its Transport, the client knows the ids there are, no socket stays bound behind the table | `TagsLead` and `ClientKnows` are inductive with the types, each step (`PutInv`, `EntryAdded`, `DestroyInv`, `BecomesInv`, `GoneInv`) changing one entry or one object; `ObjectOK` says whose sockets there are. |
| `TransportsProofs!ServerStaysUp` | the server goes down only when the client or a peer was `careless` | `AllCareful`: until then every entry has an object and its tag leads to it alone (`EntryOK`), whatever can receive has an entry of its own or of the listener that accepted it (`HasEntry`), and what may still be written to has its socket. `StaysUp` alone says nothing of the state before a fault. |
| `AudioEndpointProofs!WiredCorrect`, `StartedCorrect`, `FaultsCorrect`, `QuietCorrect`, `TypeCorrect` | audio reported "ok" has its stream in the conference, a clock that runs and its features linked to the stream; a started feature goes on; a stream, its port or a slot is misused only on a medium, or by a feature, that `FaultsAreForetold` names; a medium that is off, or of a call that is over, has no conference and no clock; for any number of media, negotiations and commands | `IInv`: `FaultsAreForetold`, `NothingPlaysOn`, and as long as there is no fault `Ordered`, `Paused` and, for each medium, `QuietAt`, `ForetoldAt`, `JoiningAt` and `WiredAt`. The properties say nothing of a medium in the middle of an update or of its wait for ICE (`Paused`), of the port of a feature that was made and never added, or of the stream an earlier failure left destroyed (`ForetoldAt`), of what a negotiation that keeps the format will find, a clock that is missing among it (`JoiningAt`), or of the media an update has done so far (`WiredAt`). Each step of an update works on one medium and leaves the others, each command on one or on all. |
| `AudioEndpointProofs!BurstsCorrect` | a buffer is reported only when it has been quiet for longer than its timer, for all constants, over midnight too | `Timed`: a timestamp is 0 or the time of day of the last digit. A day that ends makes a waiting time negative and never long (`DayTimes`). |
| `AudioEndpointProofs!NothingLostCorrect`, `OrderCorrect`, `DetectorTypeCorrect` | no digit is lost but at a full buffer or where two threads pushed at once; the digits of a channel reach the client in their order, but for those that waited when their timer was switched off; types; for any detectors, timers and other events | `DetectorInv`, channel by channel: what was detected is with the client, in an event, in the buffer, in the detector's hands, dropped or clashed (`Held`), in this order but for what is parked (`Queued`), what is kept was detected before the digit in hand (`KeptDetected`), what waits while the timer is off is parked (`OffParked`), and a NUL is at the front of its buffer only (`NulFirst`). `Race` says what a push without the lock knows: the place it read is the end of the deque as long as it has not met another push. The properties alone say nothing of these. |
| `CommandChannelProofs!OrderCorrect`, `TypeCorrect` | the server executes commands in the order of the calls, each at most once, whatever reads tear and buffers discard | `Order`: the pieces between client and dispatch are in the order of their commands (`InputOrdered`), of commands that were called (`CalledBefore`), and behind all that was executed (`ExecutedAhead`). `ExecutedInOrder` alone says nothing of what is still on its way. |
| `CommandChannelProofs!AnswersCorrect` | a promise is resolved by the answer to its own command, which was executed | `RepliesExecuted`: what is on its way back answers something executed. |
| `CommandChannelProofs!ServiceImplemented` | library, connection and server implement `CommandService` | `PromisesInv`: what a step may settle waits (`PromisesWait`), nothing is pending without a connection (`AttemptFits`), and once a promise was rejected there is no server that could execute (`RejectedAtTheEnd`). Each step is a call, a batch (`ReadPromises`), answers (`DataPromises`), failures or a stutter. |
| `MediaProofs!CutsMessages`, `MessagesCorrect` | wherever the bytes are cut, the client gets the peer's messages whole, in order and once | `TcpInv`: the messages not yet heard, joined, are what is in the buffer and on the wire, and the buffer holds no whole message. The size `on_data_read` finds depends on the message in front only, and the loop takes a whole number of messages: an induction over their number. |
| `MediaProofs!PlacesAgree` | the endpoint `process_media` finds for an item, and the line the negotiator puts there, are of one medium | Both count: `find_media_by_json_descr` takes the first place of the type that is not taken, which is the place with as many of the type before it as there were items of the type (`Matches`); the negotiator matches by that rank. An induction over the items of the list, with a mishap at any of them. |
| `MediaProofs!LinesCorrect`, `ReportsCorrect`, `TransportsCorrect`, `MediaInvariant` | line i of the SDP is that of `call->media[i]`; `media_update` reports each medium with its own line; each transport that is open, and the socket of each mrcp endpoint, will be closed or is lost on a path that is named (sockets that never became an endpoint's, the `strays`, are not spoken of) | `MediaInv`: a transport or a socket that is open is that of a medium in use or lost (`OpenIsHeld`, `SocketIsHeld`); the ports of the session's lines are those of the places (`PortsHold`); the places have the types of the lines between negotiations, fit the lines there will be during one, and those of the update while it goes through them (`Matched`, `UpdateInOrder`). `LinesMeetEndpoints` is about the line an update is at and says nothing of the offer that is out or of the lines ahead. What one list does to the call is `Sound` for every prefix of it. |

The constants carry the conditions: a theorem with a condition on them (`"transport"
\notin FailingSteps`) says of the code that nothing else than that
failure breaks the property. Of the conditions that are not about failures:

- `MessageAssumption` (`TcpMedia`): the peer frames what it sends, a message being as long as its header
  says. `ListsAssumption` (`MediaEndpoints`): lists and offers are sequences of audio and mrcp items. `MaxEndpoints` bounds
  the commands, so that endpoints never outnumber the places of `call->media`, which the code does
  not check either.

What recursive functions compute (`Views`, `Joined`, `Cut`, `ProcessMedia`) is proved by
induction over naturals in the form of a set that is all of them (`NatSetInduction`, from the
well-foundedness of `<`), and their existence likewise; so neither RECURSIVE operators nor the
induction theorems of the library are needed.

Only model-checked, on the instances above: the liveness properties (`EveryDigitReported`,
`PlainCallsEnd`, `FittingCommandsSettle`, `ConnectReturned`), since fairness and ENABLED are out
of the prover's reach. Every invariant and every action property of the passing runs, and the
refinements of `IdQuarantine` and `CommandService`, are stated by a theorem.

The type invariants are not among the properties of the runs: they would show nothing that
the others do. All are proved, those of `MediaEndpoints` and `TcpMedia` as `MediaShape`
and in `TcpInv`, parts of `MediaInv`. `MediaInv` was checked by TLC on a larger instance
than that of the run `media` (without the part of `TcpInv` that TLC cannot enumerate)
before it was proved.

No module here uses a RECURSIVE operator: it would bar proofs.

## Where the code and what is said of it disagree

One run is expected to find a violation, the finding of `PROJECT.json`.
`media_deadlock`: with aggregation on, a detector that waits for `g_mutex`
and a main thread that, holding it, joins the detector's thread wait for each
other (`sip.cpp:5898` and `997`, `1039`); the server stands still, and the
`call_ended` that `DOC.md:492` announces does not come.

Everything below is known from reading the code and from trial runs with other
constants or without an excuse, and has no run of its own. Where a property
excuses it, the property is named.

Calls and answers

- After `call.respond` failed on headers or on the send of a 2xx
  (`sip.cpp:2780-2798`), or when an in-dialog request comes while an INVITE waits
  (`sip.cpp:6594`), respond says that nothing is pending (`2653`); the INVITE was
  not answered and no longer can be.
- A 183 with SDP and then a refusal of a re-INVITE leave
  `local_sdp_answer_already_set`; the media given for the next re-INVITE, which
  `DOC.md:248` says it is answered with, are ignored (`sip.cpp:2717`).
- respond goes to the request told of last, not to the one the client had read of
  when it wrote the command (`sip.cpp:2653`): an INFO that crosses the answer to an INVITE gets that answer.
  No field of the command or of the event says which request is meant.
- A re-INVITE or INFO that comes while respond waits for ICE replaces `pending_rdata`, whose clone
  is given back under the respond that waits (`sip.cpp:6594`). That read is not in the model.
- The result of a `call.create` is written at once and the events of its read later
  (`server.cpp:764-776`): terminate and create in one read give the client a new call and
  then the `call_ended` of the old one under the same id, if the table is short of ids.
  `ViewAgrees` and `EndedNamesItsCall` excuse these calls (`unnamed`).
- `call.create` succeeded and shows an error that a callback left while it waited for ICE
  (`sip.cpp:3285`); the client never gets the id. (`unnamed` too.)
- Of two ended calls at one address, the late response of the second is reported
  under the id of the first (`sip.cpp:6832`). `LiveResponsesNameTheirCall` is about calls that live.
- `dlg_set_transport_by_t` failing in `call_create` terminates the dialog before
  `mod_data` is set and leaves the id behind (`sip.cpp:3618`): `IdsDenoteLiveCalls`
  fails with `FailingSteps = {"media", "transport"}`.

Media

- `call->media[]` and `local_sdp->media[]` are walked with one index
  (`sip.cpp:6265`), though an offer of the peer orders one and the client's
  commands the other; a re-INVITE that is refused, or made while another is being
  negotiated, has changed the media already (`pjw_call_reinvite` looks at the
  negotiation last), and `gen_media_json` may then read `local_sdp->media[-1]`.
  `LinesMeetEndpoints` and `ReportedIsActive` excuse these (`astray`).
- `call->media` has `PJMEDIA_MAX_SDP_MEDIA` places (`sip.cpp:453`), which `process_media` does not check.
- `process_media` reports success when a step behind the first failed without
  `set_error`; `create_media_endpoint` then leaks the transport it made, as does
  a call that ends in a poll of the wait for ICE, whose `media_update` comes after
  `call_ended`. `TransportsAccounted` and `NothingPlaysOn` excuse these (`lost`, `overtaken`).
- `start_tcp_media` returns from four errors without closing its socket
  (`sip.cpp:5852-5886`), and `create_tcp_socket` and `on_accept_complete` do so too. Nothing
  refers to such a socket any more (`strays`); `TransportsAccounted` does not speak of them.
- `create_audio_endpoint_conf` returns false, which is `PJ_SUCCESS`, when the
  clock does not start (`sip.cpp:947`), and when the conference, its null port or its master port
  cannot be made (`913-941`). `OkMeansAudio` excuses it by the state of
  `master_port`, `OkMeansWired` by `unnoticed`. The fault outlives the
  negotiation: a re-INVITE that finds no clock reports "setup_failed" only if it
  changes the format, and the one behind it says "ok" again although no clock
  runs, since without `master_port` nothing is restarted (`sip.cpp:5968`, `6160`).
- A failing `connect_feature_port_to_stream_port` makes `restart_media_stream`
  return with the clock stopped (`sip.cpp:5969`, `6153`) and without any event: the "ok" of an earlier negotiation is
  the last the client hears. (`unnoticed`, and `reported` in `MediaShutdown`.)
- After a failing `pjmedia_stream_create` the endpoint keeps the stream that was
  destroyed (`sip.cpp:5998`), and the next negotiation destroys it again; the
  format is compared with that of its port. `FaultsAreForetold` allows it behind `setup_failed`.
- A port of a feature that could not be added to the conference keeps the slot 0,
  the conference's own; the next start finds it "already prepared", and its
  removal removes the conference's slot. (`soiled`.)
- The old port is read and removed after its stream was destroyed (`sip.cpp:6109`, `6140`,
  `5998`), in every re-INVITE; its memory is still there, as said of `AudioPorts` above.
- Features that do not look for the stream's port (`prepare_*` without "stream port is not
  ready yet") read through a NULL pointer before media is negotiated.
- `prepare_speech_synth` returns `PJ_SUCCESS`, which is false, so "start on all
  audio media endpoints" (`sip.cpp:4751`) ends with the first; `StartedMeansRunning` counts the synthesis for that medium only.
- With a `media_id`, `pjw_call_send_dtmf` sends `digits` and not
  `adjusted_digits` (`sip.cpp:3830`), and `pjw_call_send_bfsk` passes `freq_one`
  and `freq_zero` in the other order (`sip.cpp:3999`).
- `on_rx_offer2` ends the server when the answer cannot be made (`sip.cpp:6883`).
- "Send msg to all TCP endpoints" (`sip.cpp:9857`) returns at the first whose send is
  pending, which `PJ_IOQUEUE_ALWAYS_ASYNC` makes it be. The end of the stream and an
  overflow of the receive buffer end the reading without an event; `on_connect_complete` does not look at its status.

Digits

- Digits that wait for their timer when the call ends are not reported
  (`sip.cpp:6341`), although `DOC.md:198` promises an event upon timeout. `EveryDigitReported` excuses it.
- Digits that come just before midnight, or at midnight sharp, wait for the next digit
  (`sip.cpp:9918`, `10003`); `EveryDigitReported` excuses these (`PastMidnight`).
- A full rfc2833 buffer is closed by a NUL that lands in the inband buffer
  (`sip.cpp:9920`); `NothingLost` names it (`dropped`).
- Two threads that push events without the lock lose one of them
  (`sip.cpp:1012`, `1210`): two detectors, or one and other events of the call;
  `NothingLost` names it (`clashed`).
- Aggregation switched off while digits wait lets the next digit overtake them
  (`sip.cpp:995`), and leaves them waiting until a timer is set again (`9971`). `InOrder`
  and `EveryDigitReported` name these (`parked`, `TimerSet`).

Transports, accounts, requests, subscriptions

- Two transports with one tag share an entry of `g_TransportMap`; destroying
  either erases it, and the next INVITE through the other ends the server
  (`sip.cpp:6773`). So does an INVITE over a WebSocket client connection, whose
  packets show another tag than its entry. `StaysUp` excuses it (`careless`).
- Shutting a WebSocket listener does not close its socket; the next connection
  reads its freed object. `NoStraySocket` excuses the socket, `StaysUp` the read.
  A shutdown of a connection leaves `is_connected` set, which sending looks at.
- `pjw_transport_get_info`, `pjw_account_create` and `pjw_subscription_create`
  read `t->sip_transport`, which is not set for tcp and tls (`sip.cpp:2324`, `2441`, `9550`).
- A `Request` that came in lies in the pool of the packet it came in; the next
  packet on the transport overwrites it. `AnswersItsRequest`, `OneFinal` and
  `ReadsWhatIsThere` excuse those ids (`stale`), each by the id itself.
- `request_callback` reads `e->body.tsx_state.src.rdata` of a time-out, which has
  none (`sip.cpp:2898`); `reason` of request_respond is read when it was not given.
- `account_create` takes `to_uri`, which its list of valid parameters calls
  `to_url` (`sip.cpp:2381`, `2413`).
- `pjw_account_create` that fails late leaves its id in the table
  (`sip.cpp:2477`). `StatusNamesAccount` and `ReadsWhatIsThere` excuse those ids.
- A second content type for an event fails an assertion of pjsip (`sip.cpp:9396`).
- `notify_xfer` always fails, as `process_in_dialog_refer` is never called.
- The client is not told when a SUBSCRIBE is refused or times out; a refresh that
  succeeds sends whatever error string was left (`sip.cpp:8547`), also by a command before the
  last, since aggregation_on/off (`10006-10052`) and `call.get_info` (`8961`) clear
  nothing. `ResultIsOwn` is about the results of commands, the events of a refresh it leaves out.
- A command that waits for a connection or for ICE is answered with the error of a callback that failed meanwhile, though
  it succeeded itself; `ResultIsOwn` excuses it (`meanwhile`).
- `process_subscribe_request` takes the failure of `dlg_set_transport` for
  success (`sip.cpp:6447`), and tells the client of an arbitrary id when the table is full.
  `NotifiesAccepted` excuses both (`pinned`, `misled`). It leaves a SUBSCRIBE without an answer when
  `pjsip_dlg_create_response` fails (`6480`), and sends a 500 after the 200 when a later
  step does (`6454-6474`).

Client library

- `_connected` stays true after the connection is gone (`index.js:89`), so a
  command called then is written to a closed socket and never settles;
  `FittingCommandsSettle` excuses exactly these.
- "Scan for READY <port> across the accumulated stream" (`index.js:110`) looks at each
  chunk by itself; a line that came in two would never be seen. The model has READY whole.

## What is not modelled, and why

- pjsip and pjmedia themselves: external, modelled from what `sip.cpp` relies
  on (definitions marked external in `PROJECT.json`). The WebSocket transport, which the
  repository adds to pjsip, is in `Transports`.
- The detectors, the speech, fax and flite ports: signal processing on samples
  and adapters of libraries. A detector is a source of digits, and any of these a
  port of a class in `AudioPorts`.
- `addon.cpp` and `index_napi.js`: the older binding, one function per command
  over the same `sip.cpp`, without state of its own. The chainlink ports are not built into the
  current server. The Rust port is an experiment that the package does not build.
- The formatting of events and SDP text; JSON; the dispatch table of `server.cpp`,
  which maps a name to a call; codecs, flags and the log level.
- `pjw_call_update`, `pjw_call_send_request` and `call_send_tcp_msg`, which send and keep no state.
- The rest of `__pjw_shutdown`: behind the unregistering and unsubscribing is the end of the process.
- In `MediaEndpoints`, a second making of media for one INVITE (a 183 and the 200
  behind it), which `local_sdp_answer_already_set` decides, is in `CallAnswering`.
- `std::map` walked without a lock while it changes (`get_id` in
  `on_inband_dtmf`, `sip.cpp:972`): the outcome is undefined and would make every
  property of digits void; the models take the walk as atomic, and the hazard is listed.

## Plan

Done: all modules above, in the order of how much of the rest depends on them,
and the proofs of every safety property of the runs.

Next:

1. Composition: `CallAnswering` per call of `CallTable`, and `MediaEndpoints` with `AudioPorts`,
   whose media that are on and off are the lines of `on_media_update`.
2. The id that a respond means, if the code gets one: `AnswersTheLatest` could then say that
   no answer goes to a request the client had not heard of.
