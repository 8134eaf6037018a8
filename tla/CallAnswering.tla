--------------------------- MODULE CallAnswering ---------------------------
(***************************************************************************)
(* How an incoming call is answered.  The client is told of each request   *)
(* (incoming_call, reinvite, request) and answers with call.respond, which *)
(* names the call and not the request: the Call keeps one pending_request  *)
(* and one pending_rdata, the latest.                                      *)
(*                                                                         *)
(* One call, from its INVITE to its end (src/src/sip.cpp: process_invite,  *)
(* on_rx_request, on_rx_reinvite, pjw_call_respond, pjw_call_terminate),   *)
(* and the client at the other end of a socket: events and commands cross  *)
(* on their way.  serve_client() of src/src/server.cpp sends every event   *)
(* that waits before it reads commands.                                    *)
(*                                                                         *)
(* inv_state and invite_tsx are the pjsip invite session's own state:      *)
(* while an INVITE transaction is open it refuses another INVITE.          *)
(***************************************************************************)
EXTENDS Naturals, Sequences

CONSTANTS MaxRequests, \* bound: requests the peer sends in the call
          MaxCommands  \* bound: commands on their way

ASSUME MaxRequestsAssumption == MaxRequests \in Nat /\ MaxCommands \in Nat

VARIABLES phase,            \* of serve_client(): "poll", or "read" while it executes
                            \* the commands of one read
          told,             \* the requests whose event has been sent: the first told
          heard,            \* those of them that the client has read
          commands,         \* on their way: [does, meant], meant (a history) being the
                            \* request the client had heard of last
          waiting,          \* the INVITE whose answer waits for ICE, or None
          inv_state,
          invite_tsx,       \* the INVITE whose transaction is open, or None
          pending_request,
          pending_rdata,    \* the request whose clone is kept, or None
          inv_initial_answer_required,
          local_sdp_answer_already_set,
          sdp_for,          \* the request the local SDP was last made for
          requests,         \* history: every request, in order of arrival, with the
                            \* phase during which it came
          answers           \* history: what each request was answered with

client_vars == <<phase, told, heard, commands>>

call_vars == <<waiting, inv_state, invite_tsx, pending_request, pending_rdata,
               inv_initial_answer_required, local_sdp_answer_already_set, sdp_for,
               requests, answers>>

answering_vars == <<client_vars, call_vars>>

None == 0

Codes == {"1xx", "183", "2xx", "3xx+"}

Final(code) == code \in {"2xx", "3xx+"}

Latest == Len(requests)

Alive == inv_state \in {"INCOMING", "CONFIRMED"}

-----------------------------------------------------------------------------
Unanswered == [finals |-> 0, made_for |-> None]

\* process_invite(): the clone becomes the pending request.  100 goes out at once,
\* or FLAG_NO_AUTO_100_TRYING (which set_flags may change between two requests)
\* leaves the first answer to the client.
ProcessInvite(r) == /\ inv_initial_answer_required' \in BOOLEAN
                    /\ pending_rdata' = r
                    /\ pending_request' = "INVITE"

AnsweringInit == /\ phase = "poll"
                 /\ told = 0
                 /\ heard = 0
                 /\ commands = <<>>
                 /\ waiting = None
                 /\ inv_state = "NULL"
                 /\ invite_tsx = None
                 /\ pending_request = "NONE"
                 /\ pending_rdata = None
                 /\ inv_initial_answer_required = FALSE
                 /\ local_sdp_answer_already_set = FALSE
                 /\ sdp_for = None
                 /\ requests = <<>>
                 /\ answers = <<>>

\* A request comes in: pjsip is polled between the reads, and in the middle of one by
\* a command whose media wait for ICE.
Receive(kind, offer) ==
  /\ Latest < MaxRequests
  /\ requests' = Append(requests, [kind |-> kind, offer |-> offer, during |-> phase])
  /\ answers' = Append(answers, Unanswered)
  /\ UNCHANGED <<client_vars, waiting>>

\* on_rx_request() for the INVITE that starts the call; event incoming_call.
RxInvite(offer) == /\ inv_state = "NULL"
                   /\ Receive("INVITE", offer)
                   /\ ProcessInvite(Latest + 1)
                   /\ inv_state' = "INCOMING"
                   /\ invite_tsx' = Latest + 1
                   /\ UNCHANGED <<local_sdp_answer_already_set, sdp_for>>

\* on_rx_reinvite(); event reinvite.
RxReinvite(offer) == /\ inv_state = "CONFIRMED"
                     /\ invite_tsx = None
                     /\ Receive("INVITE", offer)
                     /\ ProcessInvite(Latest + 1)
                     /\ invite_tsx' = Latest + 1
                     /\ UNCHANGED <<inv_state, local_sdp_answer_already_set, sdp_for>>

\* A slip: the kind of the pending request is left as it was.
RxInDialogKeepsKind == /\ Alive
                       /\ Receive("OTHER", FALSE)
                       /\ pending_rdata' = Latest + 1
                       /\ UNCHANGED <<inv_state, invite_tsx, inv_initial_answer_required,
                                      pending_request, local_sdp_answer_already_set,
                                      sdp_for>>

\* on_rx_request() for INFO, MESSAGE and the like inside the dialog; event request.
RxInDialog == /\ Alive
              /\ Receive("OTHER", FALSE)
              /\ pending_rdata' = Latest + 1
              /\ pending_request' = "OTHER"
              /\ UNCHANGED <<inv_state, invite_tsx, inv_initial_answer_required,
                             local_sdp_answer_already_set, sdp_for>>

-----------------------------------------------------------------------------
\* __pjw_poll() hands out the oldest event and serve_client() sends it.
Tell == /\ phase = "poll" /\ told < Latest
        /\ told' = told + 1
        /\ UNCHANGED <<phase, heard, commands, call_vars>>

\* A slip: the socket is read while events wait.
ReadUndrained == phase = "poll" /\ phase' = "read"

\* Every event that waits has been sent before the socket is read.
Read == phase = "poll" /\ told = Latest /\ phase' = "read"

StartRead == /\ Read
             /\ UNCHANGED <<told, heard, commands, call_vars>>

EndRead == /\ phase = "read" /\ waiting = None
           /\ phase' = "poll"
           /\ UNCHANGED <<told, heard, commands, call_vars>>

Hear == /\ heard < told
        /\ heard' = heard + 1
        /\ UNCHANGED <<phase, told, commands, call_vars>>

\* The client has the id of the call since incoming_call.
Write == /\ heard > 0
         /\ Len(commands) < MaxCommands
         /\ \E does \in Codes \cup {"terminate"} :
               commands' = Append(commands, [does |-> does, meant |-> heard])
         /\ UNCHANGED <<phase, told, heard, call_vars>>

\* The next command of this read is executed.
Executes(does) == /\ phase = "read"
                  /\ commands # <<>>
                  /\ Head(commands).does = does
                  /\ commands' = Tail(commands)
                  /\ UNCHANGED <<phase, told, heard>>

-----------------------------------------------------------------------------
ForgetPending == /\ pending_rdata' = None
                 /\ pending_request' = "NONE"

KeepPending == UNCHANGED <<pending_rdata, pending_request>>

Answered(answer, code, made_for) ==
  [finals |-> IF Final(code) THEN answer.finals + 1 ELSE answer.finals,
   made_for |-> IF code = "2xx" THEN made_for ELSE answer.made_for]

\* The response to request r leaves for the peer.
Send(r, code, made_for) ==
  answers' = [answers EXCEPT ![r] = Answered(@, code, made_for)]

OtherPending == Alive /\ waiting = None /\ pending_request = "OTHER"

\* A slip: the final answer leaves the request pending.
RespondOtherKeepsPending(code) ==
  /\ Executes(code)
  /\ OtherPending
  /\ Send(pending_rdata, code, None)
  /\ KeepPending
  /\ UNCHANGED <<waiting, inv_state, invite_tsx, inv_initial_answer_required,
                 local_sdp_answer_already_set, sdp_for, requests>>

\* pjw_call_respond() when the pending request is not an INVITE.
RespondOther(code) ==
  /\ Executes(code)
  /\ OtherPending
  /\ Send(pending_rdata, code, None)
  /\ IF Final(code) THEN ForgetPending ELSE KeepPending
  /\ UNCHANGED <<waiting, inv_state, invite_tsx, inv_initial_answer_required,
                 local_sdp_answer_already_set, sdp_for, requests>>

CarriesSdp(code) == code \in {"183", "2xx"}

PeerOffers(r) == r # None /\ requests[r].offer

\* process_media() runs for an answer not made yet, and for every offer of ours.
MakesSdp(code, r) == CarriesSdp(code) /\ (PeerOffers(r) => ~local_sdp_answer_already_set)

\* pjw_call_respond() to an INVITE polls pjsip in process_media(), as long as ICE has
\* not gathered its candidates.
RespondWaits(code) ==
  /\ phase = "read" /\ commands # <<>> /\ Head(commands).does = code
  /\ Alive /\ waiting = None /\ pending_request = "INVITE"
  /\ MakesSdp(code, pending_rdata)
  /\ waiting' = pending_rdata
  /\ UNCHANGED <<client_vars, inv_state, invite_tsx, pending_request, pending_rdata,
                 inv_initial_answer_required, local_sdp_answer_already_set, sdp_for,
                 requests, answers>>

\* The INVITE that respond has found pending, when it started.
Found == IF waiting = None THEN pending_rdata ELSE waiting

\* The local SDP and its flag as they are once the media part has been done.
MediaDone(code) ==
  [sdp_for |-> IF MakesSdp(code, Found) THEN Found ELSE sdp_for,
   already_set |-> \/ local_sdp_answer_already_set
                   \/ MakesSdp(code, Found) /\ PeerOffers(Found)]

\* pjsip sends the first answer from the clone, later ones on the open transaction.
Target == IF inv_initial_answer_required THEN pending_rdata ELSE invite_tsx

AfterMedia(code) == /\ Executes(code)
                    /\ \/ waiting # None
                       \/ Alive /\ pending_request = "INVITE"
                    /\ waiting' = None
                    /\ sdp_for' = MediaDone(code).sdp_for

\* The answer is built and sent.
RespondInvite(code) ==
  /\ AfterMedia(code)
  /\ Alive
  /\ Target # None
  /\ Send(Target, code, sdp_for')
  /\ inv_initial_answer_required' = FALSE
  /\ local_sdp_answer_already_set' =
       IF code = "2xx" THEN FALSE ELSE MediaDone(code).already_set
  /\ IF code = "2xx" THEN ForgetPending ELSE KeepPending
  /\ invite_tsx' = IF Final(code) THEN None ELSE invite_tsx
  /\ inv_state' = CASE code = "2xx" -> "CONFIRMED"
                    [] code = "3xx+" /\ inv_state = "INCOMING" -> "DISCONNECTED"
                    [] OTHER -> inv_state
  /\ UNCHANGED requests

\* pjsip_inv_answer() or pjsip_inv_initial_answer() refuses: no INVITE transaction is
\* open, or the session has ended.
RespondRefused(code) ==
  /\ AfterMedia(code)
  /\ local_sdp_answer_already_set' = MediaDone(code).already_set
  /\ UNCHANGED <<inv_state, invite_tsx, pending_request, pending_rdata,
                 inv_initial_answer_required, requests, answers>>

\* The answer is built but its headers are bad (add_headers, second answers only)
\* or pjsip_inv_send_msg() fails: nothing is sent.
RespondNotSent(code) ==
  /\ AfterMedia(code)
  /\ Target # None
  /\ inv_initial_answer_required' = FALSE
  /\ local_sdp_answer_already_set' = MediaDone(code).already_set
  /\ IF code = "2xx" THEN ForgetPending ELSE KeepPending
  /\ UNCHANGED <<inv_state, invite_tsx, requests, answers>>

\* pjw_call_respond() changes nothing: the call has ended, no request is pending, the
\* transaction of the request is gone, or the media cannot be made.
RespondInVain(code) ==
  /\ Executes(code)
  /\ \/ waiting # None
     \/ ~Alive \/ pending_request # "INVITE"
     \/ MakesSdp(code, pending_rdata)
  /\ waiting' = None
  /\ UNCHANGED <<inv_state, invite_tsx, pending_request, pending_rdata, sdp_for,
                 inv_initial_answer_required, local_sdp_answer_already_set,
                 requests, answers>>

Respond(code) == \/ RespondOther(code)
                 \/ RespondInvite(code)
                 \/ RespondRefused(code)
                 \/ RespondNotSent(code)
                 \/ RespondInVain(code)

\* pjw_call_terminate() of a call not up yet is a final answer.
Terminate == /\ Executes("terminate")
             /\ inv_state = "INCOMING"
             /\ invite_tsx # None
             /\ Send(invite_tsx, "3xx+", None)
             /\ inv_state' = "DISCONNECTED"
             /\ invite_tsx' = None
             /\ UNCHANGED <<waiting, pending_request, pending_rdata, sdp_for, requests,
                            inv_initial_answer_required,
                            local_sdp_answer_already_set>>

\* In a call that is up it sends a BYE and changes nothing here: the end comes with the
\* answer to it.
TerminateLater == /\ Executes("terminate")
                  /\ inv_state # "INCOMING" \/ invite_tsx = None
                  /\ UNCHANGED call_vars

\* CANCEL, BYE, its answer or a timeout ends the invite session: the id is gone.
Disconnect == /\ Alive
              /\ inv_state' = "DISCONNECTED"
              /\ UNCHANGED <<client_vars, waiting, invite_tsx, pending_request,
                             pending_rdata, sdp_for, inv_initial_answer_required,
                             requests, answers, local_sdp_answer_already_set>>

AnsweringNext == \/ \E offer \in BOOLEAN : RxInvite(offer) \/ RxReinvite(offer)
                 \/ RxInDialog
                 \/ Tell \/ StartRead \/ EndRead \/ Hear \/ Write
                 \/ \E code \in Codes : RespondWaits(code) \/ Respond(code)
                 \/ Terminate \/ TerminateLater
                 \/ Disconnect

AnsweringSpec == AnsweringInit /\ [][AnsweringNext]_answering_vars

-----------------------------------------------------------------------------
Answer == [finals : Nat, made_for : Nat]

Requests == [kind : {"INVITE", "OTHER"}, offer : BOOLEAN, during : {"poll", "read"}]

Commands == [does : Codes \cup {"terminate"}, meant : Nat]

ClientTyped ==
  /\ phase \in {"poll", "read"}
  /\ told \in 0 .. Latest
  /\ heard \in 0 .. told
  /\ commands \in Seq(Commands)

CallTyped ==
  /\ waiting \in 0 .. Latest
  /\ inv_state \in {"NULL", "INCOMING", "CONFIRMED", "DISCONNECTED"}
  /\ requests \in Seq(Requests)
  /\ answers \in [DOMAIN requests -> Answer]
  /\ pending_request \in {"NONE", "INVITE", "OTHER"}
  /\ invite_tsx \in 0 .. Latest
  /\ pending_rdata \in 0 .. Latest
  /\ sdp_for \in 0 .. Latest
  /\ inv_initial_answer_required \in BOOLEAN
  /\ local_sdp_answer_already_set \in BOOLEAN

AnsweringTypeOK == ClientTyped /\ CallTyped

(***************************************************************************)
(* pending_request tells what pending_rdata is: pjw_call_respond chooses   *)
(* between the dialog and the invite session by the one and answers with   *)
(* the other.                                                              *)
(***************************************************************************)
PendingMatches ==
  /\ pending_request = "NONE" <=> pending_rdata = None
  /\ pending_rdata # None => requests[pending_rdata].kind = pending_request

(***************************************************************************)
(* No request is given two final responses, however respond and terminate  *)
(* are mixed with new requests.                                            *)
(***************************************************************************)
AtMostOneFinal == \A r \in DOMAIN answers : answers[r].finals <= 1

\* The strengthening under which AtMostOneFinal and AnswersTheLatest are inductive:
\* what a final answer can go to has had none.
OpenTransactions ==
  /\ invite_tsx # None => /\ requests[invite_tsx].kind = "INVITE"
                          /\ answers[invite_tsx].finals = 0
  /\ pending_request = "OTHER" => answers[pending_rdata].finals = 0
  /\ pending_rdata \in {None, Latest}
  /\ Alive /\ pending_request = "INVITE" =>
       /\ invite_tsx \in {None, pending_rdata}
       /\ inv_initial_answer_required => invite_tsx = pending_rdata

\* Request r came in during this read, and its event waits.
Untold(r) == r > told /\ requests[r].during = "read"

\* What was received before this read has been told; the request that a waiting respond
\* has found pending was the latest then, and no INVITE has taken its place since.
ToldInOrder ==
  /\ phase = "read" => \A r \in told + 1 .. Latest : Untold(r)
  /\ \A n \in DOMAIN commands : commands[n].meant <= heard
  /\ waiting # None => /\ phase = "read"
                       /\ commands # <<>> /\ CarriesSdp(Head(commands).does)
                       /\ told <= waiting
                       /\ invite_tsx # None => waiting <= invite_tsx

(***************************************************************************)
(* respond answers the request that the server told the client of last:    *)
(* the one the client meant or, when an event and the command crossed on   *)
(* the socket, a later one, never an earlier.  Only a request that came    *)
(* in while a command of the same read waited for ICE may be answered      *)
(* before the client is told of it, or be passed over (pjw_call_respond,   *)
(* serve_client).                                                          *)
(***************************************************************************)
AnswersTheLatest ==
  [][\A code \in Codes, r \in DOMAIN answers :
        Respond(code) /\ answers'[r] # answers[r] =>
           /\ Head(commands).meant <= r
           /\ r <= told \/ Untold(r)
           /\ \A q \in r + 1 .. Latest : Untold(q)]_answering_vars
=============================================================================
