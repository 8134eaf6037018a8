--------------------------- MODULE MediaShutdown ---------------------------
(***************************************************************************)
(* The audio of a call as it is negotiated anew, dropped and closed, and   *)
(* who waits for whom meanwhile (src/src/sip.cpp).  The main thread runs   *)
(* the callbacks of pjsip under g_mutex (__pjw_poll); some of them stop    *)
(* the master port of the audio endpoint, which waits for the clock        *)
(* thread.  The clock thread runs the tone detectors, and with aggregation *)
(* these take g_mutex to buffer a digit.                                   *)
(*                                                                         *)
(* One call with one audio endpoint.  The clock thread itself is pjmedia's *)
(* (pjmedia_master_port_stop() tells it to quit and joins it).             *)
(***************************************************************************)
EXTENDS Naturals

CONSTANT Aggregations  \* what aggregation may be switched to

ASSUME AggregationAssumption == Aggregations \subseteq BOOLEAN

VARIABLES g_mutex,      \* who holds it
          main,         \* what the main thread is doing
          stream_port,  \* ae->stream_cbp.port is set: there is a stream
          master_port,  \* "none", "new" (never started), "running", "stopping" or "stopped"
          clock,        \* what the clock thread is doing, "none" if there is none
          detecting,    \* a tone detector is connected to the stream
          aggregation,  \* g_dtmf_inter_digit_timer > 0
          media_count,  \* call->media_count
          media_update, \* status of the last media_update event
          reported,     \* history: the last negotiation ended with such an event
          session,      \* the invite session: "up" or "over"
          in_call       \* the call has its id; call_ended comes as it loses it

shutdown_vars == <<g_mutex, main, stream_port, master_port, clock, detecting, aggregation,
                   media_count, media_update, reported, session, in_call>>

port == <<stream_port, master_port, clock>>
news == <<media_update, reported>>
call == <<media_count, news, session, in_call>>

ShutdownInit == /\ g_mutex = "free"
                /\ main = "idle"
                /\ stream_port = FALSE
                /\ master_port = "none"
                /\ clock = "none"
                /\ detecting = FALSE
                /\ aggregation \in Aggregations
                /\ media_count = 1
                /\ media_update = "none"
                /\ reported = TRUE
                /\ session = "up"
                /\ in_call = TRUE

-----------------------------------------------------------------------------
\* __pjw_poll(): the callbacks run between the locking and the unlocking.
PollLocks == /\ main = "idle"
             /\ g_mutex = "free"
             /\ g_mutex' = "main"
             /\ main' = "polling"
             /\ UNCHANGED <<port, detecting, aggregation, call>>

PollUnlocks == /\ main = "polling"
               /\ g_mutex' = "free"
               /\ main' = "idle"
               /\ UNCHANGED <<port, detecting, aggregation, call>>

\* on_media_update(), called while the session lives.
MediaUpdate == /\ main = "polling"
               /\ session = "up"
               /\ in_call
               /\ UNCHANGED <<g_mutex, aggregation, media_count, session, in_call>>

Update(status) == media_update' = status /\ reported' = TRUE

\* There is no SDP to go by, or the clock of the stream will not stop.
NegotiationFails == /\ MediaUpdate
                    /\ \E status \in {"negotiation_failed", "setup_failed"} : Update(status)
                    /\ UNCHANGED <<main, port, detecting>>

NewClock == master_port' = "running" /\ clock' = "waiting"

\* create_audio_endpoint_conf(): where it has no master port, or this does not start, it
\* answers false, that is PJ_SUCCESS.
CreateConf == NewClock \/ (master_port' \in {"none", "new"} /\ UNCHANGED clock)

\* The first negotiation; after the conference pjmedia_conf_add_port may fail.
SetUp == /\ MediaUpdate
         /\ ~stream_port
         /\ \/ stream_port' = TRUE /\ CreateConf /\ (Update("ok") \/ Update("setup_failed"))
            \/ UNCHANGED port /\ Update("setup_failed")
         /\ UNCHANGED <<main, detecting>>

\* pjmedia_master_port_stop()
Stop == master_port' = IF master_port = "running" THEN "stopping" ELSE master_port

\* A later one stops the clock first: of a stream to be restarted, or dropped.
StopFor(purpose) == /\ MediaUpdate
                    /\ stream_port
                    /\ Stop
                    /\ main' = purpose
                    /\ reported' = FALSE
                    /\ UNCHANGED <<stream_port, clock, detecting, media_update>>

StopToRestart == StopFor("restarting")
StopToDrop == StopFor("dropping")

\* The master port has been joined: the thread is gone.
Joined == clock = "none"

Restarting == /\ main = "restarting"
              /\ Joined
              /\ main' = "polling"
              /\ UNCHANGED <<g_mutex, aggregation, media_count, session, in_call>>

\* The slip: the clock is not started again.
RestartForgetsClock == /\ Restarting
                       /\ Update("ok")
                       /\ UNCHANGED <<port, detecting>>

\* The stream is made anew and the clock, if there was one, started; if the format has
\* changed, the conference is new and the feature ports, the detectors among them, are
\* gone.
Restart == /\ Restarting
           /\ Update("ok")
           /\ \/ master_port # "none" /\ NewClock /\ detecting' \in {detecting, FALSE}
              \/ master_port = "none" /\ CreateConf /\ detecting' = FALSE
              \/ master_port = "none" /\ UNCHANGED <<port, detecting>>
           /\ UNCHANGED stream_port

\* A step fails: the clock stays stopped, or there is a new conference.
RestartFails == /\ Restarting
                /\ Update("setup_failed")
                /\ \/ UNCHANGED <<port, detecting>>
                   \/ CreateConf /\ detecting' = FALSE /\ UNCHANGED stream_port

\* A feature port cannot be connected to the new stream: the clock stays stopped, and
\* no event is dispatched.
RestartReturns == Restarting /\ UNCHANGED <<port, detecting, news>>

\* close_media_endpoint() for a stream that the peer or the client has dropped.
Drop == /\ main = "dropping"
        /\ Joined
        /\ stream_port' = FALSE
        /\ master_port' = "none"
        /\ detecting' = FALSE
        /\ Update("ok")
        /\ main' = "polling"
        /\ UNCHANGED <<g_mutex, clock, aggregation, media_count, session, in_call>>

\* on_state_changed() to DISCONNECTED, as close_media() stops the clock.
Disconnected == /\ main = "polling"
                /\ session = "over"
                /\ in_call
                /\ Stop
                /\ main' = "closing"
                /\ UNCHANGED <<g_mutex, stream_port, clock, detecting, aggregation, news,
                               session, in_call>>

\* A slip: the endpoints are taken off the call before their clock has stopped.
OnDisconnectedDropsFirst == Disconnected /\ media_count' = 0

OnDisconnected == Disconnected /\ UNCHANGED media_count

Closing == /\ main = "closing"
           /\ Joined
           /\ stream_port' = FALSE
           /\ master_port' = "none"
           /\ detecting' = FALSE
           /\ media_count' = 0
           /\ main' = "polling"
           /\ UNCHANGED <<g_mutex, clock, aggregation, news, session>>

\* A slip: the call keeps its id, and call_ended is not dispatched.
CloseKeepsId == Closing /\ UNCHANGED in_call

\* With the clock gone, the ports and endpoints are removed, the id released and
\* call_ended dispatched.
Close == Closing /\ in_call' = FALSE

-----------------------------------------------------------------------------
\* Commands of the client, which the main thread runs between two polls.
Command == /\ main = "idle"
           /\ g_mutex = "free"
           /\ UNCHANGED <<g_mutex, main, port, call>>

\* To start, the stream must be there.
StartDetection == /\ Command
                  /\ in_call
                  /\ stream_port
                  /\ detecting' = TRUE
                  /\ UNCHANGED aggregation

StopDetection == /\ Command
                 /\ in_call
                 /\ detecting' = FALSE
                 /\ UNCHANGED aggregation

SetAggregation == /\ Command
                  /\ aggregation' \in Aggregations
                  /\ UNCHANGED detecting

-----------------------------------------------------------------------------
\* The clock thread: a tick begins a frame, in which a detector may report a digit.
ClockStep(from, to) == /\ clock = from
                       /\ clock' = to
                       /\ UNCHANGED <<main, stream_port, detecting, aggregation, call>>

Tick == /\ master_port = "running"
        /\ ClockStep("waiting", "in_frame")
        /\ UNCHANGED <<g_mutex, master_port>>

FrameEnds == /\ ClockStep("in_frame", "waiting")
             /\ UNCHANGED <<g_mutex, master_port>>

Quit == /\ master_port = "stopping"
        /\ master_port' = "stopped"
        /\ ClockStep("waiting", "none")
        /\ UNCHANGED g_mutex

\* on_inband_dtmf(): the call has its id; then its endpoint is looked for.
Digit == /\ detecting
         /\ in_call
         /\ ClockStep("in_frame", "in_callback")
         /\ UNCHANGED <<g_mutex, master_port>>

\* Without a timer the event is dispatched without the lock.
ReportDigit == /\ ~aggregation
               /\ ClockStep("in_callback", "in_frame")
               /\ UNCHANGED <<g_mutex, master_port>>

WantLock == /\ aggregation
            /\ ClockStep("in_callback", "locking")
            /\ UNCHANGED <<g_mutex, master_port>>

BufferDigit == /\ g_mutex = "free"
               /\ ClockStep("locking", "in_frame")
               /\ UNCHANGED <<g_mutex, master_port>>

\* digit_buffer_thread(), which holds the lock while it walks the calls.
CheckLocks == /\ g_mutex = "free"
              /\ g_mutex' = "checker"
              /\ UNCHANGED <<main, port, detecting, aggregation, call>>

CheckUnlocks == /\ g_mutex = "checker"
                /\ g_mutex' = "free"
                /\ UNCHANGED <<main, port, detecting, aggregation, call>>

\* A BYE, CANCEL or final response has ended the session.
SessionEnds == /\ session = "up"
               /\ main = "polling"
               /\ session' = "over"
               /\ UNCHANGED <<g_mutex, main, port, detecting, aggregation, media_count,
                              news, in_call>>

ClockThread == Tick \/ FrameEnds \/ Quit \/ Digit \/ ReportDigit \/ WantLock \/ BufferDigit

ShutdownNext == \/ PollLocks \/ PollUnlocks
                \/ NegotiationFails \/ SetUp \/ StopToRestart \/ StopToDrop
                \/ Restart \/ RestartFails \/ RestartReturns \/ Drop
                \/ OnDisconnected \/ Close
                \/ StartDetection \/ StopDetection \/ SetAggregation
                \/ ClockThread \/ CheckLocks \/ CheckUnlocks
                \/ SessionEnds

\* The main thread never stops polling, though it may find the mutex taken again and
\* again (its holders keep it for a moment and then sleep); the poll that ends a
\* session runs on_state_changed.  A frame ends, having had its digits.
Fairness == /\ SF_shutdown_vars(PollLocks) /\ WF_shutdown_vars(PollUnlocks)
            /\ SF_shutdown_vars(OnDisconnected)
            /\ WF_shutdown_vars(Restart \/ RestartFails \/ RestartReturns)
            /\ WF_shutdown_vars(Drop) /\ WF_shutdown_vars(Close)
            /\ SF_shutdown_vars(FrameEnds) /\ WF_shutdown_vars(Quit)
            /\ WF_shutdown_vars(ReportDigit) /\ WF_shutdown_vars(WantLock)
            /\ SF_shutdown_vars(BufferDigit)
            /\ WF_shutdown_vars(CheckUnlocks)

ShutdownSpec == ShutdownInit /\ [][ShutdownNext]_shutdown_vars /\ Fairness

-----------------------------------------------------------------------------
ShutdownTypeOK ==
  /\ g_mutex \in {"free", "main", "checker"}
  /\ main \in {"idle", "polling", "restarting", "dropping", "closing"}
  /\ stream_port \in BOOLEAN
  /\ master_port \in {"none", "new", "running", "stopping", "stopped"}
  /\ clock \in {"none", "waiting", "in_frame", "in_callback", "locking"}
  /\ detecting \in BOOLEAN
  /\ aggregation \in BOOLEAN
  /\ media_count \in {0, 1}
  /\ media_update \in {"none", "ok", "setup_failed", "negotiation_failed"}
  /\ reported \in BOOLEAN
  /\ session \in {"up", "over"}
  /\ in_call \in BOOLEAN
  /\ main # "idle" => g_mutex = "main"

(***************************************************************************)
(* A detector that reports a digit finds its endpoint in the call          *)
(* (assert(media_id >= 0) in on_inband_dtmf and on_bfsk_bit), although the *)
(* call may be closed at that moment.                                      *)
(***************************************************************************)
DetectorFindsItsEndpoint ==
  clock \in {"in_callback", "locking"} => media_count > 0

(***************************************************************************)
(* The client, told that the media is "ok", has audio that flows: between  *)
(* polls the clock of a stream runs, through any renegotiations and        *)
(* failures.  There are two exceptions.  A stream whose conference has no  *)
(* master port, or one that was never started, is "ok" as well             *)
(* (create_audio_endpoint_conf hides the failure); and where a feature     *)
(* port cannot be connected to a new stream, restart_media_stream returns  *)
(* without a word, and the "ok" of an earlier negotiation is the last.     *)
(***************************************************************************)
OkMeansAudio ==
  media_update = "ok" /\ reported /\ main = "idle" /\ master_port \notin {"none", "new"} =>
    clock # "none"

(***************************************************************************)
(* Without aggregation no thread waits for ever and each call ends,        *)
(* however its media was negotiated and whoever holds g_mutex meanwhile.   *)
(***************************************************************************)
PlainCallsEnd == []~aggregation => (session = "over" ~> ~in_call)

(***************************************************************************)
(* The client learns of the end of each call: call_ended is "fired when a  *)
(* call is terminated" (DOC.md).                                           *)
(***************************************************************************)
EveryCallEnds == session = "over" ~> ~in_call
=============================================================================
