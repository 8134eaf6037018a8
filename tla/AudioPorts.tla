----------------------------- MODULE AudioPorts -----------------------------
(***************************************************************************)
(* The audio media of one call (src/src/sip.cpp): the RTP stream of each,  *)
(* the conference that joins it to the ports of the features the client    *)
(* starts (players, detectors, fax and so on), the clock that drives the   *)
(* conference, and what restart_media_stream() does to them when a         *)
(* negotiation has been completed.                                         *)
(*                                                                         *)
(* The negotiation itself is in MediaEndpoints: here a line of it is on or *)
(* off.  The conference, the streams and the ports are pjmedia's: they are *)
(* there or not, and any call of theirs that allocates may fail.           *)
(***************************************************************************)
EXTENDS Naturals

CONSTANTS N,           \* audio media of the call
          Features,    \* the classes of features the client uses
          IceMedia,    \* the media that use ICE
          MaxUpdates,  \* negotiations (a bound of the model)
          MaxCommands  \* features started and stopped (a bound of the model)

\* Features whose ports the code treats alike: "detector" of DTMF and of bits; "player" of a
\* file and every feature that is stopped before it is started again (recorder, fax that
\* sends, speech synthesis and recognition); "envelope" and the fax that receives.
Classes == {"tonegen", "detector", "player", "envelope"}

ASSUME NAssumption == N \in Nat \ {0} /\ MaxUpdates \in Nat /\ MaxCommands \in Nat
ASSUME FeaturesAssumption == Features \subseteq Classes
ASSUME IceAssumption == IceMedia \subseteq 1 .. N

VARIABLES eps,        \* the AudioEndpoint of each medium
          in_call,    \* the call has its id
          line,       \* the medium on_media_update() is at, 0 when it does not run
          waiting,    \* what restart_media_stream() knows while it waits for ICE
          told,       \* the last media_update event
          updates,    \* how many negotiations there were
          commands,   \* how many commands there were
          fault,      \* what was misused: "none", a "stream", the "port" of one, a feature
          faulted,    \* the medium of it, or 0
          started,    \* features whose start the client was told of, by medium (a history)
          soiled,     \* features whose port a failed start left behind (a history)
          failed,     \* media whose last setup ended in setup_failed (a history)
          unnoticed,  \* media where a step failed and no event named it (a history)
          overtaken   \* the call ended within the wait for ICE (a history)

history == <<started, soiled, failed, unnoticed, overtaken>>
update == <<line, waiting, told, updates>>
misuse == <<fault, faulted>>
vars == <<eps, in_call, update, commands, misuse, history>>

Media == 1 .. N
NoFeature == [f \in Features |-> "none"]
Fresh == [open |-> TRUE, stream |-> "none", port |-> "none", conf |-> FALSE,
          clock |-> "none", feature |-> NoFeature]
NotWaiting == [on |-> FALSE, old |-> FALSE, stopped |-> FALSE]

Init == /\ eps = [e \in Media |-> Fresh]
        /\ in_call = TRUE
        /\ line = 0
        /\ waiting = NotWaiting
        /\ told = "none"
        /\ updates = 0
        /\ commands = 0
        /\ fault = "none" /\ faulted = 0
        /\ started = [e \in Media |-> {}]
        /\ soiled = [e \in Media |-> {}]
        /\ failed = {}
        /\ unnoticed = {}
        /\ overtaken = FALSE

-----------------------------------------------------------------------------
(* A feature of one endpoint.  Its port is "none", "made", "added" to the  *)
(* conference or "linked" to the stream's; each result is [p, reply].      *)
(* The reply is "fault" where the port of a stream is used that is not     *)
(* there, or whose stream is destroyed, or a slot that a port does not     *)
(* have.                                                                   *)

\* audio_endpoint_remove_port(): a port that is not in the conference has the slot 0, which
\* is that of the conference itself.
Removed(p, f) ==
  IF p.feature[f] = "made" THEN [p |-> p, reply |-> "fault"]
  ELSE [p |-> [p EXCEPT !.feature[f] = "none"], reply |-> "ok"]

\* connect_feature_port_to_stream_port(): with a stream port that is not in the conference
\* it is joined with the slot 0.
Connected(p, f) == [p EXCEPT !.feature[f] = IF p.port = "in" THEN "linked" ELSE "added"]

\* prepare_wav_player() and the like, which fail when the port cannot be created, added or
\* linked.  All read the format from the port of the stream.
Prepared(p, f, mishap) ==
  IF p.port \notin {"in", "made"} THEN [p |-> p, reply |-> "fault"]
  ELSE IF mishap = "create" THEN [p |-> p, reply |-> "error"]
  ELSE IF mishap = "add" \/ ~p.conf
       THEN [p |-> [p EXCEPT !.feature[f] = "made"], reply |-> "error"]
  ELSE IF mishap = "connect" THEN [p |-> [p EXCEPT !.feature[f] = "added"], reply |-> "error"]
  ELSE [p |-> Connected(p, f), reply |-> "ok"]

\* prepare_tonegen() and the detectors find that they are "already prepared".
PreparedOnce(p, f, mishap) ==
  IF p.feature[f] # "none" THEN [p |-> p, reply |-> "ok"] ELSE Prepared(p, f, mishap)

\* The port is removed before another is made.
PreparedAnew(p, f, mishap) ==
  IF Removed(p, f).reply = "ok" THEN Prepared(Removed(p, f).p, f, mishap) ELSE Removed(p, f)

\* "stream port is not ready yet"
IfReady(p, f, mishap, Do(_, _, _)) ==
  IF p.port = "none" THEN [p |-> p, reply |-> "error"] ELSE Do(p, f, mishap)

\* A command on the media of ms with the results r, in their order, up to the first that
\* fails.
OnMedia(ms, r) ==
  LET reached == {e \in ms : \A d \in ms : d < e => r[d].reply = "ok"}
      refused == {e \in reached : r[e].reply # "ok"}
      at == IF refused = {} THEN 0 ELSE CHOOSE e \in refused : TRUE
  IN  [eps |-> [e \in Media |-> IF e \in reached THEN r[e].p ELSE eps[e]],
       reply |-> IF at = 0 THEN "ok" ELSE r[at].reply,
       at |-> at]

-----------------------------------------------------------------------------
(* Commands of the client, between two updates.                            *)

Running == fault = "none"
MayCommand == Running /\ in_call /\ line = 0
Counted == commands < MaxCommands /\ commands' = commands + 1

Replied(f, c) == /\ eps' = c.eps
                 /\ IF c.reply = "fault" THEN fault' = f /\ faulted' = c.at ELSE UNCHANGED misuse

\* "media_id" names a medium, in use or not; without it the command is for all of them.
One == {{e} : e \in Media}
OneOrAll == One \cup {Media}

\* send_dtmf() and send_bfsk() pass over media that are off when they send to all.
OneOrAllInUse == One \cup {{e \in Media : eps[e].open}}

\* What the client is told, and what a failed start leaves behind.
Begin(f, ms, c) ==
  /\ Replied(f, c)
  /\ started' = [e \in Media |-> IF e \notin ms THEN started[e]
                               ELSE IF c.reply = "ok" THEN started[e] \cup {f}
                               ELSE started[e] \ {f}]
  /\ soiled' = [e \in Media |-> IF c.reply = "error" /\ c.eps[e] # eps[e]
                                   /\ c.eps[e].feature[f] \in {"made", "added"}
                                THEN soiled[e] \cup {f} ELSE soiled[e]]
  /\ UNCHANGED <<in_call, update, failed, unnoticed, overtaken>>

\* A feature is started on one of the targets; at one medium of it something may go wrong.
Start(f, targets, Do(_, _, _)) ==
  /\ MayCommand
  /\ Counted
  /\ f \in Features
  /\ \E ms \in targets : \E at \in ms : \E mishap \in {"none", "create", "add", "connect"} :
       LET r == [e \in Media |-> Do(eps[e], f, IF e = at THEN mishap ELSE "none")]
       IN  Begin(f, ms, OnMedia(ms, r))

Ready(p, f, mishap) == IfReady(p, f, mishap, PreparedAnew)

SendDtmf == Start("tonegen", OneOrAllInUse, PreparedOnce)
SendBfsk == Start("tonegen", OneOrAllInUse, PreparedOnce)
StartPlayWav == Start("player", OneOrAll, Ready)
StartRecordWav == Start("player", One, Ready)
StartSpeechRecog == Start("player", OneOrAll, Ready)
StartEnvelopeDetection == Start("envelope", OneOrAll, PreparedAnew)

StartDetection ==
  Start("detector", OneOrAll, LAMBDA p, f, mishap : IfReady(p, f, mishap, PreparedOnce))
StartInbandDtmfDetection == StartDetection
StartBfskDetection == StartDetection

\* A fax that receives is for one medium, and is not checked.
StartFax == \/ Start("player", OneOrAll, Ready)
            \/ Start("envelope", One, PreparedAnew)

\* prepare_speech_synth() returns PJ_SUCCESS for true, which its caller takes for false, and
\* no error is set: of all the media only the first is reached.
StartSpeechSynth == Start("player", One, Ready)

\* audio_endpoint_stop_op(); there is none for the tone generator.
Stop ==
  /\ MayCommand
  /\ Counted
  /\ \E f \in Features \ {"tonegen"} : \E ms \in OneOrAll :
       /\ Replied(f, OnMedia(ms, [e \in Media |-> Removed(eps[e], f)]))
       /\ started' = [e \in Media |-> IF e \in ms THEN started[e] \ {f} ELSE started[e]]
  /\ UNCHANGED <<in_call, update, soiled, failed, unnoticed, overtaken>>

\* These find the stream by its pointer, which is NULL only before the first.
UseStream == /\ MayCommand
             /\ \E e \in Media : eps[e].stream = "destroyed" /\ faulted' = e
             /\ fault' = "stream"
             /\ UNCHANGED <<eps, in_call, update, commands, history>>
DialDtmf == UseStream
GetStreamStat == UseStream

-----------------------------------------------------------------------------
(* restart_media_stream(), for the medium of the line.                     *)

\* close_audio_endpoint_ports_and_conf()
Bare(p) == [p EXCEPT !.port = "none", !.conf = FALSE, !.clock = "none", !.feature = NoFeature]

Silent(p) == [p EXCEPT !.clock = IF @ = "none" THEN @ ELSE "stopped"]

\* The stream that was there is destroyed, and the port was its: "stale" if the conference
\* has it, "lost" if it was never added.
Parted(p, stream) == [p EXCEPT !.stream = stream,
                               !.port = CASE @ = "in" -> "stale" [] @ = "made" -> "lost"
                                          [] OTHER -> @]

Going == /\ Running /\ line \in Media /\ ~waiting.on
         /\ UNCHANGED <<in_call, updates, commands, overtaken>>
Now == eps[line]

Becomes(p) == eps' = [eps EXCEPT ![line] = p]
\* The client knows of the features that are gone with a medium or its format.
Forgets == started' = [started EXCEPT ![line] = {}] /\ soiled' = [soiled EXCEPT ![line] = {}]
Remembers == UNCHANGED <<started, soiled>>

NextLine == line' = line + 1 /\ UNCHANGED told
SetUp == NextLine /\ failed' = failed \ {line}
SetupFailed == line' = 0 /\ told' = "setup_failed" /\ failed' = failed \cup {line}

\* The rest of it, with the new stream: `old` says whether there was a port to begin with and
\* `stopped` whether the clock was stopped.
\* With no port before, a conference is made; its clock may be missing or never have started,
\* because create_audio_endpoint_conf() returns false, which is PJ_SUCCESS, for its failures.
\* A clock that was stopped is started once more.
MakeConf(p, kept) ==
  \E clock \in {"running", "stopped", "none"} :
    /\ unnoticed' = IF clock = "running" THEN unnoticed \ {line} ELSE unnoticed \cup {line}
    /\ \/ /\ Becomes([p EXCEPT !.port = "in", !.conf = TRUE, !.clock = clock])
          /\ IF kept /\ clock # "running" THEN SetupFailed ELSE SetUp
       \/ /\ \E conf \in {TRUE, clock # "none"} :
               Becomes([p EXCEPT !.port = "made", !.conf = conf, !.clock = clock])
          /\ SetupFailed

\* The features a stream port is joined with again: a port that was never added is not.
Joined(p, fs) == [p EXCEPT !.port = "in",
                           !.feature = [f \in Features |->
                              IF p.feature[f] \in {"none", "made"} THEN p.feature[f]
                              ELSE IF f \in fs THEN "linked" ELSE "added"]]

\* A slip: the ports of features are left as they are.
ReplacePort(p, stopped) ==
  /\ Becomes([p EXCEPT !.port = "in", !.clock = IF stopped THEN "running" ELSE @,
                       !.feature = [f \in Features |-> IF p.feature[f] = "linked" THEN "added"
                                                       ELSE p.feature[f]]])
  /\ SetUp
  /\ UNCHANGED unnoticed

\* A slip: stream_cbp keeps the old port.
KeepPort(p, stopped) ==
  /\ Becomes([p EXCEPT !.clock = IF stopped THEN "running" ELSE @])
  /\ SetUp
  /\ UNCHANGED unnoticed

\* A slip: the clock is not started again.
KeepConfStopped(p, stopped) ==
  /\ Becomes(Joined(p, Features))
  /\ SetUp
  /\ UNCHANGED unnoticed

\* The format is the same: the new port takes the place of the old one.
KeepConf(p, stopped) ==
  LET joined == Joined(p, Features)
  IN  \/ /\ p.conf
         /\ Becomes([joined EXCEPT !.clock = IF stopped THEN "running" ELSE @])
         /\ SetUp
         /\ unnoticed' = IF stopped THEN unnoticed \ {line} ELSE unnoticed
      \/ /\ Becomes([p EXCEPT !.port = "made",
                              !.feature = Joined(p, {}).feature])
         /\ SetupFailed
         /\ UNCHANGED unnoticed
      \/ /\ p.conf /\ stopped
         /\ Becomes(joined)
         /\ SetupFailed
         /\ UNCHANGED unnoticed
      \/ /\ p.conf
         /\ \E fs \in SUBSET Features : joined # Joined(p, fs) /\ Becomes(Joined(p, fs))
         /\ line' = 0
         /\ unnoticed' = unnoticed \cup {line}
         /\ UNCHANGED <<told, failed>>

\* Every re-INVITE reads the format of the old port, and removes and destroys it, after the
\* stream it belongs to was destroyed.  That is no misuse here: the port lies in the pool of
\* the dialog, which pjmedia_stream_destroy() does not give back.  Either may come out of the
\* comparison.
Wire(p, old, stopped) ==
  /\ waiting' = NotWaiting
  /\ \/ ~old /\ MakeConf(p, FALSE) /\ Remembers /\ UNCHANGED misuse
     \/ old /\ MakeConf(Bare(p), stopped) /\ Forgets /\ UNCHANGED misuse
     \/ old /\ p.port # "lost" /\ KeepConf(p, stopped) /\ Remembers /\ UNCHANGED misuse
     \/ \* the slot of a port that was not added is that of the conference
        /\ old /\ p.port = "lost"
        /\ fault' = "port" /\ faulted' = line
        /\ UNCHANGED <<eps, line, told, started, soiled, failed, unnoticed>>

\* The medium is one that was negotiated before, or a new one in the place of one that was off.
Subject == IF Now.open THEN Now ELSE Fresh

RestartMediaStream ==
  /\ Going
  /\ LET p == Silent(Subject)
         old == p.port # "none"
         stopped == Subject.clock # "none"
         alive == Parted(p, "live")
     IN  \/ /\ p.stream = "destroyed" \/ ~in_call
            /\ fault' = "stream" /\ faulted' = line
            /\ UNCHANGED <<eps, line, waiting, told, history>>
         \/ /\ p.stream # "destroyed" /\ in_call
            /\ \/ \* pjmedia_stream_info_from_sdp(), pjmedia_stream_create() or a step behind it
                  \* fails
                  /\ \/ Becomes(p)
                     \/ p.stream # "none" /\ Becomes(Parted(p, "destroyed"))
                     \/ Becomes(alive)
                  /\ SetupFailed
                  /\ UNCHANGED <<waiting, misuse, started, soiled, unnoticed>>
               \/ /\ line \in IceMedia
                  /\ Becomes(alive)
                  /\ waiting' = [on |-> TRUE, old |-> old, stopped |-> stopped]
                  /\ UNCHANGED <<line, told, misuse, history>>
               \/ /\ line \notin IceMedia
                  /\ Wire(alive, old, stopped)

\* The wait for ICE is over.
IceDone ==
  /\ Running
  /\ waiting.on
  /\ \/ Wire(Now, waiting.old, waiting.stopped)
     \/ /\ waiting' = NotWaiting
        /\ SetupFailed
        /\ UNCHANGED <<eps, misuse, started, soiled, unnoticed>>
  /\ UNCHANGED <<in_call, updates, commands, overtaken>>

\* close_media_endpoint(): the stream is not destroyed.
LineOff == /\ Going
           /\ Becomes([Bare(Now) EXCEPT !.open = FALSE])
           /\ Forgets
           /\ NextLine
           /\ UNCHANGED <<waiting, misuse, failed, unnoticed>>

OnMediaUpdate == /\ Running /\ in_call /\ line = 0
                 /\ updates < MaxUpdates
                 /\ updates' = updates + 1
                 /\ line' = 1
                 /\ UNCHANGED <<eps, in_call, waiting, told, commands, misuse, history>>

UpdateOk == /\ Running
            /\ line = N + 1
            /\ line' = 0
            /\ told' = "ok"
            /\ UNCHANGED <<eps, in_call, waiting, updates, commands, misuse, history>>

\* A slip: the clock goes on.
ClosedWithoutClock == [e \in Media |-> [Bare(eps[e]) EXCEPT !.open = FALSE,
                                                          !.clock = eps[e].clock]]

\* close_media()
Closed == [e \in Media |-> [Bare(eps[e]) EXCEPT !.open = FALSE]]

\* on_state_changed() to DISCONNECTED.
Disconnected == /\ Running /\ in_call
                /\ line = 0 \/ waiting.on
                /\ in_call' = FALSE
                /\ eps' = Closed
                /\ overtaken' = waiting.on
                /\ UNCHANGED <<update, commands, misuse, started, soiled, failed, unnoticed>>

Next == \/ SendDtmf \/ SendBfsk \/ StartPlayWav \/ StartRecordWav \/ StartSpeechRecog
        \/ StartEnvelopeDetection \/ StartInbandDtmfDetection \/ StartBfskDetection
        \/ StartFax \/ StartSpeechSynth
        \/ Stop \/ DialDtmf \/ GetStreamStat
        \/ OnMediaUpdate \/ RestartMediaStream \/ IceDone \/ LineOff \/ UpdateOk
        \/ Disconnected

Spec == Init /\ [][Next]_vars

-----------------------------------------------------------------------------
AtRest == fault = "none" /\ in_call /\ line = 0

(***************************************************************************)
(* What media_update called "ok" is so, and stays so whatever the client   *)
(* starts and stops: each medium in use has a stream of its own in a       *)
(* conference whose clock runs, and every feature that was not refused is  *)
(* joined to that stream.  The exceptions are the media where a step       *)
(* failed that no event names (create_audio_endpoint_conf,                 *)
(* connect_feature_port_to_stream_port), until a negotiation made up for   *)
(* it.                                                                     *)
(***************************************************************************)
OkMeansWired ==
  AtRest /\ told = "ok" =>
    \A e \in Media \ unnoticed :
      eps[e].open =>
        /\ eps[e].stream = "live" /\ eps[e].port = "in"
        /\ eps[e].conf /\ eps[e].clock = "running"
        /\ \A f \in Features \ soiled[e] : eps[e].feature[f] \in {"none", "linked"}

(***************************************************************************)
(* A feature whose start the client was told of, and which it has not      *)
(* stopped, is joined to the stream of its medium, across re-INVITEs that  *)
(* keep the format.  The exceptions: a feature of which a start had failed *)
(* before, whose port is "already prepared" then; and the media where a    *)
(* step failed that no event names, as in OkMeansWired.  A synthesis that  *)
(* was started on all media counts for the first, the only one it reaches. *)
(***************************************************************************)
StartedMeansRunning ==
  AtRest /\ told = "ok" =>
    \A e \in Media \ unnoticed : \A f \in started[e] \ soiled[e] : eps[e].feature[f] = "linked"

(***************************************************************************)
(* A stream that was destroyed is used, or its port for anything but to be *)
(* replaced, or the slot of a port that has none, only                     *)
(*   - on a medium of which the client was last told that it could not be  *)
(*     set up;                                                             *)
(*   - for a feature of which a start on this medium had been refused;     *)
(*   - by a feature that does not look for the stream's port, on a medium  *)
(*     that has none;                                                      *)
(*   - by an update that goes on after its call ended in the wait for ICE. *)
(* On any other medium, and once a setup has made up for the one that      *)
(* failed, nothing of the kind happens.                                    *)
(***************************************************************************)
Unguarded == {"tonegen", "envelope"}

FaultsAreForetold ==
  fault # "none" => \/ faulted \in failed
                    \/ fault \in soiled[faulted]
                    \/ fault \in Unguarded /\ eps[faulted].port = "none"
                    \/ fault = "stream" /\ overtaken

(***************************************************************************)
(* A medium that is off, and every medium of a call that has ended, has no *)
(* conference and no clock whose thread goes on reading its ports; except  *)
(* where the call ended within the wait for ICE.                           *)
(***************************************************************************)
NothingPlaysOn ==
  ~overtaken => \A e \in Media : ~eps[e].open => ~eps[e].conf /\ eps[e].clock = "none"
=============================================================================
